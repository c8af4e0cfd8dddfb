-------------------------- MODULE TradeSubmission --------------------------
(***************************************************************************)
(* One user's row of the trades table per client_request_id, the handlers  *)
(* that create a row and send its order to the exchange, and the two       *)
(* reconcilers (the background worker and the operator's endpoint) that    *)
(* repair a row whose outcome is in doubt.                                 *)
(*                                                                         *)
(* A handler is the idempotent part of binance_order: create_idempotent,   *)
(* mark SUBMITTED, send, record the answer or UNKNOWN.  Every await is a   *)
(* step boundary; the handlers, the worker and the endpoint are tasks of   *)
(* one process, which may stop at any boundary and start again.            *)
(***************************************************************************)
EXTENDS Naturals, FiniteSets

CONSTANTS
    Requests,       \* order requests, retries of the same click included
    Keys,           \* client_request_id values
    KeyOf,          \* request -> the client_request_id it carries
    ClientOrderIds, \* ids the exchange knows orders by
    SentAs,         \* client_request_id -> newClientOrderId put on the order
    Operators,      \* concurrent calls of the reconcile endpoint
    Worker,         \* the OrderReconciliationWorker
    None,           \* SQL NULL, or no value yet
    Working,        \* exchange statuses an order can still leave
    CancelsResidual, \* whether the handler cancels what a partial fill left over
    SelectCanFail,  \* whether the worker's own queries can raise
    MaxRestarts     \* bound: process restarts

ASSUME KeysAssumption ==
    /\ KeyOf \in [Requests -> Keys]
    /\ SentAs \in [Keys -> ClientOrderIds]
    /\ Keys \subseteq ClientOrderIds
    /\ \A k \in Keys : SentAs[k] \in Keys => SentAs[k] = k

ASSUME NoneAssumption == None \notin Requests

ASSUME StatusAssumption == Working \subseteq {"NEW", "PARTIALLY_FILLED"}

ASSUME BoundsAssumption ==
    /\ CancelsResidual \in BOOLEAN
    /\ SelectCanFail \in BOOLEAN
    /\ MaxRestarts \in Nat

\* Statuses an order never leaves.  CANCELED, REJECTED and the like are
\* treated by the code exactly as EXPIRED is.
Final == {"FILLED", "EXPIRED"}
ExchangeStatus == Working \cup Final
TradeStatus == {"PENDING", "SUBMITTED", "UNKNOWN"} \cup ExchangeStatus

\* The statuses the worker's SELECT asks for.
InDoubt == {"UNKNOWN", "SUBMITTED", "PARTIALLY_FILLED"}

Reconcilers == Operators \cup {Worker}

VARIABLES
    status,     \* per key: status of its row, or "absent"
    tradeId,    \* per key: the row's id, named by the request that made it
    orderId,    \* per key: exchange_order_id, named by the order's request
    pc,         \* per request: where its handler is
    reply,      \* per request: the status in the exchange's answer
    order,      \* per request: its order, in transit or at the exchange
    scan,       \* per reconciler: rows it has read and not yet dealt with
    seen,       \* per reconciler: row and status it is about to write back
    workerUp,   \* whether the worker's task is alive
    restarts

rows     == <<status, tradeId, orderId>>
handlers == <<pc, reply>>
recon    == <<scan, seen, workerUp>>
vars     == <<rows, handlers, order, recon, restarts>>

Row  == [trade : Requests, orderId : Requests \cup {None}]
Seen == [trade : Requests, orderId : Requests \cup {None}, status : ExchangeStatus]

PcActive == {"insert", "created", "send", "await", "record", "failed", "residual"}
PcEnd    == {"refused", "duplicate", "returned", "unknown", "crashed"}

TypeOK ==
    /\ status  \in [Keys -> TradeStatus \cup {"absent"}]
    /\ tradeId \in [Keys -> Requests \cup {None}]
    /\ orderId \in [Keys -> Requests \cup {None}]
    /\ pc \in [Requests -> {"start"} \cup PcActive \cup PcEnd]
    /\ reply \in [Requests -> ExchangeStatus \cup {None}]
    /\ order \in [Requests -> {"none", "transit", "lost"} \cup ExchangeStatus]
    /\ scan \in [Reconcilers -> SUBSET Row]
    /\ seen \in [Reconcilers -> SUBSET Seen]
    /\ workerUp \in BOOLEAN
    /\ restarts \in 0..MaxRestarts

Init ==
    /\ status  = [k \in Keys |-> "absent"]
    /\ tradeId = [k \in Keys |-> None]
    /\ orderId = [k \in Keys |-> None]
    /\ pc = [r \in Requests |-> "start"]
    /\ reply = [r \in Requests |-> None]
    /\ order = [r \in Requests |-> "none"]
    /\ scan = [p \in Reconcilers |-> {}]
    /\ seen = [p \in Reconcilers |-> {}]
    /\ workerUp = TRUE
    /\ restarts = 0

-----------------------------------------------------------------------------
(* The trades table.                                                       *)

Goto(r, from, to) == pc[r] = from /\ pc' = [pc EXCEPT ![r] = to]

\* UPDATE trades SET status = s [, exchange_order_id = oid] WHERE id = t.
UpdateStatus(t, s, oid) ==
    /\ status'  = [k \in Keys |-> IF tradeId[k] = t THEN s ELSE status[k]]
    /\ orderId' = [k \in Keys |-> IF tradeId[k] = t /\ oid # None
                                  THEN oid ELSE orderId[k]]
    /\ UNCHANGED tradeId

\* The SELECT of create_idempotent.
Lookup(r) ==
    /\ Goto(r, "start", IF status[KeyOf[r]] = "absent" THEN "insert" ELSE "duplicate")
    /\ UNCHANGED <<rows, reply, order, recon, restarts>>

\* A slip: the insert trusts the SELECT, as it would without the unique constraint.
InsertWithoutConstraint(r) ==
    /\ Goto(r, "insert", "created")
    /\ status'  = [status  EXCEPT ![KeyOf[r]] = "PENDING"]
    /\ tradeId' = [tradeId EXCEPT ![KeyOf[r]] = r]
    /\ orderId' = [orderId EXCEPT ![KeyOf[r]] = None]
    /\ UNCHANGED <<reply, order, recon, restarts>>

\* The commit of create_idempotent: the unique constraint lets one insert in;
\* the loser rolls back, reads the winner's row and answers "duplicate".
Insert(r) ==
    \/ /\ status[KeyOf[r]] = "absent"
       /\ Goto(r, "insert", "created")
       /\ status'  = [status  EXCEPT ![KeyOf[r]] = "PENDING"]
       /\ tradeId' = [tradeId EXCEPT ![KeyOf[r]] = r]
       /\ UNCHANGED <<orderId, reply, order, recon, restarts>>
    \/ /\ status[KeyOf[r]] # "absent"
       /\ Goto(r, "insert", "duplicate")
       /\ UNCHANGED <<rows, reply, order, recon, restarts>>

-----------------------------------------------------------------------------
(* The handler.                                                            *)

\* The request fails a gate before any row exists (live gates, risk, filters).
Refuse(r) ==
    /\ Goto(r, "start", "refused")
    /\ UNCHANGED <<rows, reply, order, recon, restarts>>

\* A slip: the row stays PENDING until the answer is known.
MarkNothing(r) ==
    /\ Goto(r, "created", "send")
    /\ UNCHANGED <<rows, reply, order, recon, restarts>>

MarkSubmitted(r) ==
    /\ Goto(r, "created", "send")
    /\ UpdateStatus(r, "SUBMITTED", None)
    /\ UNCHANGED <<reply, order, recon, restarts>>

Send(r) ==
    /\ Goto(r, "send", "await")
    /\ order' = [order EXCEPT ![r] = "transit"]
    /\ UNCHANGED <<rows, reply, recon, restarts>>

\* The exchange's answer, which may be overtaken before it is recorded.
Answer(r) ==
    /\ Goto(r, "await", "record")
    /\ order[r] \in ExchangeStatus
    /\ reply' = [reply EXCEPT ![r] = order[r]]
    /\ UNCHANGED <<rows, order, recon, restarts>>

\* A slip: the exception is swallowed and the missing answer recorded.
SendFailsSwallowed(r) ==
    /\ Goto(r, "await", "record")
    /\ UNCHANGED <<rows, reply, order, recon, restarts>>

\* A timeout, a refused connection or an HTTP error: the order may be anywhere.
SendFails(r) ==
    /\ Goto(r, "await", "failed")
    /\ UNCHANGED <<rows, reply, order, recon, restarts>>

\* A slip: a failed send is taken to mean that nothing was ordered.
RecordExpired(r) ==
    /\ Goto(r, "failed", "unknown")
    /\ UpdateStatus(r, "EXPIRED", None)
    /\ UNCHANGED <<reply, order, recon, restarts>>

RecordUnknown(r) ==
    /\ Goto(r, "failed", "unknown")
    /\ UpdateStatus(r, "UNKNOWN", None)
    /\ UNCHANGED <<reply, order, recon, restarts>>

RecordAnswer(r) ==
    /\ Goto(r, "record", IF CancelsResidual /\ reply[r] = "PARTIALLY_FILLED"
                         THEN "residual" ELSE "returned")
    /\ UpdateStatus(r, reply[r], r)
    /\ UNCHANGED <<reply, order, recon, restarts>>

\* cancel_order on a partly filled order; a failure of the call is swallowed.
CancelResidual(r) ==
    /\ Goto(r, "residual", "returned")
    /\ order' \in {order, [order EXCEPT ![r] = IF @ \in Working THEN "EXPIRED" ELSE @]}
    /\ UNCHANGED <<rows, reply, recon, restarts>>

\* An exception nobody catches (the database, mostly) ends the handler.
HandlerAborts(r) ==
    /\ pc[r] \in PcActive
    /\ pc' = [pc EXCEPT ![r] = "crashed"]
    /\ UNCHANGED <<rows, reply, order, recon, restarts>>

-----------------------------------------------------------------------------
(* The exchange and the network (external).                                *)

Accept(r) ==
    /\ order[r] = "transit"
    /\ \E s \in ExchangeStatus : order' = [order EXCEPT ![r] = s]
    /\ UNCHANGED <<rows, handlers, recon, restarts>>

Lose(r) ==
    /\ order[r] = "transit"
    /\ order' = [order EXCEPT ![r] = "lost"]
    /\ UNCHANGED <<rows, handlers, recon, restarts>>

Execute(r) ==
    /\ order[r] \in Working
    /\ \E s \in ExchangeStatus \ {"NEW"} : order' = [order EXCEPT ![r] = s]
    /\ UNCHANGED <<rows, handlers, recon, restarts>>

-----------------------------------------------------------------------------
(* Reconciliation.                                                         *)

ReadRow(k) == [trade |-> tradeId[k], orderId |-> orderId[k]]

\* A slip: the SELECT forgets orders whose answer never came.
WorkerSelectUnknownOnly ==
    /\ workerUp
    /\ scan[Worker] = {} /\ seen[Worker] = {}
    /\ scan' = [scan EXCEPT ![Worker] = {ReadRow(k) : k \in {l \in Keys : status[l] = "UNKNOWN"}}]
    /\ UNCHANGED <<rows, handlers, order, seen, workerUp, restarts>>

\* The worker's SELECT.
WorkerSelect ==
    /\ workerUp
    /\ scan[Worker] = {} /\ seen[Worker] = {}
    /\ scan' = [scan EXCEPT ![Worker] = {ReadRow(k) : k \in {l \in Keys : status[l] \in InDoubt}}]
    /\ UNCHANGED <<rows, handlers, order, seen, workerUp, restarts>>

\* The SELECT, or the credential lookup of a row, raises: run_forever has no
\* handler for it, so the task ends and nothing starts it again.
WorkerDies ==
    /\ SelectCanFail /\ workerUp
    /\ seen[Worker] = {}
    /\ workerUp' = FALSE
    /\ scan' = [scan EXCEPT ![Worker] = {}]
    /\ UNCHANGED <<rows, handlers, order, seen, restarts>>

\* The endpoint reads any row of the user, whatever its status.
OperatorSelect(o) ==
    /\ scan[o] = {} /\ seen[o] = {}
    /\ \E k \in Keys : status[k] # "absent" /\ scan' = [scan EXCEPT ![o] = {ReadRow(k)}]
    /\ UNCHANGED <<rows, handlers, order, seen, workerUp, restarts>>

\* The orders that order_status can find for a row: by exchange_order_id when
\* the row had one, else by the row's client_request_id.
Found(row) ==
    {r \in Requests :
        /\ order[r] \in ExchangeStatus
        /\ IF row.orderId # None THEN r = row.orderId
                                 ELSE SentAs[KeyOf[r]] = KeyOf[row.trade]}

QueryOrder(p, row) ==
    /\ row \in scan[p] /\ seen[p] = {}
    /\ \E r \in Found(row) :
          seen' = [seen EXCEPT ![p] =
                     {[trade |-> row.trade, orderId |-> row.orderId, status |-> order[r]]}]
    /\ scan' = [scan EXCEPT ![p] = @ \ {row}]
    /\ UNCHANGED <<rows, handlers, order, workerUp, restarts>>

\* order_status raises: unknown order, or no answer; the row is left for later.
QueryFails(p, row) ==
    /\ row \in scan[p] /\ seen[p] = {}
    /\ scan' = [scan EXCEPT ![p] = @ \ {row}]
    /\ UNCHANGED <<rows, handlers, order, seen, workerUp, restarts>>

\* reconcile_trade writes the status it read, over whatever is there by now.
WriteBack(p) ==
    \E s \in seen[p] :
        /\ UpdateStatus(s.trade, s.status, s.orderId)
        /\ seen' = [seen EXCEPT ![p] = {}]
        /\ UNCHANGED <<handlers, order, scan, workerUp, restarts>>

-----------------------------------------------------------------------------
\* The process stops: its tasks are gone, the table and the exchange are not.
Restart ==
    /\ restarts < MaxRestarts
    /\ restarts' = restarts + 1
    /\ pc' = [r \in Requests |-> IF pc[r] \in PcActive THEN "crashed" ELSE pc[r]]
    /\ scan' = [p \in Reconcilers |-> {}]
    /\ seen' = [p \in Reconcilers |-> {}]
    /\ workerUp' = TRUE
    /\ UNCHANGED <<rows, reply, order>>

HandlerStep(r) ==
    \/ Lookup(r) \/ Insert(r) \/ MarkSubmitted(r) \/ Send(r) \/ Answer(r)
    \/ SendFails(r) \/ RecordUnknown(r) \/ RecordAnswer(r) \/ CancelResidual(r)

ReconcilerStep(p) ==
    \/ \E row \in scan[p] : QueryOrder(p, row) \/ QueryFails(p, row)
    \/ WriteBack(p)

Next ==
    \/ \E r \in Requests : HandlerStep(r)
    \/ \E r \in Requests : Refuse(r) \/ HandlerAborts(r)
    \/ \E r \in Requests : Accept(r) \/ Lose(r) \/ Execute(r)
    \/ WorkerSelect \/ WorkerDies
    \/ \E o \in Operators : OperatorSelect(o)
    \/ \E p \in Reconcilers : ReconcilerStep(p)
    \/ Restart

Spec == Init /\ [][Next]_vars

\* The worker's loop never stops trying, and an order the exchange holds is
\* eventually found when its row is queried again and again.  Nothing is
\* assumed of the handlers: a handler may hang in any await.
Fairness ==
    /\ WF_vars(WorkerSelect)
    /\ WF_vars(ReconcilerStep(Worker))
    /\ \A k \in Keys : SF_vars(\E row \in scan[Worker] :
                                KeyOf[row.trade] = k /\ QueryOrder(Worker, row))

FairSpec == Spec /\ Fairness

-----------------------------------------------------------------------------
(* Safety.                                                                 *)

\* However requests, retries, restarts and reconcilers interleave, at most one
\* order ever leaves for the exchange under one client_request_id.
AtMostOneOrder ==
    \A r, s \in Requests :
        order[r] # "none" /\ order[s] # "none" /\ KeyOf[r] = KeyOf[s] => r = s

\* An order that has left the process always has a row of its own, already past
\* PENDING: a crash at any boundary leaves something to reconcile.
OrderHasRow ==
    \A r \in Requests :
        order[r] # "none" => /\ tradeId[KeyOf[r]] = r
                             /\ status[KeyOf[r]] \notin {"absent", "PENDING"}

\* A row that says an order is over agrees with the exchange: no stale answer,
\* late write or crash invents an outcome.
HonestFinal ==
    \A k \in Keys : status[k] \in Final => order[tradeId[k]] = status[k]

\* What the checklist says of doubtful orders: until the exchange is done with
\* an order, its row stays among those the worker asks about.
StillReconciled ==
    \A r \in Requests :
        order[r] \in {"transit"} \cup Working => status[KeyOf[r]] \in InDoubt

(* Liveness.                                                               *)

\* When the exchange is done with an order, the row eventually says so, and no
\* write of a slower handler or reconciler undoes it for good.
ResolvedForGood ==
    \A r \in Requests : \A s \in Final :
        order[r] = s ~> [](status[KeyOf[r]] = s)

-----------------------------------------------------------------------------
(* Refinement: the ledger keeps the promise of SubmitOnce.                 *)

Promise == INSTANCE SubmitOnce WITH
    claim <- tradeId,
    sent  <- {r \in Requests : order[r] # "none"},
    told  <- {r \in Requests : pc[r] = "duplicate"}

\* Every step of handlers, reconcilers, exchange and restarts is a step of the
\* abstract ledger or leaves it unchanged.
KeepsPromise == Promise!ASpec
=============================================================================
