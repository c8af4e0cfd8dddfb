---------------------------- MODULE TestnetTrade ----------------------------
(***************************************************************************)
(* TestnetTradeService: one object serves every testnet order of the API   *)
(* and keeps the client of its latest caller in self.exchange.  Beside it  *)
(* the position monitor, when live trading is off, sells positions whose   *)
(* price has crossed a threshold, with a service object of its own.  It    *)
(* never asks what became of an OCO: an executed one is to it a cancel     *)
(* that fails.                                                             *)
(*                                                                         *)
(* A request names a quantity, which is what is ordered, and an amount in  *)
(* USDT, which is what the key of its row is made of; nothing relates the  *)
(* two.  The unique claim of a row is one step here: TradeSubmission shows *)
(* that create_idempotent makes it one.                                    *)
(***************************************************************************)
EXTENDS Naturals, FiniteSets

CONSTANTS
    Buys, Sells,    \* requests to POST /testnet/order
    UserOf,         \* who makes each request
    ClientId,       \* the client_request_id it carries, or None
    Creds,          \* users with Binance credentials in the vault
    SingleOperator, \* settings.single_operator_mode
    Amounts,        \* values of amount_usdt
    Env,            \* the account of the environment's credentials
    MinQty, MaxQty, Step,   \* LOT_SIZE
    Outside,        \* coins every account holds besides the positions
    MaxRestarts,    \* bound: process restarts
    None

Orders == Buys \cup Sells
Users == {UserOf[o] : o \in Orders}
Accounts == Users \cup {Env}
Qty == 0..MaxQty

ASSUME TestnetAssumption ==
    /\ Buys \cap Sells = {} /\ IsFiniteSet(Orders)
    /\ {MinQty, MaxQty, Step} \subseteq Nat \ {0} /\ {Outside, MaxRestarts} \subseteq Nat
    /\ None \notin Orders \cup Accounts

VARIABLES
    pc,         \* where each request's handler is
    ask,        \* quantity asked for
    amount,     \* and amount_usdt named with it
    exchange,   \* the account self.exchange signs for
    owner,      \* the request whose row carries a key
    row,        \* status of the row a request has inserted
    at,         \* the account its market order reached
    done,       \* quantity that order executed
    found,      \* the position a SELL is about to close
    free,       \* free coins of each account
    oco,        \* per BUY: state of its OCO list
    ocoAt,      \* and the account it is in
    exits,      \* per BUY: orders sent to get rid of it
    pos, posQty, posAge,            \* the positions table
    exitRow,    \* status of the row protective_exit_position_N
    mpc, todo, cur,                 \* the monitor
    beyond,     \* positions whose price is past a threshold
    restarts

handler == <<pc, ask, amount, exchange, owner, row, at, done, found>>
market  == <<free, oco, ocoAt, exits>>
table   == <<pos, posQty, posAge>>
worker  == <<exitRow, mpc, todo, cur>>
vars == <<handler, market, table, worker, beyond, restarts>>

Statuses == {"none", "PENDING", "SUBMITTED", "UNKNOWN", "FILLED", "PARTIALLY_FILLED", "EXPIRED"}

\* The row of a request: the user's id for it, or a digest of user, side and
\* amount, without the quantity.
RequestKey(o) ==
    IF ClientId[o] # None THEN <<UserOf[o], "id", ClientId[o]>>
    ELSE <<UserOf[o], IF o \in Buys THEN "BUY" ELSE "SELL", amount[o]>>

\* The digest of orders without an id; ids are the user's own.
Keys == {<<u, s, a>> : u \in Users, s \in {"BUY", "SELL"}, a \in Amounts \cup {None}}
        \cup {<<UserOf[o], "id", ClientId[o]>> : o \in Orders}

TypeOK ==
    /\ pc \in [Orders -> {"idle", "keyed", "vetted", "pending", "submitted", "protect",
                          "open", "flatten", "sold", "close", "returned", "raised"}]
    /\ ask \in [Orders -> Qty] /\ amount \in [Orders -> Amounts \cup {None}]
    /\ done \in [Orders -> Qty]
    /\ exchange \in Accounts /\ at \in [Orders -> Accounts \cup {None}]
    /\ owner \in [Keys -> Orders \cup {None}]
    /\ row \in [Orders -> Statuses] /\ exitRow \in [Buys -> Statuses]
    /\ found \in [Orders -> Buys \cup {None}]
    /\ free \in [Accounts -> Nat]
    /\ oco \in [Buys -> {"none", "active", "cancelled"}]
    /\ ocoAt \in [Buys -> Accounts \cup {None}]
    /\ exits \in [Buys -> Nat]
    /\ pos \in [Buys -> {"none", "OPEN", "CLOSED"}]
    /\ posQty \in [Buys -> Qty] /\ posAge \in [Buys -> Nat]
    /\ mpc \in {"idle", "each", "unprotect", "file", "sell", "close"}
    /\ todo \subseteq Buys /\ cur \in SUBSET Buys
    /\ beyond \subseteq Buys /\ restarts \in 0..MaxRestarts

Init ==
    /\ pc = [o \in Orders |-> "idle"] /\ ask = [o \in Orders |-> 0]
    /\ amount = [o \in Orders |-> None]
    /\ exchange = Env
    /\ owner = [k \in Keys |-> None]
    /\ row = [o \in Orders |-> "none"] /\ at = [o \in Orders |-> None]
    /\ done = [o \in Orders |-> 0] /\ found = [o \in Orders |-> None]
    /\ free = [a \in Accounts |-> Outside]
    /\ oco = [b \in Buys |-> "none"] /\ ocoAt = [b \in Buys |-> None]
    /\ exits = [b \in Buys |-> 0]
    /\ pos = [b \in Buys |-> "none"]
    /\ posQty = [b \in Buys |-> 0] /\ posAge = [b \in Buys |-> 0]
    /\ exitRow = [b \in Buys |-> "none"]
    /\ mpc = "idle" /\ todo = {} /\ cur = {}
    /\ beyond = {} /\ restarts = 0

-----------------------------------------------------------------------------
\* The client a user's call gets: own credentials, or the operator's.
Account(u) == IF u \in Creds THEN u ELSE Env
MayTrade(u) == u \in Creds \/ SingleOperator

FloorToStep(q) == (q \div Step) * Step

\* LOT_SIZE; the notional is the price's business and refuses at will.
FiltersPass(q) == MinQty <= q /\ q <= MaxQty /\ FloorToStep(q) = q

\* Answers of a market order for q.
Executions(q) ==
    {[status |-> "FILLED", done |-> q]}
    \cup {[status |-> "PARTIALLY_FILLED", done |-> e] : e \in 1..(q - 1)}
    \cup {[status |-> "EXPIRED", done |-> e] : e \in 0..(q - 1)}

Goto(o, l) == pc' = [pc EXCEPT ![o] = l]

Refuse(o) ==
    /\ pc[o] \in {"idle", "keyed"}
    /\ Goto(o, "raised")
    /\ UNCHANGED <<ask, amount, exchange, owner, row, at, done, found, market, table>>

\* Kill switch off, portfolio read, credentials found: self.exchange changes.
Arrive(o, q, a) ==
    /\ pc[o] = "idle" /\ MayTrade(UserOf[o])
    /\ ask' = [ask EXCEPT ![o] = q]
    /\ amount' = [amount EXCEPT ![o] = a]
    /\ exchange' = Account(UserOf[o])
    /\ Goto(o, "keyed")
    /\ UNCHANGED <<owner, row, at, done, found, market, table>>

\* Risk engine and exchange filters agree.
Vet(o) ==
    /\ pc[o] = "keyed" /\ FiltersPass(ask[o])
    /\ Goto(o, "vetted")
    /\ UNCHANGED <<ask, amount, exchange, owner, row, at, done, found, market, table>>

\* A slip: nothing keeps a second row with the key out.
ClaimAnyway(o) ==
    /\ pc[o] = "vetted"
    /\ owner' = [owner EXCEPT ![RequestKey(o)] = o]
    /\ row' = [row EXCEPT ![o] = "PENDING"] /\ Goto(o, "pending")
    /\ UNCHANGED <<ask, amount, exchange, at, done, found, market, table>>

\* create_idempotent: the row is new, or the caller is told about the old one.
Claim(o) ==
    /\ pc[o] = "vetted"
    /\ \/ /\ owner[RequestKey(o)] = None
          /\ owner' = [owner EXCEPT ![RequestKey(o)] = o]
          /\ row' = [row EXCEPT ![o] = "PENDING"] /\ Goto(o, "pending")
       \/ /\ owner[RequestKey(o)] # None
          /\ Goto(o, "returned") /\ UNCHANGED <<owner, row>>
    /\ UNCHANGED <<ask, amount, exchange, at, done, found, market, table>>

MarkSubmitted(o) ==
    /\ pc[o] = "pending"
    /\ row' = [row EXCEPT ![o] = "SUBMITTED"] /\ Goto(o, "submitted")
    /\ UNCHANGED <<ask, amount, exchange, owner, at, done, found, market, table>>

\* The order goes out through whatever self.exchange is by now; its answer is
\* recorded, or lost and recorded as UNKNOWN.
Send(o) ==
    /\ pc[o] = "submitted"
    /\ \E x \in Executions(ask[o]) :
          /\ o \in Sells => free[exchange] >= ask[o]
          /\ free' = [free EXCEPT ![exchange] = IF o \in Buys THEN @ + x.done ELSE @ - x.done]
          /\ at' = [at EXCEPT ![o] = exchange]
          /\ done' = [done EXCEPT ![o] = x.done]
          /\ \/ /\ row' = [row EXCEPT ![o] = x.status]
                /\ Goto(o, IF x.status = "EXPIRED" THEN "returned"
                           ELSE IF o \in Sells THEN "sold"
                           ELSE IF FloorToStep(x.done) = 0 THEN "raised" ELSE "protect")
             \/ row' = [row EXCEPT ![o] = "UNKNOWN"] /\ Goto(o, "raised")
    /\ UNCHANGED <<ask, amount, exchange, owner, found, oco, ocoAt, exits, table>>

\* A slip: an exception means the order failed.
SendFailsForGood(o) ==
    /\ pc[o] = "submitted"
    /\ row' = [row EXCEPT ![o] = "FAILED"] /\ Goto(o, "raised")
    /\ UNCHANGED <<ask, amount, exchange, owner, at, done, found, market, table>>

\* The order never gets there, or is refused: UNKNOWN all the same.
SendFails(o) ==
    /\ pc[o] = "submitted"
    /\ row' = [row EXCEPT ![o] = "UNKNOWN"] /\ Goto(o, "raised")
    /\ UNCHANGED <<ask, amount, exchange, owner, at, done, found, market, table>>

ProtectQty(b) == FloorToStep(done[b])

\* order_list_oco reserves the coins; its answer may be lost.
Protect(b) ==
    /\ pc[b] = "protect" /\ free[exchange] >= ProtectQty(b)
    /\ free' = [free EXCEPT ![exchange] = @ - ProtectQty(b)]
    /\ oco' = [oco EXCEPT ![b] = "active"] /\ ocoAt' = [ocoAt EXCEPT ![b] = exchange]
    /\ Goto(b, "open") \/ Goto(b, "flatten")
    /\ UNCHANGED <<ask, amount, exchange, owner, row, at, done, found, exits, table>>

ProtectFails(b) ==
    /\ pc[b] = "protect"
    /\ Goto(b, "flatten")
    /\ UNCHANGED <<ask, amount, exchange, owner, row, at, done, found, market, table>>

\* The emergency SELL; its answer is not looked at, and either way the
\* caller gets an exception.
Flatten(b) ==
    /\ pc[b] = "flatten"
    /\ \/ \E e \in 0..ProtectQty(b) :
             /\ free[exchange] >= ProtectQty(b)
             /\ free' = [free EXCEPT ![exchange] = @ - e]
             /\ exits' = [exits EXCEPT ![b] = @ + 1]
       \/ UNCHANGED <<free, exits>>
    /\ Goto(b, "raised")
    /\ UNCHANGED <<ask, amount, exchange, owner, row, at, done, found, oco, ocoAt, table>>

OpenPosition(b) ==
    /\ pc[b] = "open"
    /\ pos' = [pos EXCEPT ![b] = "OPEN"]
    /\ posQty' = [posQty EXCEPT ![b] = ProtectQty(b)]
    /\ posAge' = [posAge EXCEPT ![b] = 1 + Cardinality({c \in Buys : pos[c] # "none"})]
    /\ Goto(b, "returned")
    /\ UNCHANGED <<ask, amount, exchange, owner, row, at, done, found, market>>

OpenOf(u) == {b \in Buys : pos[b] = "OPEN" /\ UserOf[b] = u}

\* open_position_for_symbol: the user's oldest, if any.
FindPosition(s) ==
    /\ pc[s] = "sold"
    /\ \/ \E b \in OpenOf(UserOf[s]) :
             /\ \A c \in OpenOf(UserOf[s]) : posAge[b] <= posAge[c]
             /\ found' = [found EXCEPT ![s] = b] /\ Goto(s, "close")
       \/ OpenOf(UserOf[s]) = {} /\ Goto(s, "returned") /\ UNCHANGED found
    /\ UNCHANGED <<ask, amount, exchange, owner, row, at, done, market, table>>

ClosePosition(b) == pos' = [pos EXCEPT ![b] = "CLOSED"] /\ UNCHANGED <<posQty, posAge>>

\* The position is closed whole, and its OCO stays where it is.
SellCloses(s) ==
    /\ pc[s] = "close"
    /\ ClosePosition(found[s]) /\ Goto(s, "returned")
    /\ UNCHANGED <<ask, amount, exchange, owner, row, at, done, found, market>>

OrderStep ==
    \/ \E o \in Orders, q \in Qty \ {0}, a \in Amounts : Arrive(o, q, a)
    \/ \E o \in Orders : \/ Refuse(o) \/ Vet(o) \/ Claim(o)
                         \/ MarkSubmitted(o) \/ Send(o) \/ SendFails(o)
    \/ \E b \in Buys : Protect(b) \/ ProtectFails(b) \/ Flatten(b) \/ OpenPosition(b)
    \/ \E s \in Sells : FindPosition(s) \/ SellCloses(s)

-----------------------------------------------------------------------------
(* The monitor's tick and close_protective_position.                       *)

NextItem == mpc' = "each" /\ cur' = {}

Tick ==
    /\ mpc = "idle" /\ \E b \in Buys : pos[b] = "OPEN"
    /\ todo' = {b \in Buys : pos[b] = "OPEN"} /\ NextItem
    /\ UNCHANGED <<handler, market, table, exitRow>>

TickEnds ==
    /\ mpc = "each" /\ todo = {} /\ mpc' = "idle"
    /\ UNCHANGED <<handler, market, table, exitRow, todo, cur>>

\* The price is within bounds, or it or the credentials cannot be read.
Hold(b) ==
    /\ mpc = "each" /\ b \in todo /\ todo' = todo \ {b}
    /\ UNCHANGED <<handler, market, table, exitRow, mpc, cur>>

\* The price is read, and past a threshold; the credentials are there.
Judge(b) ==
    /\ mpc = "each" /\ b \in todo /\ b \in beyond /\ MayTrade(UserOf[b])
    /\ todo' = todo \ {b} /\ cur' = {b} /\ mpc' = "unprotect"
    /\ UNCHANGED <<handler, market, table, exitRow>>

\* The cancel takes effect only where the list is, and while it is active.
CancelOco(b) ==
    /\ oco[b] = "active" /\ ocoAt[b] = Account(UserOf[b])
    /\ oco' = [oco EXCEPT ![b] = "cancelled"]
    /\ free' = [free EXCEPT ![ocoAt[b]] = @ + posQty[b]]

\* Cancel the OCO; whether or not that works, the exit goes on.
Unprotect(b) ==
    /\ mpc = "unprotect" /\ b \in cur
    /\ mpc' = "file" /\ UNCHANGED cur
    /\ CancelOco(b) \/ UNCHANGED <<oco, free>>
    /\ UNCHANGED <<handler, ocoAt, exits, table, exitRow, todo>>

\* A slip: the row of an earlier exit does not stop another.
FileAgain(b) ==
    /\ mpc = "file" /\ b \in cur
    /\ exitRow' = [exitRow EXCEPT ![b] = "SUBMITTED"] /\ mpc' = "sell" /\ UNCHANGED cur
    /\ UNCHANGED <<handler, market, table, todo>>

File(b) ==
    /\ mpc = "file" /\ b \in cur
    /\ \/ exitRow[b] # "none" /\ NextItem /\ UNCHANGED exitRow
       \/ /\ exitRow[b] = "none"
          /\ exitRow' = [exitRow EXCEPT ![b] = "SUBMITTED"] /\ mpc' = "sell" /\ UNCHANGED cur
    /\ UNCHANGED <<handler, market, table, todo>>

\* A slip: any answer closes the position.
SellExitClosesAny(b) ==
    /\ mpc = "sell" /\ b \in cur
    /\ exitRow' = [exitRow EXCEPT ![b] = "EXPIRED"] /\ mpc' = "close" /\ UNCHANGED cur
    /\ UNCHANGED <<handler, market, table, todo>>

\* Only an answer FILLED closes the position.
SellExit(b) ==
    /\ mpc = "sell" /\ b \in cur
    /\ LET a == Account(UserOf[b])
       IN \E x \in Executions(posQty[b]) :
            /\ free[a] >= posQty[b]
            /\ free' = [free EXCEPT ![a] = @ - x.done]
            /\ exits' = [exits EXCEPT ![b] = @ + 1]
            /\ \/ /\ exitRow' = [exitRow EXCEPT ![b] = x.status]
                  /\ IF x.status = "FILLED" THEN mpc' = "close" /\ UNCHANGED cur ELSE NextItem
               \/ exitRow' = [exitRow EXCEPT ![b] = "UNKNOWN"] /\ NextItem
    /\ UNCHANGED <<handler, oco, ocoAt, table, todo>>

SellExitFails(b) ==
    /\ mpc = "sell" /\ b \in cur
    /\ exitRow' = [exitRow EXCEPT ![b] = "UNKNOWN"] /\ NextItem
    /\ UNCHANGED <<handler, market, table, todo>>

CloseExit(b) ==
    /\ mpc = "close" /\ b \in cur
    /\ ClosePosition(b) /\ NextItem
    /\ UNCHANGED <<handler, market, exitRow, todo>>

MonitorStep ==
    \/ Tick \/ TickEnds
    \/ \E b \in Buys : \/ Hold(b) \/ Judge(b) \/ Unprotect(b) \/ File(b)
                       \/ SellExit(b) \/ SellExitFails(b) \/ CloseExit(b)

-----------------------------------------------------------------------------
PriceMoves ==
    /\ \E b \in Buys : pos[b] = "OPEN" /\ beyond' = IF b \in beyond THEN beyond \ {b} ELSE beyond \cup {b}
    /\ UNCHANGED <<handler, market, table, worker, restarts>>

\* The process stops: handlers are gone, self.exchange starts over.
Restart ==
    /\ restarts < MaxRestarts /\ restarts' = restarts + 1
    /\ exchange' = Env
    /\ pc' = [o \in Orders |-> IF pc[o] = "idle" THEN "idle" ELSE "raised"]
    /\ mpc' = "idle" /\ todo' = {} /\ cur' = {}
    /\ UNCHANGED <<ask, amount, owner, row, at, done, found, market, table, exitRow, beyond>>

OrderNext   == OrderStep /\ UNCHANGED <<worker, beyond, restarts>>
MonitorNext == MonitorStep /\ UNCHANGED <<beyond, restarts>>

Next == OrderNext \/ MonitorNext \/ PriceMoves \/ Restart

Spec == Init /\ [][Next]_vars

-----------------------------------------------------------------------------
(* Properties.                                                             *)

Sent(o) == at[o] # None

\* Two requests mean the same order: they carry one id, or neither carries
\* any and all else is equal.
SameOrder(o, p) ==
    /\ UserOf[o] = UserOf[p] /\ ClientId[o] = ClientId[p]
    /\ ClientId[o] = None => /\ (o \in Buys <=> p \in Buys)
                             /\ ask[o] = ask[p] /\ amount[o] = amount[p]

\* "an accidental double-submit of the exact same order (no explicit client
\* ID) still collides": of two equal requests at most one reaches the
\* exchange.
NoDoubleOrder ==
    \A o, p \in Orders : o # p /\ Sent(o) /\ Sent(p) => ~SameOrder(o, p)

\* "repeated worker ticks cannot double-close": the emergency SELL and all
\* ticks, retries and restarts together send one order to get rid of a BUY.
OneExitPerPosition == \A b \in Buys : exits[b] <= 1

\* A position is closed only after its exit was FILLED or an executed SELL
\* of the same user.
ClosedMeansSold ==
    \A b \in Buys : pos[b] = "CLOSED" =>
        \/ exitRow[b] = "FILLED"
        \/ \E s \in Sells : UserOf[s] = UserOf[b] /\ done[s] > 0

-----------------------------------------------------------------------------
(* What the documentation says and the code does not do.                   *)

\* "Fixed testnet and real Binance paths to load the authenticated user's
\* encrypted credentials": an order is in the account of who ordered it.
OwnAccount == \A o \in Orders : Sent(o) => at[o] = Account(UserOf[o])
=============================================================================
