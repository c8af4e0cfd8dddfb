--------------------------- MODULE LiveOrderRoute ---------------------------
(***************************************************************************)
(* binance_order: what a live BUY or SELL does after its row is claimed    *)
(* (TradeSubmission models the row), up to a protected position, a         *)
(* flattened one, a frozen account, or an outcome left to reconciliation.  *)
(***************************************************************************)
EXTENDS SpotExchange, Integers

CONSTANT None

VARIABLES
    pc,     \* per request: where its handler is
    got,    \* per request: executedQty in the exchange's answer
    ask,    \* per request: quantity to sell (a SELL, or an emergency flatten)
    held    \* per SELL: the position and quantity read before the order

route == <<pc, got, ask, held>>

Held == [pos : Buys, qty : Qty]

ASSUME NoneAssumption == None \notin [pos : Buys, qty : Int]

\* Handlers that a restart of the process kills.
InFlight == {"gated", "balanced", "ready", "cancel", "protect", "opening",
             "flatten", "freeze", "reduce", "unprotect", "close"}
Ended == {"refused", "unknown", "returned", "opened", "flattened", "frozen", "raised", "crashed"}

RouteTypeOK ==
    /\ pc \in [Requests -> {"start"} \cup InFlight \cup Ended]
    /\ got \in [Requests -> Qty]
    /\ ask \in [Requests -> Qty]
    /\ held \in [Sells -> Held \cup {None}]

RouteInit ==
    /\ pc = [r \in Requests |-> "start"]
    /\ got = [r \in Requests |-> 0]
    /\ ask = [r \in Requests |-> 0]
    /\ held = [s \in Sells |-> None]

Goto(r, from, to) == pc[r] = from /\ pc' = [pc EXCEPT ![r] = to]

\* _require_live reads the kill switch once, at the start.
Gate(r) ==
    /\ Goto(r, "start", IF kill THEN "refused" ELSE "gated")
    /\ UNCHANGED <<got, ask, held, shared>>

\* Limits, filters or risk refuse the order before anything is sent.
Refuse(r) ==
    /\ pc[r] \in {"gated", "balanced"}
    /\ pc' = [pc EXCEPT ![r] = "refused"]
    /\ UNCHANGED <<got, ask, held, shared>>

\* Where an answered order leads; only FILLED and PARTIALLY_FILLED are fills.
AfterAnswer(x, onFill) ==
    CASE x.status = "PARTIALLY_FILLED" -> "cancel"
      [] x.status = "FILLED"           -> onFill
      [] OTHER                         -> "returned"

\* cancel_order on the rest of a partly filled order; failure is swallowed.
CancelResidual(r, onFill) ==
    /\ Goto(r, "cancel", onFill)
    /\ CancelRest(r) \/ UNCHANGED market
    /\ UNCHANGED <<got, ask, held, table, kill>>

-----------------------------------------------------------------------------
(* BUY.                                                                    *)

BuySend(b) ==
    \E x \in Executions(BuyQty), heard \in BOOLEAN :
        /\ BuyMarket(b, x)
        /\ Goto(b, "gated", IF heard THEN AfterAnswer(x, "protect") ELSE "unknown")
        /\ got' = IF heard THEN [got EXCEPT ![b] = x.done] ELSE got
        /\ UNCHANGED <<ask, held, table, kill>>

\* The order never reaches the exchange, or is refused there.
BuySendFails(b) ==
    /\ Goto(b, "gated", "unknown")
    /\ UNCHANGED <<got, ask, held, shared>>

Flatten(b, q) ==
    /\ Goto(b, "protect", "flatten")
    /\ ask' = [ask EXCEPT ![b] = q]

\* A slip: the position is protected for what was ordered.
ProtectOrdered(b) == FloorStep(BuyQty)

\* The quantity protected and tracked.
ProtectQty(b) == FloorStep(got[b])

\* Stop and take-profit round to a price that cannot protect, or the fill is
\* below one step: sell what was bought.
CannotProtect(b) ==
    /\ Flatten(b, got[b])
    /\ UNCHANGED <<got, held, shared>>

Protect(b) ==
    /\ ProtectQty(b) > 0
    /\ \/ Goto(b, "protect", "opening") /\ PlaceOco(b, ProtectQty(b)) /\ UNCHANGED ask
       \/ Flatten(b, ProtectQty(b)) /\ (PlaceOco(b, ProtectQty(b)) \/ UNCHANGED market)
    /\ UNCHANGED <<got, held, table, kill>>

OpenPosition(b) ==
    /\ Goto(b, "opening", "opened")
    /\ CreatePosition(b, ProtectQty(b))
    /\ UNCHANGED <<got, ask, held, market, kill>>

\* _emergency_flatten_binance: any answer counts as flattened, whatever its
\* status; only an exception freezes the account.
FlattenSend(b) ==
    /\ \/ \E e \in 0..ask[b] :
             /\ SellOff(b, ask[b], e)
             /\ pc[b] = "flatten"
             /\ pc' \in {[pc EXCEPT ![b] = "flattened"], [pc EXCEPT ![b] = "freeze"]}
       \/ Goto(b, "flatten", "freeze") /\ UNCHANGED market
    /\ UNCHANGED <<got, ask, held, table, kill>>

\* The account is frozen, unless set_kill_switch raises.
Freeze(b) ==
    /\ \/ Goto(b, "freeze", "frozen") /\ kill' = TRUE
       \/ Goto(b, "freeze", "raised") /\ UNCHANGED kill
    /\ UNCHANGED <<got, ask, held, market, table>>

-----------------------------------------------------------------------------
(* SELL.                                                                   *)

\* _binance_server_risk: the free balance covers the quantity.
SellBalance(s) ==
    \E q \in 1..BuyQty :
        /\ free >= q
        /\ Goto(s, "gated", "balanced")
        /\ ask' = [ask EXCEPT ![s] = q]
        /\ UNCHANGED <<got, held, shared>>

\* The read of `existing`, and the reduce-only check against it.
SellRead(s) ==
    \E p \in OldestOpen :
        /\ ask[s] <= posQty[p]
        /\ Goto(s, "balanced", "ready")
        /\ held' = [held EXCEPT ![s] = [pos |-> p, qty |-> posQty[p]]]
        /\ UNCHANGED <<got, ask, shared>>

SellSend(s) ==
    \E x \in Executions(ask[s]), heard \in BOOLEAN :
        /\ SellMarket(s, ask[s], x)
        /\ Goto(s, "ready", IF heard THEN AfterAnswer(x, "reduce") ELSE "unknown")
        /\ got' = IF heard THEN [got EXCEPT ![s] = x.done] ELSE got
        /\ UNCHANGED <<ask, held, table, kill>>

SellSendFails(s) ==
    /\ Goto(s, "ready", "unknown")
    /\ UNCHANGED <<got, ask, held, shared>>

\* A slip: any fill closes the position, as the testnet service does.
SoldOutAny(s) == got[s] > 0

\* The fill covers what the position held when it was read.
SoldOut(s) == got[s] >= held[s].qty

\* A slip: the ordered quantity is taken off, not the executed one.
ReduceByOrdered(s) ==
    /\ Goto(s, "reduce", "returned")
    /\ ~SoldOut(s)
    /\ posQty' = [posQty EXCEPT ![held[s].pos] = held[s].qty - ask[s]]
    /\ UNCHANGED <<got, ask, held, posStatus, posAge, market, kill>>

\* existing.quantity is written back from the value read before the order.
ReducePosition(s) ==
    /\ Goto(s, "reduce", "returned")
    /\ ~SoldOut(s)
    /\ posQty' = [posQty EXCEPT ![held[s].pos] = held[s].qty - got[s]]
    /\ UNCHANGED <<got, ask, held, posStatus, posAge, market, kill>>

\* cancel_order_list before the close; failure is swallowed.
SellUnprotect(s) ==
    /\ Goto(s, "reduce", "close")
    /\ SoldOut(s)
    /\ CancelOco(held[s].pos, ProtectQty(held[s].pos)) \/ UNCHANGED market
    /\ UNCHANGED <<got, ask, held, table, kill>>

SellClose(s) ==
    /\ Goto(s, "close", "returned")
    /\ ClosePosition(held[s].pos)
    /\ UNCHANGED <<got, ask, held, market, kill>>

-----------------------------------------------------------------------------
BuyStep(b) ==
    \/ Gate(b) \/ Refuse(b) \/ BuySend(b) \/ BuySendFails(b)
    \/ CancelResidual(b, "protect") \/ CannotProtect(b) \/ Protect(b)
    \/ OpenPosition(b) \/ FlattenSend(b) \/ Freeze(b)

SellStep(s) ==
    \/ Gate(s) \/ Refuse(s) \/ SellBalance(s) \/ SellRead(s) \/ SellSend(s)
    \/ SellSendFails(s) \/ CancelResidual(s, "reduce") \/ ReducePosition(s)
    \/ SellUnprotect(s) \/ SellClose(s)

\* The process stops: its handlers are gone.
RouteRestart ==
    /\ pc' = [r \in Requests |-> IF pc[r] \in InFlight THEN "crashed" ELSE pc[r]]
    /\ UNCHANGED <<got, ask, held>>
=============================================================================
