-------------------------- MODULE PositionMonitor --------------------------
(***************************************************************************)
(* PositionMonitorWorker in live mode: read the open positions, and for    *)
(* each one ask the exchange about its OCO, reconcile a position whose OCO *)
(* has executed, or sell a position whose price has crossed its threshold. *)
(***************************************************************************)
EXTENDS SpotExchange

VARIABLES
    mpc,        \* where the worker is
    todo,       \* positions read at the start of the tick, not yet handled
    cur,        \* the position being handled
    exitTrade,  \* per position: status of the row protective_exit_position_N
    beyond      \* positions whose live price is past a stored threshold

monitor == <<mpc, todo, cur, exitTrade>>

Item == [pos : Buys, qty : Qty]

MonitorTypeOK ==
    /\ mpc \in {"idle", "each", "reconcile", "unprotect", "file", "sell", "close", "freeze"}
    /\ todo \subseteq Item
    /\ cur \in SUBSET Item
    /\ exitTrade \in [Buys -> {"none", "SUBMITTED", "UNKNOWN", "FILLED", "OTHER"}]
    /\ beyond \subseteq Buys

MonitorInit ==
    /\ mpc = "idle" /\ todo = {} /\ cur = {}
    /\ exitTrade = [b \in Buys |-> "none"]
    /\ beyond = {}

Idle == mpc' = "each" /\ cur' = {}

\* run_once: the positions as they are now.
MonSelect ==
    /\ mpc = "idle"
    /\ Open # {}
    /\ todo' = {[pos |-> b, qty |-> posQty[b]] : b \in Open}
    /\ Idle
    /\ UNCHANGED <<exitTrade, beyond, shared>>

MonTickEnds ==
    /\ mpc = "each" /\ todo = {}
    /\ mpc' = "idle"
    /\ UNCHANGED <<todo, cur, exitTrade, beyond, shared>>

\* The price or the OCO's state cannot be read: nothing is sent this tick.
MonSkip(i) ==
    /\ mpc = "each" /\ i \in todo
    /\ todo' = todo \ {i}
    /\ UNCHANGED <<mpc, cur, exitTrade, beyond, shared>>

\* A slip: an unreadable or executed OCO does not stop the evaluation.
MonReadBlind(i) ==
    /\ mpc = "each" /\ i \in todo
    /\ todo' = todo \ {i}
    /\ \/ i.pos \in beyond /\ mpc' = "unprotect" /\ cur' = {i}
       \/ i.pos \notin beyond /\ UNCHANGED <<mpc, cur>>
    /\ UNCHANGED <<exitTrade, beyond, shared>>

\* get_order_list answers: an executed list is reconciled, otherwise the
\* price decides.
MonRead(i) ==
    /\ mpc = "each" /\ i \in todo
    /\ todo' = todo \ {i}
    /\ \/ oco[i.pos] = "filled" /\ mpc' = "reconcile" /\ cur' = {i}
       \/ oco[i.pos] # "filled" /\ i.pos \in beyond /\ mpc' = "unprotect" /\ cur' = {i}
       \/ oco[i.pos] # "filled" /\ i.pos \notin beyond /\ UNCHANGED <<mpc, cur>>
    /\ UNCHANGED <<exitTrade, beyond, shared>>

MonClose(i) ==
    /\ mpc \in {"reconcile", "close"} /\ i \in cur
    /\ ClosePosition(i.pos)
    /\ Idle
    /\ UNCHANGED <<todo, exitTrade, beyond, market, kill>>

-----------------------------------------------------------------------------
(* _live_protective_exit.                                                  *)

\* cancel_order_list; failure is audited and the exit goes on.
MonUnprotect(i, q) ==
    /\ mpc = "unprotect" /\ i \in cur
    /\ mpc' = "file"
    /\ CancelOco(i.pos, q) \/ UNCHANGED market
    /\ UNCHANGED <<todo, cur, exitTrade, beyond, table, kill>>

\* A slip: the row of an earlier exit does not stop a new one.
MonFileAgain(i) ==
    /\ mpc = "file" /\ i \in cur
    /\ exitTrade' = [exitTrade EXCEPT ![i.pos] = "SUBMITTED"]
    /\ mpc' = "sell" /\ UNCHANGED cur
    /\ UNCHANGED <<todo, beyond, shared>>

\* create_idempotent on protective_exit_position_N, then SUBMITTED.
MonFile(i) ==
    /\ mpc = "file" /\ i \in cur
    /\ \/ exitTrade[i.pos] # "none" /\ Idle /\ UNCHANGED exitTrade
       \/ /\ exitTrade[i.pos] = "none"
          /\ exitTrade' = [exitTrade EXCEPT ![i.pos] = "SUBMITTED"]
          /\ mpc' = "sell" /\ UNCHANGED cur
    /\ UNCHANGED <<todo, beyond, shared>>

\* A slip: any answer closes the position.
MonSellClosesAny(i) ==
    /\ mpc = "sell" /\ i \in cur
    /\ \E e \in 0..i.qty : SellOff(i.pos, i.qty, e)
    /\ exitTrade' = [exitTrade EXCEPT ![i.pos] = "OTHER"]
    /\ mpc' = "close" /\ UNCHANGED cur
    /\ UNCHANGED <<todo, beyond, table, kill>>

\* place_market_order answers; only FILLED closes the position.  An answer
\* without a status is stored as UNKNOWN and freezes nothing; a lost one does.
MonSell(i) ==
    /\ mpc = "sell" /\ i \in cur
    /\ \E e \in 0..i.qty :
          /\ SellOff(i.pos, i.qty, e)
          /\ \/ /\ e = i.qty
                /\ exitTrade' = [exitTrade EXCEPT ![i.pos] = "FILLED"]
                /\ mpc' = "close" /\ UNCHANGED cur
             \/ exitTrade' = [exitTrade EXCEPT ![i.pos] = "OTHER"] /\ Idle
             \/ /\ exitTrade' = [exitTrade EXCEPT ![i.pos] = "UNKNOWN"]
                /\ Idle \/ (mpc' = "freeze" /\ UNCHANGED cur)
    /\ UNCHANGED <<todo, beyond, table, kill>>

\* The order never arrives or is refused: UNKNOWN all the same.
MonSellFails(i) ==
    /\ mpc = "sell" /\ i \in cur
    /\ exitTrade' = [exitTrade EXCEPT ![i.pos] = "UNKNOWN"]
    /\ mpc' = "freeze"
    /\ UNCHANGED <<todo, cur, beyond, shared>>

\* set_kill_switch may raise; run_once swallows that and goes on.
MonFreeze(i) ==
    /\ mpc = "freeze" /\ i \in cur
    /\ kill' \in {kill, TRUE}
    /\ Idle
    /\ UNCHANGED <<todo, exitTrade, beyond, market, table>>

-----------------------------------------------------------------------------
\* The price moves.
PriceMoves ==
    /\ \E b \in Open : beyond' = IF b \in beyond THEN beyond \ {b} ELSE beyond \cup {b}
    /\ UNCHANGED <<monitor, shared>>

MonitorRestart ==
    /\ mpc' = "idle" /\ todo' = {} /\ cur' = {}
    /\ UNCHANGED <<exitTrade, beyond>>
=============================================================================
