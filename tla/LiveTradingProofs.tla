------------------------- MODULE LiveTradingProofs -------------------------
(***************************************************************************)
(* Proofs about LiveTrading, for any number of BUYs and SELLs, any lot     *)
(* step and any balance: at most one exit order per position, and no       *)
(* position closed without its coins being sold.                           *)
(***************************************************************************)
EXTENDS LiveTrading, TLAPS

PcStates == {"start"} \cup InFlight \cup Ended
HeldInt  == [pos : Buys, qty : Int]

\* The types of the variables the two theorems depend on.
Shapes ==
    /\ pc \in [Requests -> PcStates]
    /\ got \in [Requests -> Int]
    /\ ask \in [Requests -> Int]
    /\ held \in [Sells -> HeldInt \cup {None}]
    /\ oco \in [Buys -> {"none", "active", "filled", "cancelled"}]
    /\ exits \in [Buys -> Nat]
    /\ posStatus \in [Buys -> {"none", "OPEN", "CLOSED"}]
    /\ posQty \in [Buys -> Int]
    /\ exitTrade \in [Buys -> {"none", "SUBMITTED", "UNKNOWN", "FILLED", "OTHER"}]

\* Where a BUY's handler may be once an emergency flatten has been sent.
SoldOff == {"flattened", "freeze", "frozen", "raised", "crashed"}

\* A BUY that has a position is over; an exit order is its first and only one.
BuyInv ==
    \A b \in Buys :
        /\ posStatus[b] # "none" => pc[b] = "opened"
        /\ exitTrade[b] # "none" => posStatus[b] # "none"
        /\ pc[b] \notin SoldOff /\ exitTrade[b] = "none"
              => exits[b] = 0

\* What the monitor knows of the one position it is handling.
MonInv ==
    /\ \A i \in todo : i.pos \in Buys /\ posStatus[i.pos] # "none"
    /\ \A i, j \in cur : i = j
    /\ \A i \in cur :
          /\ i.pos \in Buys /\ posStatus[i.pos] # "none"
          /\ mpc = "sell" => exitTrade[i.pos] = "SUBMITTED" /\ exits[i.pos] = 0
          /\ mpc = "reconcile" => oco[i.pos] = "filled"
          /\ mpc = "close" => exitTrade[i.pos] = "FILLED"

\* What a SELL has read, and what it has sold at each point of its handler.
SellInv ==
    \A s \in Sells :
        /\ held[s] # None => held[s].qty >= 1 /\ posStatus[held[s].pos] # "none"
        /\ pc[s] \in {"ready", "cancel", "reduce", "close"} => held[s] # None
        /\ pc[s] \in {"start", "gated", "balanced", "ready"} => got[s] = 0
        /\ pc[s] = "balanced" => ask[s] >= 1
        /\ pc[s] = "close" => got[s] >= held[s].qty

IInv == Shapes /\ BuyInv /\ MonInv /\ SellInv /\ OneExitPerPosition /\ ClosedMeansSold

-----------------------------------------------------------------------------
LEMMA InitIInv == Init => IInv
  <1> SUFFICES ASSUME Init PROVE IInv
    OBVIOUS
  <1> USE DEF Init, SharedInit, RouteInit, MonitorInit
  <1>1. Shapes
    BY DEF Shapes, Requests, PcStates
  <1>2. BuyInv /\ OneExitPerPosition /\ ClosedMeansSold
    BY DEF BuyInv, OneExitPerPosition, ClosedMeansSold
  <1>3. MonInv /\ SellInv
    BY DEF MonInv, SellInv, Requests
  <1> QED
    BY <1>1, <1>2, <1>3 DEF IInv

LEMMA ExecutionDone ==
  ASSUME NEW q \in Int, NEW x \in Executions(q)
  PROVE  /\ x.done \in Int
         /\ x.status \in {"FILLED", "EXPIRED", "PARTIALLY_FILLED"}
  BY DEF Executions

LEMMA FloorStepInt ==
  ASSUME NEW q \in Int
  PROVE  FloorStep(q) \in Int
  BY QuantityAssumption DEF FloorStep

-----------------------------------------------------------------------------
(* Steps of a BUY before it has a position.                                *)

\* What every such step does at most: it moves its own handler, and its own
\* OCO or exit, of which the positions and the monitor know nothing yet.
BuyMoved(b) ==
    /\ pc' \in [Requests -> PcStates]
    /\ got' \in [Requests -> Int]
    /\ ask' \in [Requests -> Int]
    /\ oco' \in [Buys -> {"none", "active", "filled", "cancelled"}]
    /\ exits' \in [Buys -> Nat]
    /\ \A r \in Requests \ {b} : pc'[r] = pc[r] /\ got'[r] = got[r] /\ ask'[r] = ask[r]
    /\ \A c \in Buys \ {b} : oco'[c] = oco[c] /\ exits'[c] = exits[c]
    /\ pc[b] # "opened" /\ pc'[b] # "opened"
    /\ pc[b] \in SoldOff => pc'[b] \in SoldOff
    /\ exits'[b] = exits[b] \/ (exits'[b] = 1 /\ pc'[b] \in SoldOff)
    /\ UNCHANGED <<held, posStatus, posQty, exitTrade, mpc, todo, cur>>

LEMMA BuyMovedKeeps ==
  ASSUME IInv, NEW b \in Buys, BuyMoved(b)
  PROVE  IInv'
  <1> USE RequestAssumption DEF IInv, BuyMoved, Requests
  <1>1. b \notin Sells /\ posStatus[b] = "none" /\ exitTrade[b] = "none"
    BY DEF BuyInv, Shapes
  <1>2. Shapes'
    BY DEF Shapes
  <1>3. BuyInv'
    BY <1>1 DEF BuyInv, Shapes
  <1>4. MonInv'
    BY <1>1 DEF MonInv
  <1>5. SellInv'
    BY <1>1 DEF SellInv
  <1>6. OneExitPerPosition'
    BY DEF OneExitPerPosition
  <1>7. ClosedMeansSold'
    BY <1>1 DEF ClosedMeansSold
  <1> QED
    BY <1>2, <1>3, <1>4, <1>5, <1>6, <1>7

LEMMA BuyKeeps ==
  ASSUME IInv, NEW b \in Buys, BuyStep(b), UNCHANGED <<monitor, beyond, env>>
  PROVE  IInv'
  <1> USE DEF shared, market, table, monitor, Requests, PcStates, InFlight, Ended, SoldOff, Goto
  <1>0. Shapes
    BY DEF IInv
  <1>1. CASE Gate(b)
    <2>1. BuyMoved(b)
      BY <1>0, <1>1 DEF Gate, BuyMoved, Shapes
    <2> QED
      BY <2>1, BuyMovedKeeps
  <1>2. CASE Refuse(b)
    <2>1. BuyMoved(b)
      BY <1>0, <1>2 DEF Refuse, BuyMoved, Shapes
    <2> QED
      BY <2>1, BuyMovedKeeps
  <1>3. CASE BuySend(b)
    <2>1. PICK x \in Executions(BuyQty), heard \in BOOLEAN :
             /\ BuyMarket(b, x)
             /\ Goto(b, "gated", IF heard THEN AfterAnswer(x, "protect") ELSE "unknown")
             /\ got' = IF heard THEN [got EXCEPT ![b] = x.done] ELSE got
             /\ UNCHANGED <<ask, held, table, kill>>
      BY <1>3 DEF BuySend
    <2>2. /\ x.done \in Int
          /\ AfterAnswer(x, "protect") \in {"cancel", "protect", "returned"}
      BY ExecutionDone, QuantityAssumption DEF AfterAnswer
    <2>3. BuyMoved(b)
      BY <1>0, <2>1, <2>2 DEF BuyMarket, BuyMoved, Shapes
    <2> QED
      BY <2>3, BuyMovedKeeps
  <1>4. CASE BuySendFails(b)
    <2>1. BuyMoved(b)
      BY <1>0, <1>4 DEF BuySendFails, BuyMoved, Shapes
    <2> QED
      BY <2>1, BuyMovedKeeps
  <1>5. CASE CancelResidual(b, "protect")
    <2>1. BuyMoved(b)
      BY <1>0, <1>5 DEF CancelResidual, CancelRest, BuyMoved, Shapes
    <2> QED
      BY <2>1, BuyMovedKeeps
  <1>6. CASE CannotProtect(b)
    <2>1. BuyMoved(b)
      BY <1>0, <1>6 DEF CannotProtect, Flatten, BuyMoved, Shapes
    <2> QED
      BY <2>1, BuyMovedKeeps
  <1>7. CASE Protect(b)
    <2>1. ProtectQty(b) \in Int
      BY <1>0, FloorStepInt DEF ProtectQty, Shapes
    <2>2. BuyMoved(b)
      BY <1>0, <1>7, <2>1 DEF Protect, Flatten, PlaceOco, BuyMoved, Shapes
    <2> QED
      BY <2>2, BuyMovedKeeps
  <1>8. CASE OpenPosition(b)
    <2>1. ProtectQty(b) \in Int
      BY <1>0, FloorStepInt DEF ProtectQty, Shapes
    <2>2. /\ pc[b] = "opening" /\ pc' = [pc EXCEPT ![b] = "opened"]
          /\ posStatus' = [posStatus EXCEPT ![b] = "OPEN"]
          /\ posQty' = [posQty EXCEPT ![b] = ProtectQty(b)]
          /\ UNCHANGED <<got, ask, held, oco, exits, exitTrade, mpc, todo, cur>>
      BY <1>8 DEF OpenPosition, CreatePosition
    <2>3. b \notin Sells
      BY RequestAssumption
    <2>4. Shapes'
      BY <1>0, <2>1, <2>2 DEF Shapes
    <2>5. BuyInv' /\ OneExitPerPosition'
      BY <1>0, <2>2 DEF IInv, BuyInv, OneExitPerPosition, Shapes
    <2>6. MonInv'
      BY <1>0, <2>2 DEF IInv, MonInv, Shapes
    <2>7. SellInv'
      BY <1>0, <2>2, <2>3 DEF IInv, SellInv, Shapes, HeldInt
    <2>8. ClosedMeansSold'
      BY <1>0, <2>2 DEF IInv, ClosedMeansSold, Shapes
    <2> QED
      BY <2>4, <2>5, <2>6, <2>7, <2>8 DEF IInv
  <1>9. CASE FlattenSend(b)
    <2>1. exits[b] = 0
      BY <1>0, <1>9 DEF FlattenSend, IInv, BuyInv, Shapes
    <2>2. BuyMoved(b)
      BY <1>0, <1>9, <2>1 DEF FlattenSend, SellOff, BuyMoved, Shapes
    <2> QED
      BY <2>2, BuyMovedKeeps
  <1>10. CASE Freeze(b)
    <2>1. /\ pc[b] = "freeze" /\ pc' \in [Requests -> PcStates]
          /\ pc'[b] \in {"frozen", "raised"}
          /\ \A r \in Requests \ {b} : pc'[r] = pc[r]
      BY <1>0, <1>10 DEF Freeze, Shapes
    <2>2. BuyMoved(b)
      BY <1>0, <1>10, <2>1 DEF Freeze, BuyMoved, Shapes
    <2> QED
      BY <2>2, BuyMovedKeeps
  <1> QED
    BY <1>1, <1>2, <1>3, <1>4, <1>5, <1>6, <1>7, <1>8, <1>9, <1>10 DEF BuyStep

-----------------------------------------------------------------------------
(* Steps of a SELL that neither read a position, nor sell, nor close.      *)

SellMoved(s) ==
    /\ pc' \in [Requests -> PcStates]
    /\ ask' \in [Requests -> Int]
    /\ oco' \in [Buys -> {"none", "active", "filled", "cancelled"}]
    /\ posQty' \in [Buys -> Int]
    /\ \A r \in Requests \ {s} : pc'[r] = pc[r] /\ ask'[r] = ask[r]
    /\ \A b \in Buys : oco[b] = "filled" => oco'[b] = "filled"
    /\ pc'[s] \in {"ready", "cancel", "reduce", "close"} => held[s] # None
    /\ pc'[s] \in {"start", "gated", "balanced", "ready"} => got[s] = 0
    /\ pc'[s] = "balanced" => ask'[s] >= 1
    /\ pc'[s] = "close" => got[s] >= held[s].qty
    /\ UNCHANGED <<got, held, exits, posStatus, exitTrade, mpc, todo, cur>>

LEMMA SellMovedKeeps ==
  ASSUME IInv, NEW s \in Sells, SellMoved(s)
  PROVE  IInv'
  <1> USE RequestAssumption DEF IInv, SellMoved, Requests
  <1>1. s \notin Buys
    OBVIOUS
  <1>2. Shapes'
    BY DEF Shapes
  <1>3. BuyInv' /\ OneExitPerPosition'
    BY <1>1 DEF BuyInv, OneExitPerPosition
  <1>4. MonInv'
    BY DEF MonInv
  <1>5. SellInv'
    BY DEF SellInv
  <1>6. ClosedMeansSold'
    BY DEF ClosedMeansSold
  <1> QED
    BY <1>2, <1>3, <1>4, <1>5, <1>6

LEMMA SellKeeps ==
  ASSUME IInv, NEW s \in Sells, SellStep(s), UNCHANGED <<monitor, beyond, env>>
  PROVE  IInv'
  <1> USE DEF shared, market, table, monitor, Requests, PcStates, InFlight, Ended, HeldInt, Goto
  <1>0. Shapes /\ SellInv /\ s \notin Buys
    BY RequestAssumption DEF IInv
  <1>1. CASE Gate(s)
    <2>1. SellMoved(s)
      BY <1>0, <1>1 DEF Gate, SellMoved, Shapes, SellInv
    <2> QED
      BY <2>1, SellMovedKeeps
  <1>2. CASE Refuse(s)
    <2>1. SellMoved(s)
      BY <1>0, <1>2 DEF Refuse, SellMoved, Shapes, SellInv
    <2> QED
      BY <2>1, SellMovedKeeps
  <1>3. CASE SellBalance(s)
    <2>1. PICK q \in 1..BuyQty :
             /\ Goto(s, "gated", "balanced")
             /\ ask' = [ask EXCEPT ![s] = q]
             /\ UNCHANGED <<got, held, shared>>
      BY <1>3 DEF SellBalance
    <2>2. q \in Int /\ q >= 1
      BY QuantityAssumption
    <2>3. SellMoved(s)
      BY <1>0, <2>1, <2>2 DEF SellMoved, Shapes, SellInv
    <2> QED
      BY <2>3, SellMovedKeeps
  <1>4. CASE SellRead(s)
    <2>1. PICK p \in Buys :
             /\ posStatus[p] = "OPEN"
             /\ ask[s] <= posQty[p]
             /\ Goto(s, "balanced", "ready")
             /\ held' = [held EXCEPT ![s] = [pos |-> p, qty |-> posQty[p]]]
             /\ UNCHANGED <<got, ask, shared>>
      BY <1>4 DEF SellRead, OldestOpen, Open
    <2>2. ask[s] >= 1 /\ got[s] = 0 /\ posQty[p] \in Int /\ posQty[p] >= 1
      BY <1>0, <2>1 DEF Shapes, SellInv
    <2>3. [pos |-> p, qty |-> posQty[p]] \in HeldInt
      BY <2>2
    <2>4. /\ held'[s] = [pos |-> p, qty |-> posQty[p]] /\ held'[s] # None
          /\ \A t \in Sells \ {s} : held'[t] = held[t]
          /\ pc'[s] = "ready" /\ \A r \in Requests \ {s} : pc'[r] = pc[r]
          /\ UNCHANGED <<got, ask, oco, exits, posStatus, posQty, exitTrade, mpc, todo, cur>>
      BY <1>0, <2>1, <2>3, NoneAssumption DEF Shapes
    <2>5. Shapes'
      BY <1>0, <2>1, <2>3 DEF Shapes
    <2>6. BuyInv' /\ OneExitPerPosition'
      BY <1>0, <2>4 DEF IInv, BuyInv, OneExitPerPosition
    <2>7. MonInv'
      BY <2>4 DEF IInv, MonInv
    <2>8. SellInv'
      <3>1. /\ held'[s].qty = posQty[p] /\ held'[s].pos = p
            /\ posStatus'[p] # "none" /\ got'[s] = 0
        BY <2>1, <2>2, <2>4
      <3> QED
        BY <1>0, <2>2, <2>4, <3>1 DEF SellInv
    <2>9. ClosedMeansSold'
      <3>1. \A t \in Sells : held[t] # None /\ got[t] >= held[t].qty => held'[t] = held[t]
        BY <1>0, <2>1, <2>2, <2>4 DEF SellInv, Shapes
      <3> QED
        BY <2>4, <3>1 DEF IInv, ClosedMeansSold
    <2> QED
      BY <2>5, <2>6, <2>7, <2>8, <2>9 DEF IInv
  <1>5. CASE SellSend(s)
    <2>1. PICK x \in Executions(ask[s]), heard \in BOOLEAN :
             /\ SellMarket(s, ask[s], x)
             /\ Goto(s, "ready", IF heard THEN AfterAnswer(x, "reduce") ELSE "unknown")
             /\ got' = IF heard THEN [got EXCEPT ![s] = x.done] ELSE got
             /\ UNCHANGED <<ask, held, table, kill>>
      BY <1>5 DEF SellSend
    <2>2. /\ x.done \in Int
          /\ AfterAnswer(x, "reduce") \in {"cancel", "reduce", "returned"}
      BY <1>0, ExecutionDone DEF AfterAnswer, Shapes
    <2>3. /\ pc[s] = "ready" /\ pc'[s] \in {"cancel", "reduce", "returned", "unknown"}
          /\ \A r \in Requests \ {s} : pc'[r] = pc[r] /\ got'[r] = got[r]
          /\ UNCHANGED <<ask, held, oco, exits, posStatus, posQty, exitTrade, mpc, todo, cur>>
      BY <1>0, <2>1, <2>2 DEF SellMarket, Shapes
    <2>4. Shapes'
      BY <1>0, <2>1, <2>2 DEF SellMarket, Shapes
    <2>5. BuyInv' /\ OneExitPerPosition'
      BY <1>0, <2>3 DEF IInv, BuyInv, OneExitPerPosition
    <2>6. MonInv'
      BY <2>3 DEF IInv, MonInv
    <2>7. SellInv'
      BY <1>0, <2>3 DEF SellInv
    <2>8. ClosedMeansSold'
      <3>1. \A t \in Sells : held[t] # None /\ got[t] >= held[t].qty => got'[t] = got[t]
        BY <1>0, <2>3 DEF SellInv, Shapes
      <3> QED
        BY <2>3, <3>1 DEF IInv, ClosedMeansSold
    <2> QED
      BY <2>4, <2>5, <2>6, <2>7, <2>8 DEF IInv
  <1>6. CASE SellSendFails(s)
    <2>1. SellMoved(s)
      BY <1>0, <1>6 DEF SellSendFails, SellMoved, Shapes, SellInv
    <2> QED
      BY <2>1, SellMovedKeeps
  <1>7. CASE CancelResidual(s, "reduce")
    <2>1. SellMoved(s)
      BY <1>0, <1>7 DEF CancelResidual, CancelRest, SellMoved, Shapes, SellInv
    <2> QED
      BY <2>1, SellMovedKeeps
  <1>8. CASE ReducePosition(s)
    <2>1. held[s] \in HeldInt /\ held[s].qty - got[s] \in Int
      BY <1>0, <1>8 DEF ReducePosition, Shapes, SellInv
    <2>2. SellMoved(s)
      BY <1>0, <1>8, <2>1 DEF ReducePosition, SellMoved, Shapes, SellInv
    <2> QED
      BY <2>2, SellMovedKeeps
  <1>9. CASE SellUnprotect(s)
    <2>1. SellMoved(s)
      BY <1>0, <1>9 DEF SellUnprotect, SoldOut, CancelOco, SellMoved, Shapes, SellInv
    <2> QED
      BY <2>1, SellMovedKeeps
  <1>10. CASE SellClose(s)
    <2>1. /\ held[s] \in HeldInt /\ held[s] # None
          /\ got[s] >= held[s].qty /\ posStatus[held[s].pos] # "none"
      BY <1>0, <1>10 DEF SellClose, Shapes, SellInv
    <2>2. /\ pc' = [pc EXCEPT ![s] = "returned"]
          /\ posStatus' = [posStatus EXCEPT ![held[s].pos] = "CLOSED"]
          /\ UNCHANGED <<got, ask, held, oco, exits, posQty, exitTrade, mpc, todo, cur>>
      BY <1>10 DEF SellClose, ClosePosition
    <2>3. Shapes'
      BY <1>0, <2>2 DEF Shapes
    <2>4. \A b \in Buys : posStatus'[b] = "none" <=> posStatus[b] = "none"
      BY <1>0, <2>1, <2>2 DEF Shapes
    <2>5. BuyInv' /\ OneExitPerPosition'
      BY <1>0, <2>2, <2>4 DEF IInv, BuyInv, OneExitPerPosition, Shapes
    <2>6. MonInv'
      BY <2>2, <2>4 DEF IInv, MonInv
    <2>7. SellInv'
      BY <1>0, <2>2, <2>4 DEF SellInv, Shapes
    <2>8. ClosedMeansSold'
      BY <1>0, <2>1, <2>2 DEF IInv, ClosedMeansSold, Shapes
    <2> QED
      BY <2>3, <2>5, <2>6, <2>7, <2>8 DEF IInv
  <1> QED
    BY <1>1, <1>2, <1>3, <1>4, <1>5, <1>6, <1>7, <1>8, <1>9, <1>10 DEF SellStep

-----------------------------------------------------------------------------
(* Steps of the monitor.                                                   *)

\* A step that leaves the positions, exits and OCOs filled so far alone.
MonMoved ==
    /\ oco' \in [Buys -> {"none", "active", "filled", "cancelled"}]
    /\ \A b \in Buys : oco[b] = "filled" => oco'[b] = "filled"
    /\ UNCHANGED <<pc, got, ask, held, exits, posStatus, posQty, exitTrade>>

LEMMA MonMovedKeeps ==
  ASSUME IInv, MonMoved, MonInv'
  PROVE  IInv'
  <1> USE DEF IInv, MonMoved
  <1>1. Shapes' /\ BuyInv' /\ OneExitPerPosition'
    BY DEF Shapes, BuyInv, OneExitPerPosition
  <1>2. SellInv'
    BY DEF SellInv
  <1>3. ClosedMeansSold'
    BY DEF ClosedMeansSold
  <1> QED
    BY <1>1, <1>2, <1>3

LEMMA MonitorKeeps ==
  ASSUME IInv, MonitorStep, UNCHANGED <<route, env>>
  PROVE  IInv'
  <1> USE DEF shared, market, table, route
  <1>0. Shapes /\ MonInv /\ BuyInv
    BY DEF IInv
  <1>1. CASE MonSelect
    <2>1. MonMoved
      BY <1>0, <1>1 DEF MonSelect, MonMoved, Shapes
    <2>2. MonInv'
      BY <1>0, <1>1 DEF MonSelect, MonInv, Idle, Open
    <2> QED
      BY <2>1, <2>2, MonMovedKeeps
  <1>2. CASE MonTickEnds
    <2>1. MonMoved
      BY <1>0, <1>2 DEF MonTickEnds, MonMoved, Shapes
    <2>2. MonInv'
      BY <1>0, <1>2 DEF MonTickEnds, MonInv
    <2> QED
      BY <2>1, <2>2, MonMovedKeeps
  <1>3. ASSUME NEW i \in todo, MonSkip(i)
        PROVE  IInv'
    <2>1. MonMoved
      BY <1>0, <1>3 DEF MonSkip, MonMoved, Shapes
    <2>2. MonInv'
      BY <1>0, <1>3 DEF MonSkip, MonInv
    <2> QED
      BY <2>1, <2>2, MonMovedKeeps
  <1>4. ASSUME NEW i \in todo, MonRead(i)
        PROVE  IInv'
    <2>1. MonMoved
      BY <1>0, <1>4 DEF MonRead, MonMoved, Shapes
    <2>2. MonInv'
      BY <1>0, <1>4 DEF MonRead, MonInv
    <2> QED
      BY <2>1, <2>2, MonMovedKeeps
  <1>5. ASSUME NEW i \in cur, MonClose(i)
        PROVE  IInv'
    <2>1. /\ i.pos \in Buys /\ posStatus[i.pos] # "none"
          /\ oco[i.pos] = "filled" \/ exitTrade[i.pos] = "FILLED"
      BY <1>0, <1>5 DEF MonClose, MonInv
    <2>2. /\ posStatus' = [posStatus EXCEPT ![i.pos] = "CLOSED"]
          /\ mpc' = "each" /\ cur' = {}
          /\ UNCHANGED <<pc, got, ask, held, oco, exits, posQty, exitTrade, todo>>
      BY <1>5 DEF MonClose, ClosePosition, Idle
    <2>3. \A b \in Buys : posStatus'[b] = "none" <=> posStatus[b] = "none"
      BY <1>0, <2>1, <2>2 DEF Shapes
    <2>4. Shapes'
      BY <1>0, <2>2 DEF Shapes
    <2>5. BuyInv' /\ OneExitPerPosition'
      BY <2>2, <2>3 DEF IInv, BuyInv, OneExitPerPosition
    <2>6. MonInv'
      BY <1>0, <2>2, <2>3 DEF MonInv
    <2>7. SellInv'
      BY <1>0, <2>2, <2>3 DEF IInv, SellInv, Shapes, HeldInt
    <2>8. ClosedMeansSold'
      BY <1>0, <2>1, <2>2 DEF IInv, ClosedMeansSold, Shapes
    <2> QED
      BY <2>4, <2>5, <2>6, <2>7, <2>8 DEF IInv
  <1>6. ASSUME NEW i \in cur, MonUnprotect(i, ProtectQty(i.pos))
        PROVE  IInv'
    <2>1. i.pos \in Buys
      BY <1>0 DEF MonInv
    <2>2. MonMoved
      BY <1>0, <1>6, <2>1 DEF MonUnprotect, CancelOco, MonMoved, Shapes
    <2>3. MonInv'
      BY <1>0, <1>6 DEF MonUnprotect, MonInv
    <2> QED
      BY <2>2, <2>3, MonMovedKeeps
  <1>7. ASSUME NEW i \in cur, MonFile(i)
        PROVE  IInv'
    <2>1. i.pos \in Buys /\ posStatus[i.pos] # "none"
      BY <1>0 DEF MonInv
    <2>2. CASE exitTrade[i.pos] # "none"
      <3>1. MonMoved
        BY <1>0, <1>7, <2>2 DEF MonFile, MonMoved, Shapes
      <3>2. MonInv'
        BY <1>0, <1>7, <2>2 DEF MonFile, Idle, MonInv
      <3> QED
        BY <3>1, <3>2, MonMovedKeeps
    <2>3. CASE exitTrade[i.pos] = "none"
      <3>1. /\ exitTrade' = [exitTrade EXCEPT ![i.pos] = "SUBMITTED"]
            /\ mpc' = "sell"
            /\ UNCHANGED <<pc, got, ask, held, oco, exits, posStatus, posQty, todo, cur>>
        BY <1>7, <2>3 DEF MonFile
      <3>2. pc[i.pos] = "opened" /\ exits[i.pos] = 0
        BY <1>0, <2>1, <2>3 DEF BuyInv, SoldOff
      <3>3. Shapes'
        BY <1>0, <3>1 DEF Shapes
      <3>4. BuyInv' /\ OneExitPerPosition'
        BY <1>0, <2>1, <3>1 DEF IInv, BuyInv, OneExitPerPosition, Shapes
      <3>5. MonInv'
        BY <1>0, <2>1, <3>1, <3>2 DEF MonInv, Shapes
      <3>6. SellInv'
        BY <3>1 DEF IInv, SellInv
      <3>7. ClosedMeansSold'
        BY <1>0, <2>1, <2>3, <3>1 DEF IInv, ClosedMeansSold, Shapes
      <3> QED
        BY <3>3, <3>4, <3>5, <3>6, <3>7 DEF IInv
    <2> QED
      BY <2>2, <2>3
  <1>8. ASSUME NEW i \in cur, MonSell(i)
        PROVE  IInv'
    <2>1. /\ i.pos \in Buys /\ posStatus[i.pos] # "none"
          /\ exits[i.pos] = 0 /\ exitTrade[i.pos] = "SUBMITTED"
      BY <1>0, <1>8 DEF MonSell, MonInv
    <2>2. PICK x \in {"FILLED", "OTHER", "UNKNOWN"} :
             /\ exits' = [exits EXCEPT ![i.pos] = @ + 1]
             /\ exitTrade' = [exitTrade EXCEPT ![i.pos] = x]
             /\ mpc' \in {"close", "each", "freeze"}
             /\ mpc' = "close" => x = "FILLED"
             /\ cur' = cur \/ cur' = {}
             /\ UNCHANGED <<pc, got, ask, held, oco, posStatus, posQty, todo>>
      BY <1>8 DEF MonSell, SellOff, Idle
    <2>3. /\ exits'[i.pos] = 1 /\ exitTrade'[i.pos] = x
          /\ \A b \in Buys \ {i.pos} : exits'[b] = exits[b] /\ exitTrade'[b] = exitTrade[b]
      BY <1>0, <2>1, <2>2 DEF Shapes
    <2>4. Shapes'
      BY <1>0, <2>1, <2>2 DEF Shapes
    <2>5. BuyInv'
      BY <1>0, <2>1, <2>2, <2>3 DEF BuyInv
    <2>6. OneExitPerPosition'
      BY <2>3 DEF IInv, OneExitPerPosition
    <2>7. MonInv'
      BY <1>0, <2>2, <2>3 DEF MonInv
    <2>8. SellInv'
      BY <2>2 DEF IInv, SellInv
    <2>9. ClosedMeansSold'
      BY <2>1, <2>2, <2>3 DEF IInv, ClosedMeansSold
    <2> QED
      BY <2>4, <2>5, <2>6, <2>7, <2>8, <2>9 DEF IInv
  <1>9. ASSUME NEW i \in cur, MonSellFails(i)
        PROVE  IInv'
    <2>1. /\ i.pos \in Buys /\ posStatus[i.pos] # "none"
          /\ exitTrade[i.pos] = "SUBMITTED"
      BY <1>0, <1>9 DEF MonSellFails, MonInv
    <2>2. /\ exitTrade' = [exitTrade EXCEPT ![i.pos] = "UNKNOWN"]
          /\ mpc' = "freeze"
          /\ UNCHANGED <<pc, got, ask, held, oco, exits, posStatus, posQty, todo, cur>>
      BY <1>9 DEF MonSellFails
    <2>3. /\ exitTrade'[i.pos] = "UNKNOWN"
          /\ \A b \in Buys \ {i.pos} : exitTrade'[b] = exitTrade[b]
      BY <1>0, <2>1, <2>2 DEF Shapes
    <2>4. Shapes'
      BY <1>0, <2>2 DEF Shapes
    <2>5. BuyInv' /\ OneExitPerPosition'
      BY <1>0, <2>1, <2>2, <2>3 DEF IInv, BuyInv, OneExitPerPosition
    <2>6. MonInv'
      BY <1>0, <2>2 DEF MonInv
    <2>7. SellInv'
      BY <2>2 DEF IInv, SellInv
    <2>8. ClosedMeansSold'
      BY <2>1, <2>2, <2>3 DEF IInv, ClosedMeansSold
    <2> QED
      BY <2>4, <2>5, <2>6, <2>7, <2>8 DEF IInv
  <1>10. ASSUME NEW i \in cur, MonFreeze(i)
         PROVE  IInv'
    <2>1. MonMoved
      BY <1>0, <1>10 DEF MonFreeze, MonMoved, Shapes
    <2>2. MonInv'
      BY <1>0, <1>10 DEF MonFreeze, Idle, MonInv
    <2> QED
      BY <2>1, <2>2, MonMovedKeeps
  <1> QED
    BY <1>1, <1>2, <1>3, <1>4, <1>5, <1>6, <1>7, <1>8, <1>9, <1>10 DEF MonitorStep

-----------------------------------------------------------------------------
(* Steps of the exchange, the market, the user and the process.            *)

LEMMA OthersKeep ==
  ASSUME IInv,
         \/ ExchangeNext \/ (PriceMoves /\ UNCHANGED <<route, env>>)
         \/ SetKillSwitch \/ Restart \/ UNCHANGED vars
  PROVE  IInv'
  <1> USE DEF shared, market, table, route, monitor, vars
  <1>0. Shapes /\ MonInv
    BY DEF IInv
  <1>1. CASE ExchangeNext
    <2>1. MonMoved /\ UNCHANGED <<mpc, todo, cur>>
      BY <1>0, <1>1 DEF ExchangeNext, ExchangeStep, RestFills, OcoFills, MonMoved, Shapes
    <2>2. MonInv'
      BY <1>0, <2>1 DEF MonInv, MonMoved
    <2> QED
      BY <2>1, <2>2, MonMovedKeeps
  <1>2. CASE \/ (PriceMoves /\ UNCHANGED <<route, env>>)
             \/ SetKillSwitch \/ UNCHANGED vars
    <2>1. MonMoved /\ UNCHANGED <<mpc, todo, cur>>
      BY <1>0, <1>2 DEF PriceMoves, SetKillSwitch, MonMoved, Shapes
    <2>2. MonInv'
      BY <1>0, <2>1 DEF MonInv, MonMoved
    <2> QED
      BY <2>1, <2>2, MonMovedKeeps
  <1>3. CASE Restart
    <2>1. /\ pc' = [r \in Requests |-> IF pc[r] \in InFlight THEN "crashed" ELSE pc[r]]
          /\ todo' = {} /\ cur' = {}
          /\ UNCHANGED <<got, ask, held, oco, exits, posStatus, posQty, exitTrade>>
      BY <1>3 DEF Restart, RouteRestart, MonitorRestart
    <2>2. \A r \in Requests : pc'[r] = pc[r] \/ (pc[r] \in InFlight /\ pc'[r] = "crashed")
      BY <2>1
    <2>3. pc' \in [Requests -> PcStates]
      BY <1>0, <2>1 DEF Shapes, PcStates, Ended
    <2>4. Shapes'
      BY <1>0, <2>1, <2>3 DEF Shapes
    <2>5. BuyInv' /\ OneExitPerPosition'
      BY <2>1, <2>2 DEF IInv, BuyInv, OneExitPerPosition, SoldOff, InFlight, Requests
    <2>6. MonInv'
      BY <2>1 DEF MonInv
    <2>7. SellInv'
      BY <2>1, <2>2 DEF IInv, SellInv, Requests
    <2>8. ClosedMeansSold'
      BY <2>1 DEF IInv, ClosedMeansSold
    <2> QED
      BY <2>4, <2>5, <2>6, <2>7, <2>8 DEF IInv
  <1> QED
    BY <1>1, <1>2, <1>3

LEMMA NextIInv ==
  ASSUME IInv, [Next]_vars
  PROVE  IInv'
  <1>1. CASE RouteNext
    BY <1>1, BuyKeeps, SellKeeps DEF RouteNext
  <1>2. CASE MonitorNext
    BY <1>2, MonitorKeeps DEF MonitorNext
  <1>3. CASE \/ ExchangeNext \/ (PriceMoves /\ UNCHANGED <<route, env>>)
             \/ SetKillSwitch \/ Restart \/ UNCHANGED vars
    BY <1>3, OthersKeep
  <1> QED
    BY <1>1, <1>2, <1>3 DEF Next

-----------------------------------------------------------------------------
\* The inductive invariant holds in every reachable state.
THEOREM Inductive == Spec => []IInv
  BY InitIInv, NextIInv, PTL DEF Spec

\* However ticks, retries and restarts of the monitor and failures of the
\* route interleave, at most one order is placed to sell a BUY off: a BUY the
\* route flattens never has a position, and the row of the monitor's exit is
\* claimed for good.
THEOREM OneExit == Spec => []OneExitPerPosition
  <1>1. IInv => OneExitPerPosition
    BY DEF IInv
  <1> QED
    BY <1>1, Inductive, PTL

\* A position is CLOSED only when its OCO executed, its exit was filled, or
\* one SELL sold what the position held when that SELL read it.
THEOREM ClosedIsSold == Spec => []ClosedMeansSold
  <1>1. IInv => ClosedMeansSold
    BY DEF IInv
  <1> QED
    BY <1>1, Inductive, PTL
=============================================================================
