-------------------------- MODULE LiveSafetyProofs --------------------------
(***************************************************************************)
(* More about LiveTrading, from the invariant of LiveTradingProofs: types  *)
(* (no balance goes negative), what the table tracks was bought and stood  *)
(* behind an OCO, and one BUY's position is not closed over an OCO that    *)
(* still holds all its handler knew of.                                    *)
(***************************************************************************)
EXTENDS LiveTradingProofs, FiniteSetTheorems

\* An order never executes more than was asked for; a handler never believes
\* in more than was executed; a SELL reads no more than was bought.
BoughtInv ==
    /\ \A r \in Requests : filled[r] + rest[r] <= BuyQty
    /\ \A b \in Buys :
          /\ got[b] <= filled[b]
          /\ pc[b] \in {"start", "gated"} => got[b] = 0
          /\ pc[b] = "opening" => oco[b] # "none"
    /\ \A s \in Sells : held[s] # None => held[s].qty <= FloorStep(filled[held[s].pos])
    /\ TrackedIsProtected

JInv == TypeOK /\ BoughtInv

-----------------------------------------------------------------------------
(* Quantities.                                                             *)

LEMMA FloorBound ==
  ASSUME NEW q \in Nat
  PROVE  FloorStep(q) \in Nat /\ FloorStep(q) <= q
  <1>1. Step \in Nat /\ Step > 0
    BY QuantityAssumption
  <1>2. q \div Step \in Nat
    BY <1>1
  <1>3. (q \div Step) * Step \in Nat
    BY <1>1, <1>2
  <1>4. (q \div Step) * Step <= q
    BY <1>1
  <1> QED
    BY <1>3, <1>4 DEF FloorStep

LEMMA FloorGrows ==
  ASSUME NEW p \in Nat, NEW q \in Nat, p <= q
  PROVE  FloorStep(p) <= FloorStep(q)
  <1>1. Step \in Nat /\ Step > 0
    BY QuantityAssumption
  <1>2. p \div Step \in Nat /\ q \div Step \in Nat /\ p \div Step <= q \div Step
    BY <1>1
  <1>3. \A a, b \in Nat : a <= b => a * Step <= b * Step
    BY <1>1
  <1> QED
    BY <1>2, <1>3 DEF FloorStep

LEMMA ExecutionBound ==
  ASSUME NEW q \in Qty, NEW x \in Executions(q)
  PROVE  /\ x.done \in Nat /\ x.rest \in Nat /\ x.done + x.rest <= q
         /\ x.done \in Qty /\ x.rest \in Qty
         /\ x.status \in {"FILLED", "EXPIRED", "PARTIALLY_FILLED"}
  <1>1. q \in Nat /\ q <= BuyQty /\ BuyQty \in Nat
    BY QuantityAssumption DEF Qty
  <1> QED
    BY <1>1 DEF Executions, Qty

LEMMA QtyIsNat == Qty \subseteq Nat /\ \A q \in Nat : q <= BuyQty => q \in Qty
  BY QuantityAssumption DEF Qty

LEMMA FloorIsQty == ASSUME NEW q \in Qty PROVE FloorStep(q) \in Qty
  BY QtyIsNat, FloorBound, QuantityAssumption DEF Qty

\* The age of a new position: it is not among those counted.
LEMMA AgeBound ==
  ASSUME NEW b \in Buys, posStatus[b] = "none"
  PROVE  1 + Cardinality({c \in Buys : posStatus[c] # "none"}) \in 0..Cardinality(Buys)
  <1> DEFINE S == {c \in Buys : posStatus[c] # "none"}
  <1>1. IsFiniteSet(Buys) /\ S \subseteq Buys /\ S # Buys
    BY RequestAssumption
  <1>2. IsFiniteSet(S) /\ Cardinality(S) \in Nat /\ Cardinality(Buys) \in Nat
    BY <1>1, FS_Subset, FS_CardinalityType
  <1>3. Cardinality(S) < Cardinality(Buys)
    <2>1. S \in SUBSET Buys
      BY <1>1
    <2>2. Cardinality(S) <= Cardinality(Buys) /\ (Cardinality(Buys) = Cardinality(S) => Buys = S)
      BY <1>1, <2>1, FS_Subset, Zenon
    <2> QED
      BY <1>1, <1>2, <2>2
  <1> QED
    BY <1>2, <1>3

LEMMA InitJInv == Init => JInv
  <1> SUFFICES ASSUME Init PROVE JInv
    OBVIOUS
  <1> USE DEF Init, SharedInit, RouteInit, MonitorInit
  <1>1. 0 \in Qty /\ Cardinality(Buys) \in Nat
    BY QtyIsNat, QuantityAssumption, RequestAssumption, FS_CardinalityType DEF Qty
  <1>2. SharedTypeOK
    <2>1. 0 \in 0..Cardinality(Buys)
      BY <1>1
    <2>2. posAge \in [Buys -> 0..Cardinality(Buys)]
      BY <2>1
    <2> QED
      BY <1>1, <2>2, QuantityAssumption DEF SharedTypeOK, Requests
  <1>3. RouteTypeOK /\ MonitorTypeOK
    BY <1>1 DEF RouteTypeOK, MonitorTypeOK, Requests
  <1>4. TypeOK
    BY <1>2, <1>3, BoundsAssumption DEF TypeOK
  <1>5. BoughtInv
    BY QuantityAssumption DEF BoughtInv, TrackedIsProtected, Requests
  <1> QED
    BY <1>4, <1>5 DEF JInv

-----------------------------------------------------------------------------
(* What a step of one request leaves of BoughtInv to show.                 *)

LEMMA BuyBought ==
  ASSUME IInv, JInv, NEW b \in Buys, posStatus[b] = "none",
         UNCHANGED <<held, posStatus, posQty>>,
         \A r \in Requests \ {b} : /\ filled'[r] = filled[r] /\ rest'[r] = rest[r]
                                   /\ got'[r] = got[r] /\ pc'[r] = pc[r],
         \A c \in Buys \ {b} : oco'[c] = oco[c],
         filled'[b] + rest'[b] <= BuyQty, got'[b] <= filled'[b],
         pc'[b] \in {"start", "gated"} => got'[b] = 0,
         pc'[b] = "opening" => oco'[b] # "none"
  PROVE  BoughtInv'
  <1> USE DEF JInv, BoughtInv, Requests
  <1>1. \A s \in Sells : held[s] # None => held[s].pos \in Buys \ {b}
    BY DEF IInv, SellInv, Shapes, HeldInt
  <1>2. \A s \in Sells : held'[s] # None => held'[s].qty <= FloorStep(filled'[held'[s].pos])
    BY <1>1
  <1>3. TrackedIsProtected'
    BY DEF TrackedIsProtected
  <1> QED
    BY <1>2, <1>3

LEMMA SellBought ==
  ASSUME IInv, JInv, NEW s \in Sells,
         \A r \in Requests \ {s} : /\ filled'[r] = filled[r] /\ rest'[r] = rest[r]
                                   /\ got'[r] = got[r] /\ pc'[r] = pc[r],
         \A c \in Buys : oco[c] # "none" => oco'[c] # "none",
         \A c \in Buys : posStatus[c] = "none" => posStatus'[c] = "none",
         filled'[s] + rest'[s] <= BuyQty,
         \A c \in Buys : posStatus[c] # "none" => posQty'[c] <= FloorStep(filled[c]),
         \A t \in Sells : held'[t] # None =>
            held'[t].pos \in Buys /\ held'[t].qty <= FloorStep(filled[held'[t].pos])
  PROVE  BoughtInv'
  <1> USE RequestAssumption DEF JInv, BoughtInv, Requests
  <1>1. \A c \in Buys : filled'[c] = filled[c] /\ got'[c] = got[c] /\ pc'[c] = pc[c]
    OBVIOUS
  <1>2. TrackedIsProtected'
    BY <1>1 DEF TrackedIsProtected
  <1> QED
    BY <1>1, <1>2

LEMMA QuietBought ==
  ASSUME IInv, JInv, TypeOK', UNCHANGED <<pc, got, held, posQty>>,
         \A r \in Requests : filled[r] <= filled'[r] /\ filled'[r] + rest'[r] <= BuyQty,
         \A c \in Buys : oco[c] # "none" => oco'[c] # "none",
         \A c \in Buys : posStatus[c] = "none" => posStatus'[c] = "none"
  PROVE  BoughtInv'
  <1> USE DEF JInv, BoughtInv
  <1>1. \A r \in Requests : filled[r] \in Nat /\ filled'[r] \in Nat
    BY QtyIsNat DEF TypeOK, SharedTypeOK
  <1>2. \A c \in Buys : /\ FloorStep(filled[c]) <= FloorStep(filled'[c])
                        /\ FloorStep(filled[c]) \in Nat /\ FloorStep(filled'[c]) \in Nat
    BY <1>1, FloorGrows, FloorBound DEF Requests
  <1>3. TrackedIsProtected'
    <2>1. \A c \in Buys : posQty[c] \in Nat
      BY QtyIsNat DEF TypeOK, SharedTypeOK
    <2> QED
      BY <1>2, <2>1 DEF TrackedIsProtected
  <1>4. \A c \in Buys : got'[c] <= filled'[c]
    <2>1. \A c \in Buys : got[c] \in Nat /\ c \in Requests
      BY QtyIsNat DEF TypeOK, RouteTypeOK, Requests
    <2> QED
      BY <1>1, <2>1
  <1>5. \A s \in Sells : held'[s] # None => held'[s].qty <= FloorStep(filled'[held'[s].pos])
    <2>1. \A s \in Sells : held[s] # None => held[s].pos \in Buys /\ held[s].qty \in Nat
      BY QtyIsNat DEF TypeOK, RouteTypeOK, Held
    <2> QED
      BY <1>2, <2>1
  <1> QED
    BY <1>3, <1>4, <1>5

-----------------------------------------------------------------------------
(* Steps of a BUY.                                                         *)

LEMMA MonitorTypes ==
  ASSUME TypeOK, UNCHANGED <<monitor, beyond, env>>
  PROVE  MonitorTypeOK' /\ restarts' \in 0..MaxRestarts /\ switches' \in 0..MaxSwitches
  BY DEF TypeOK, MonitorTypeOK, monitor, env

LEMMA BuyTypes ==
  ASSUME IInv, JInv, NEW b \in Buys, BuyStep(b), UNCHANGED <<monitor, beyond, env>>
  PROVE  TypeOK' /\ BoughtInv'
  <1> USE DEF shared, market, table, Goto
  <1>0. /\ SharedTypeOK /\ RouteTypeOK /\ BoughtInv /\ b \in Requests /\ b \notin Sells
        /\ filled[b] \in Nat /\ rest[b] \in Nat /\ got[b] \in Nat /\ got[b] \in Qty
        /\ rest[b] \in Qty /\ free \in Nat /\ BuyQty \in Qty
        /\ filled[b] + rest[b] <= BuyQty /\ got[b] <= filled[b]
    BY QtyIsNat, RequestAssumption, QuantityAssumption
       DEF JInv, TypeOK, SharedTypeOK, RouteTypeOK, BoughtInv, Requests, Qty
  <1>p. /\ pc' \in [Requests -> {"start"} \cup InFlight \cup Ended]
    <2>1. IInv'
      BY BuyKeeps
    <2> QED
      BY <2>1 DEF IInv, Shapes, PcStates
  <1>t. ASSUME SharedTypeOK', RouteTypeOK' PROVE TypeOK'
    BY <1>t, MonitorTypes DEF JInv, TypeOK
  <1>n. pc[b] # "opened" => posStatus[b] = "none"
    BY DEF IInv, BuyInv
  <1>q. ProtectQty(b) \in Qty /\ ProtectQty(b) \in Nat /\ ProtectQty(b) = FloorStep(got[b])
    BY <1>0, FloorIsQty, FloorBound DEF ProtectQty
  <1>1. CASE Gate(b) \/ Refuse(b) \/ BuySendFails(b) \/ CannotProtect(b)
    <2>1. /\ UNCHANGED <<got, held, free, filled, rest, oco, exits, exitSold, posStatus, posQty, posAge, kill>>
          /\ ask' = ask \/ ask' = [ask EXCEPT ![b] = got[b]]
          /\ pc[b] # "opened" /\ pc'[b] # "opening"
          /\ pc'[b] \in {"start", "gated"} => pc[b] \in {"start", "gated"}
          /\ \A r \in Requests \ {b} : pc'[r] = pc[r]
      BY <1>0, <1>1 DEF Gate, Refuse, BuySendFails, CannotProtect, Flatten, RouteTypeOK
    <2>2. SharedTypeOK' /\ RouteTypeOK'
      BY <1>0, <1>p, <2>1 DEF SharedTypeOK, RouteTypeOK
    <2>3. got[b] = 0 \/ pc[b] \notin {"start", "gated"}
      BY <1>0 DEF BoughtInv
    <2>4. BoughtInv'
      BY <1>0, <1>n, <2>1, <2>3, BuyBought
    <2> QED
      BY <1>t, <2>2, <2>4
  <1>2. CASE BuySend(b)
    <2>1. PICK x \in Executions(BuyQty), heard \in BOOLEAN :
             /\ BuyMarket(b, x)
             /\ Goto(b, "gated", IF heard THEN AfterAnswer(x, "protect") ELSE "unknown")
             /\ got' = IF heard THEN [got EXCEPT ![b] = x.done] ELSE got
             /\ UNCHANGED <<ask, held, table, kill>>
      BY <1>2 DEF BuySend
    <2>2. /\ x.done \in Nat /\ x.rest \in Nat /\ x.done + x.rest <= BuyQty
          /\ x.done \in Qty /\ x.rest \in Qty
          /\ AfterAnswer(x, "protect") \in {"cancel", "protect", "returned"}
      BY <1>0, ExecutionBound DEF AfterAnswer
    <2>3. /\ free' = free + x.done /\ filled' = [filled EXCEPT ![b] = x.done]
          /\ rest' = [rest EXCEPT ![b] = x.rest]
          /\ UNCHANGED <<ask, held, oco, exits, exitSold, posStatus, posQty, posAge, kill>>
          /\ got' \in {got, [got EXCEPT ![b] = x.done]} /\ got[b] = 0
          /\ pc[b] = "gated" /\ pc'[b] \notin {"start", "gated", "opening"}
          /\ \A r \in Requests \ {b} : pc'[r] = pc[r]
      BY <1>0, <2>1, <2>2 DEF BuyMarket, BoughtInv, RouteTypeOK
    <2>4. SharedTypeOK'
      BY <1>0, <2>2, <2>3 DEF SharedTypeOK
    <2>5. RouteTypeOK'
      BY <1>0, <1>p, <2>2, <2>3 DEF RouteTypeOK
    <2>6. /\ filled'[b] = x.done /\ rest'[b] = x.rest /\ got'[b] <= x.done
          /\ \A r \in Requests \ {b} : filled'[r] = filled[r] /\ rest'[r] = rest[r] /\ got'[r] = got[r]
      BY <1>0, <2>2, <2>3 DEF SharedTypeOK, RouteTypeOK
    <2>7. BoughtInv'
      BY <1>n, <2>2, <2>3, <2>6, BuyBought
    <2> QED
      BY <1>t, <2>4, <2>5, <2>7
  <1>3. CASE CancelResidual(b, "protect")
    <2>1. /\ UNCHANGED <<got, ask, held, filled, oco, exits, exitSold, posStatus, posQty, posAge, kill>>
          /\ rest' \in {rest, [rest EXCEPT ![b] = 0]} /\ free' = free
          /\ pc[b] = "cancel" /\ pc'[b] = "protect"
          /\ \A r \in Requests \ {b} : pc'[r] = pc[r]
      BY <1>0, <1>3 DEF CancelResidual, CancelRest, RouteTypeOK
    <2>2. 0 \in Qty
      BY QtyIsNat, QuantityAssumption
    <2>3. SharedTypeOK' /\ RouteTypeOK'
      BY <1>0, <1>p, <2>1, <2>2 DEF SharedTypeOK, RouteTypeOK
    <2>4. rest'[b] <= rest[b] /\ rest'[b] \in Nat /\ \A r \in Requests \ {b} : rest'[r] = rest[r]
      BY <1>0, <2>1 DEF SharedTypeOK
    <2>5. filled'[b] + rest'[b] <= BuyQty
      BY <1>0, <2>1, <2>4, QuantityAssumption
    <2>6. BoughtInv'
      BY <1>0, <1>n, <2>1, <2>4, <2>5, BuyBought
    <2> QED
      BY <1>t, <2>3, <2>6
  <1>4. CASE Protect(b)
    <2>1. /\ UNCHANGED <<got, held, filled, rest, exits, exitSold, posStatus, posQty, posAge, kill>>
          /\ pc[b] = "protect" /\ pc'[b] \in {"opening", "flatten"}
          /\ \A r \in Requests \ {b} : pc'[r] = pc[r]
          /\ ask' \in {ask, [ask EXCEPT ![b] = ProtectQty(b)]}
          /\ \/ oco' = [oco EXCEPT ![b] = "active"] /\ free >= ProtectQty(b) /\ free' = free - ProtectQty(b)
             \/ pc'[b] = "flatten" /\ UNCHANGED <<oco, free>>
      BY <1>0, <1>4 DEF Protect, Flatten, PlaceOco, RouteTypeOK
    <2>2. SharedTypeOK'
      BY <1>0, <1>q, <2>1 DEF SharedTypeOK
    <2>3. RouteTypeOK'
      BY <1>0, <1>p, <1>q, <2>1 DEF RouteTypeOK
    <2>4. /\ pc'[b] = "opening" => oco'[b] # "none"
          /\ \A c \in Buys \ {b} : oco'[c] = oco[c]
      BY <1>0, <2>1 DEF SharedTypeOK
    <2>5. BoughtInv'
      BY <1>0, <1>n, <2>1, <2>4, BuyBought
    <2> QED
      BY <1>t, <2>2, <2>3, <2>5
  <1>5. CASE OpenPosition(b)
    <2>1. /\ UNCHANGED <<got, ask, held, free, filled, rest, oco, exits, exitSold, kill>>
          /\ pc[b] = "opening" /\ pc' = [pc EXCEPT ![b] = "opened"]
          /\ posStatus' = [posStatus EXCEPT ![b] = "OPEN"]
          /\ posQty' = [posQty EXCEPT ![b] = ProtectQty(b)]
          /\ posAge' = [posAge EXCEPT ![b] = 1 + Cardinality({c \in Buys : posStatus[c] # "none"})]
      BY <1>5 DEF OpenPosition, CreatePosition
    <2>2. SharedTypeOK' /\ RouteTypeOK'
      BY <1>0, <1>n, <1>p, <1>q, <2>1, AgeBound DEF SharedTypeOK, RouteTypeOK
    <2>3. oco[b] # "none"
      BY <1>0, <2>1 DEF BoughtInv
    <2>4. FloorStep(got[b]) <= FloorStep(filled[b])
      BY <1>0, FloorGrows
    <2>5. TrackedIsProtected'
      BY <1>0, <1>q, <2>1, <2>3, <2>4 DEF TrackedIsProtected, BoughtInv, SharedTypeOK
    <2>6. BoughtInv'
      BY <1>0, <2>1, <2>5 DEF BoughtInv, RouteTypeOK, Requests
    <2> QED
      BY <1>t, <2>2, <2>6
  <1>6. CASE FlattenSend(b)
    <2>1. PICK e \in 0..ask[b] :
             /\ UNCHANGED <<got, ask, held, filled, rest, oco, posStatus, posQty, posAge, kill>>
             /\ pc[b] = "flatten" /\ pc'[b] \in {"flattened", "freeze"}
             /\ \A r \in Requests \ {b} : pc'[r] = pc[r]
             /\ \/ /\ free >= ask[b] /\ free' = free - e
                   /\ exits' = [exits EXCEPT ![b] = @ + 1]
                   /\ exitSold' = [exitSold EXCEPT ![b] = @ + e]
                \/ UNCHANGED <<free, exits, exitSold>>
      <3>1. CASE \E e \in 0..ask[b] : SellOff(b, ask[b], e)
        BY <1>0, <1>6, <3>1 DEF FlattenSend, SellOff, RouteTypeOK
      <3>2. CASE Goto(b, "flatten", "freeze") /\ UNCHANGED market
        <4>1. 0 \in 0..ask[b]
          BY <1>0, QtyIsNat DEF RouteTypeOK
        <4> QED
          BY <1>0, <1>6, <3>2, <4>1 DEF FlattenSend, RouteTypeOK
      <3> QED
        BY <1>6, <3>1, <3>2 DEF FlattenSend
    <2>2. ask[b] \in Nat /\ e \in Nat /\ e <= ask[b]
      <3>1. ask[b] \in Nat
        BY <1>0, QtyIsNat DEF RouteTypeOK
      <3> QED
        BY <3>1
    <2>3. SharedTypeOK' /\ RouteTypeOK'
      BY <1>0, <1>p, <2>1, <2>2 DEF SharedTypeOK, RouteTypeOK
    <2>4. BoughtInv'
      BY <1>0, <1>n, <2>1, BuyBought
    <2> QED
      BY <1>t, <2>3, <2>4
  <1>7. CASE Freeze(b)
    <2>1. /\ UNCHANGED <<got, ask, held, market, table>> /\ kill' \in BOOLEAN
          /\ pc[b] = "freeze" /\ pc'[b] \in {"frozen", "raised"}
          /\ \A r \in Requests \ {b} : pc'[r] = pc[r]
      BY <1>0, <1>7 DEF Freeze, RouteTypeOK, SharedTypeOK
    <2>2. SharedTypeOK' /\ RouteTypeOK'
      BY <1>0, <1>p, <2>1 DEF SharedTypeOK, RouteTypeOK
    <2>3. BoughtInv'
      BY <1>0, <1>n, <2>1, BuyBought
    <2> QED
      BY <1>t, <2>2, <2>3
  <1> QED
    BY <1>1, <1>2, <1>3, <1>4, <1>5, <1>6, <1>7 DEF BuyStep

-----------------------------------------------------------------------------
(* Steps of a SELL.                                                        *)

LEMMA SellTypes ==
  ASSUME IInv, JInv, NEW s \in Sells, SellStep(s), UNCHANGED <<monitor, beyond, env>>
  PROVE  TypeOK' /\ BoughtInv'
  <1> USE DEF shared, market, table, Goto
  <1>0. /\ SharedTypeOK /\ RouteTypeOK /\ BoughtInv /\ s \in Requests /\ s \notin Buys
        /\ filled[s] \in Nat /\ rest[s] \in Nat /\ got[s] \in Nat /\ got[s] \in Qty
        /\ rest[s] \in Qty /\ free \in Nat /\ filled[s] + rest[s] <= BuyQty
        /\ ask[s] \in Qty /\ ask[s] \in Nat
    BY QtyIsNat, RequestAssumption
       DEF JInv, TypeOK, SharedTypeOK, RouteTypeOK, BoughtInv, Requests
  <1>p. pc' \in [Requests -> {"start"} \cup InFlight \cup Ended]
    <2>1. IInv'
      BY SellKeeps
    <2> QED
      BY <2>1 DEF IInv, Shapes, PcStates
  <1>t. ASSUME SharedTypeOK', RouteTypeOK' PROVE TypeOK'
    BY <1>t, MonitorTypes DEF JInv, TypeOK
  <1>h. \A t \in Sells : held[t] # None =>
           /\ held[t].pos \in Buys /\ held[t].qty \in Qty /\ held[t].qty \in Nat
           /\ held[t].qty <= FloorStep(filled[held[t].pos]) /\ posStatus[held[t].pos] # "none"
    BY <1>0, QtyIsNat DEF RouteTypeOK, BoughtInv, Held, IInv, SellInv
  <1>k. \A c \in Buys : posStatus[c] # "none" => posQty[c] <= FloorStep(filled[c]) /\ oco[c] # "none"
    BY <1>0 DEF BoughtInv, TrackedIsProtected
  <1>m. held[s] = None \/ ProtectQty(held[s].pos) \in Nat
    <2>1. \A b \in Buys : got[b] \in Qty
      BY <1>0 DEF RouteTypeOK, Requests
    <2> QED
      BY <1>h, <2>1, FloorIsQty, QtyIsNat DEF ProtectQty
  <1>1. CASE Gate(s) \/ Refuse(s) \/ SellSendFails(s) \/ SellBalance(s)
    <2>1. /\ UNCHANGED <<got, held, shared>>
          /\ \A r \in Requests \ {s} : pc'[r] = pc[r]
          /\ ask' = ask \/ \E q \in 1..BuyQty : ask' = [ask EXCEPT ![s] = q]
      BY <1>0, <1>1 DEF Gate, Refuse, SellSendFails, SellBalance, RouteTypeOK
    <2>2. ask' \in [Requests -> Qty]
      <3>1. \A q \in 1..BuyQty : q \in Qty
        BY QuantityAssumption DEF Qty
      <3> QED
        BY <1>0, <2>1, <3>1 DEF RouteTypeOK
    <2>3. SharedTypeOK' /\ RouteTypeOK'
      BY <1>0, <1>p, <2>1, <2>2 DEF SharedTypeOK, RouteTypeOK
    <2>4. BoughtInv'
      BY <1>0, <1>h, <1>k, <2>1, SellBought
    <2> QED
      BY <1>t, <2>3, <2>4
  <1>2. CASE SellRead(s)
    <2>1. PICK p \in Buys :
             /\ posStatus[p] = "OPEN"
             /\ held' = [held EXCEPT ![s] = [pos |-> p, qty |-> posQty[p]]]
             /\ \A r \in Requests \ {s} : pc'[r] = pc[r]
             /\ UNCHANGED <<got, ask, shared>>
      BY <1>0, <1>2 DEF SellRead, OldestOpen, Open, RouteTypeOK
    <2>2. [pos |-> p, qty |-> posQty[p]] \in Held
      BY <1>0 DEF SharedTypeOK, Held
    <2>3. SharedTypeOK' /\ RouteTypeOK'
      BY <1>0, <1>p, <2>1, <2>2 DEF SharedTypeOK, RouteTypeOK
    <2>4. \A t \in Sells : held'[t] # None =>
             held'[t].pos \in Buys /\ held'[t].qty <= FloorStep(filled[held'[t].pos])
      BY <1>0, <1>h, <1>k, <2>1 DEF RouteTypeOK
    <2>5. BoughtInv'
      BY <1>0, <1>k, <2>1, <2>4, SellBought
    <2> QED
      BY <1>t, <2>3, <2>5
  <1>3. CASE SellSend(s)
    <2>1. PICK x \in Executions(ask[s]), heard \in BOOLEAN :
             /\ SellMarket(s, ask[s], x)
             /\ Goto(s, "ready", IF heard THEN AfterAnswer(x, "reduce") ELSE "unknown")
             /\ got' = IF heard THEN [got EXCEPT ![s] = x.done] ELSE got
             /\ UNCHANGED <<ask, held, table, kill>>
      BY <1>3 DEF SellSend
    <2>2. /\ x.done \in Nat /\ x.rest \in Nat /\ x.done + x.rest <= ask[s]
          /\ x.done \in Qty /\ x.rest \in Qty /\ ask[s] <= BuyQty /\ BuyQty \in Nat
      BY <1>0, ExecutionBound, QuantityAssumption DEF Qty
    <2>3. /\ free >= ask[s] /\ free' = free - x.done - x.rest
          /\ filled' = [filled EXCEPT ![s] = x.done] /\ rest' = [rest EXCEPT ![s] = x.rest]
          /\ UNCHANGED <<ask, held, oco, exits, exitSold, posStatus, posQty, posAge, kill>>
          /\ got' \in {got, [got EXCEPT ![s] = x.done]}
          /\ \A r \in Requests \ {s} : pc'[r] = pc[r]
      BY <1>0, <2>1 DEF SellMarket, RouteTypeOK
    <2>4. SharedTypeOK'
      BY <1>0, <2>2, <2>3 DEF SharedTypeOK
    <2>5. RouteTypeOK'
      BY <1>0, <1>p, <2>2, <2>3 DEF RouteTypeOK
    <2>6. /\ filled'[s] + rest'[s] <= BuyQty
          /\ \A r \in Requests \ {s} : filled'[r] = filled[r] /\ rest'[r] = rest[r] /\ got'[r] = got[r]
      BY <1>0, <2>2, <2>3 DEF SharedTypeOK, RouteTypeOK
    <2>7. BoughtInv'
      BY <1>h, <1>k, <2>3, <2>6, SellBought
    <2> QED
      BY <1>t, <2>4, <2>5, <2>7
  <1>4. CASE CancelResidual(s, "reduce")
    <2>1. /\ UNCHANGED <<got, ask, held, filled, oco, exits, exitSold, posStatus, posQty, posAge, kill>>
          /\ \/ rest' = rest /\ free' = free
             \/ rest' = [rest EXCEPT ![s] = 0] /\ (free' = free \/ free' = free + rest[s])
          /\ \A r \in Requests \ {s} : pc'[r] = pc[r]
      BY <1>0, <1>4 DEF CancelResidual, CancelRest, RouteTypeOK
    <2>2. 0 \in Qty
      BY QtyIsNat, QuantityAssumption
    <2>3. free' \in Nat /\ SharedTypeOK' /\ RouteTypeOK'
      BY <1>0, <1>p, <2>1, <2>2 DEF SharedTypeOK, RouteTypeOK
    <2>4. /\ rest'[s] <= rest[s] /\ rest'[s] \in Nat
          /\ \A r \in Requests \ {s} : rest'[r] = rest[r]
      BY <1>0, <2>1 DEF SharedTypeOK
    <2>5. filled'[s] + rest'[s] <= BuyQty
      BY <1>0, <2>1, <2>4, QuantityAssumption
    <2>6. BoughtInv'
      BY <1>h, <1>k, <2>1, <2>4, <2>5, SellBought
    <2> QED
      BY <1>t, <2>3, <2>6
  <1>5. CASE ReducePosition(s)
    <2>1. /\ held[s] # None /\ ~(got[s] >= held[s].qty)
          /\ posQty' = [posQty EXCEPT ![held[s].pos] = held[s].qty - got[s]]
          /\ UNCHANGED <<got, ask, held, posStatus, posAge, market, kill>>
          /\ \A r \in Requests \ {s} : pc'[r] = pc[r]
      BY <1>0, <1>5 DEF ReducePosition, SoldOut, RouteTypeOK, IInv, SellInv
    <2>2. /\ held[s].qty - got[s] \in Nat /\ held[s].qty - got[s] <= held[s].qty
          /\ held[s].qty <= BuyQty
      BY <1>0, <1>h, <2>1 DEF Qty
    <2>3. held[s].qty - got[s] \in Qty
      <3>1. held[s].qty \in Nat /\ BuyQty \in Nat
        BY <1>h, <2>1, QuantityAssumption
      <3>2. held[s].qty - got[s] <= BuyQty
        BY <1>0, <2>2, <3>1
      <3> QED
        BY <2>2, <3>2, QtyIsNat
    <2>4. SharedTypeOK' /\ RouteTypeOK'
      BY <1>0, <1>p, <2>1, <2>3 DEF SharedTypeOK, RouteTypeOK
    <2>5. FloorStep(filled[held[s].pos]) \in Nat
      <3>1. filled[held[s].pos] \in Nat
        BY <1>0, <1>h, <2>1, QtyIsNat DEF SharedTypeOK, Requests
      <3> QED
        BY <3>1, FloorBound
    <2>6. held[s].qty - got[s] <= FloorStep(filled[held[s].pos])
      BY <1>0, <1>h, <2>1, <2>2, <2>5
    <2>7. \A c \in Buys : posStatus[c] # "none" => posQty'[c] <= FloorStep(filled[c])
      BY <1>0, <1>k, <2>1, <2>6 DEF SharedTypeOK
    <2>8. BoughtInv'
      BY <1>0, <1>h, <2>1, <2>7, SellBought
    <2> QED
      BY <1>t, <2>4, <2>8
  <1>6. CASE SellUnprotect(s)
    <2>1. /\ held[s] # None
          /\ UNCHANGED <<got, ask, held, filled, rest, exits, exitSold, posStatus, posQty, posAge, kill>>
          /\ \/ UNCHANGED <<oco, free>>
             \/ /\ oco' = [oco EXCEPT ![held[s].pos] = "cancelled"]
                /\ free' = free + ProtectQty(held[s].pos)
          /\ \A r \in Requests \ {s} : pc'[r] = pc[r]
      BY <1>0, <1>6 DEF SellUnprotect, CancelOco, RouteTypeOK, IInv, SellInv
    <2>2. free' \in Nat /\ SharedTypeOK' /\ RouteTypeOK'
      BY <1>0, <1>m, <1>p, <2>1 DEF SharedTypeOK, RouteTypeOK
    <2>3. \A c \in Buys : oco[c] # "none" => oco'[c] # "none"
      BY <1>0, <2>1 DEF SharedTypeOK
    <2>4. BoughtInv'
      BY <1>0, <1>h, <1>k, <2>1, <2>3, SellBought
    <2> QED
      BY <1>t, <2>2, <2>4
  <1>7. CASE SellClose(s)
    <2>1. /\ held[s] # None
          /\ posStatus' = [posStatus EXCEPT ![held[s].pos] = "CLOSED"]
          /\ UNCHANGED <<got, ask, held, posQty, posAge, market, kill>>
          /\ \A r \in Requests \ {s} : pc'[r] = pc[r]
      BY <1>0, <1>7 DEF SellClose, ClosePosition, RouteTypeOK, IInv, SellInv
    <2>2. SharedTypeOK' /\ RouteTypeOK'
      BY <1>0, <1>p, <2>1 DEF SharedTypeOK, RouteTypeOK
    <2>3. \A c \in Buys : posStatus[c] = "none" => posStatus'[c] = "none"
      BY <1>0, <1>h, <2>1 DEF SharedTypeOK
    <2>4. BoughtInv'
      BY <1>0, <1>h, <1>k, <2>1, <2>3, SellBought
    <2> QED
      BY <1>t, <2>2, <2>4
  <1> QED
    BY <1>1, <1>2, <1>3, <1>4, <1>5, <1>6, <1>7 DEF SellStep

-----------------------------------------------------------------------------
(* The monitor, the exchange, the price, the operator and the process.     *)

LEMMA MonitorTypesKeep ==
  ASSUME IInv, JInv, MonitorStep, UNCHANGED <<route, env>>
  PROVE  TypeOK' /\ BoughtInv'
  <1> USE DEF shared, market, table, route, env, Idle
  <1>0. /\ SharedTypeOK /\ RouteTypeOK /\ MonitorTypeOK /\ BoughtInv /\ MonInv
        /\ free \in Nat
    BY DEF JInv, TypeOK, SharedTypeOK, IInv
  <1>1. ASSUME SharedTypeOK', MonitorTypeOK',
               UNCHANGED <<filled, rest, posQty>>,
               \A c \in Buys : oco[c] # "none" => oco'[c] # "none",
               \A c \in Buys : posStatus[c] = "none" => posStatus'[c] = "none"
        PROVE  TypeOK' /\ BoughtInv'
    <2>1. TypeOK'
      BY <1>1 DEF JInv, TypeOK, RouteTypeOK
    <2>2. \A r \in Requests : filled[r] \in Nat
      BY <1>0, QtyIsNat DEF SharedTypeOK
    <2>3. \A r \in Requests : filled[r] <= filled[r]
      BY <2>2
    <2>4. \A r \in Requests : filled[r] <= filled'[r] /\ filled'[r] + rest'[r] <= BuyQty
      BY <1>0, <1>1, <2>3 DEF BoughtInv
    <2> QED
      BY <1>1, <2>1, <2>4, QuietBought
  <1>2. CASE MonSelect
    <2>1. \A b \in Buys : [pos |-> b, qty |-> posQty[b]] \in Item
      BY <1>0 DEF SharedTypeOK, Item
    <2>2. MonitorTypeOK' /\ SharedTypeOK'
      BY <1>0, <1>2, <2>1 DEF MonSelect, Open, MonitorTypeOK, SharedTypeOK
    <2> QED
      BY <1>1, <1>2, <2>2 DEF MonSelect
  <1>3. CASE MonTickEnds
    <2>1. MonitorTypeOK' /\ SharedTypeOK'
      BY <1>0, <1>3 DEF MonTickEnds, MonitorTypeOK, SharedTypeOK
    <2> QED
      BY <1>1, <1>3, <2>1 DEF MonTickEnds
  <1>4. ASSUME NEW i \in todo, MonSkip(i) \/ MonRead(i) PROVE TypeOK' /\ BoughtInv'
    <2>1. MonitorTypeOK' /\ SharedTypeOK'
      BY <1>0, <1>4 DEF MonSkip, MonRead, MonitorTypeOK, SharedTypeOK
    <2> QED
      BY <1>1, <1>4, <2>1 DEF MonSkip, MonRead
  <1>5. ASSUME NEW i \in cur, MonClose(i) PROVE TypeOK' /\ BoughtInv'
    <2>1. i.pos \in Buys /\ posStatus[i.pos] # "none"
      BY <1>0 DEF MonInv
    <2>2. MonitorTypeOK' /\ SharedTypeOK'
      BY <1>0, <1>5 DEF MonClose, ClosePosition, MonitorTypeOK, SharedTypeOK
    <2>3. \A c \in Buys : posStatus[c] = "none" => posStatus'[c] = "none"
      BY <1>0, <1>5, <2>1 DEF MonClose, ClosePosition, SharedTypeOK
    <2> QED
      BY <1>1, <1>5, <2>2, <2>3 DEF MonClose, ClosePosition
  <1>6. ASSUME NEW i \in cur, MonUnprotect(i, ProtectQty(i.pos)) PROVE TypeOK' /\ BoughtInv'
    <2>1. i.pos \in Buys
      BY <1>0 DEF MonInv
    <2>2. ProtectQty(i.pos) \in Nat
      <3>1. got[i.pos] \in Qty
        BY <1>0, <2>1 DEF RouteTypeOK, Requests
      <3> QED
        BY <3>1, FloorIsQty, QtyIsNat DEF ProtectQty
    <2>3. /\ \/ UNCHANGED <<oco, free>>
             \/ oco' = [oco EXCEPT ![i.pos] = "cancelled"] /\ free' = free + ProtectQty(i.pos)
          /\ UNCHANGED <<filled, rest, exits, exitSold, posStatus, posQty, posAge, kill,
                         todo, cur, exitTrade, beyond>>
          /\ mpc' = "file"
      BY <1>6 DEF MonUnprotect, CancelOco
    <2>4. free' \in Nat /\ MonitorTypeOK' /\ SharedTypeOK'
      BY <1>0, <2>2, <2>3 DEF MonitorTypeOK, SharedTypeOK
    <2>5. \A c \in Buys : oco[c] # "none" => oco'[c] # "none"
      BY <1>0, <2>3 DEF SharedTypeOK
    <2> QED
      BY <1>1, <2>3, <2>4, <2>5
  <1>7. ASSUME NEW i \in cur, MonFile(i) \/ MonSellFails(i) \/ MonFreeze(i) PROVE TypeOK' /\ BoughtInv'
    <2>1. MonitorTypeOK' /\ SharedTypeOK'
      BY <1>0, <1>7 DEF MonFile, MonSellFails, MonFreeze, MonitorTypeOK, SharedTypeOK
    <2> QED
      BY <1>1, <1>7, <2>1 DEF MonFile, MonSellFails, MonFreeze
  <1>8. ASSUME NEW i \in cur, MonSell(i) PROVE TypeOK' /\ BoughtInv'
    <2>1. i.pos \in Buys /\ i.qty \in Nat
      BY <1>0, QtyIsNat DEF MonInv, MonitorTypeOK, Item
    <2>2. PICK e \in 0..i.qty :
             /\ free >= i.qty /\ free' = free - e
             /\ exits' = [exits EXCEPT ![i.pos] = @ + 1]
             /\ exitSold' = [exitSold EXCEPT ![i.pos] = @ + e]
             /\ UNCHANGED <<filled, rest, oco, posStatus, posQty, posAge, kill, todo, beyond>>
             /\ \E x \in {"FILLED", "OTHER", "UNKNOWN"} : exitTrade' = [exitTrade EXCEPT ![i.pos] = x]
             /\ mpc' \in {"close", "each", "freeze"} /\ (cur' = cur \/ cur' = {})
      BY <1>8 DEF MonSell, SellOff
    <2>3. MonitorTypeOK' /\ SharedTypeOK'
      <3>1. e \in Nat /\ free - e \in Nat
        BY <1>0, <2>1, <2>2
      <3>2. SharedTypeOK'
        <4>1. exits' \in [Buys -> Nat] /\ exitSold' \in [Buys -> Nat]
          <5>1. exits[i.pos] + 1 \in Nat /\ exitSold[i.pos] + e \in Nat
            BY <1>0, <2>1, <3>1 DEF SharedTypeOK
          <5> QED
            BY <1>0, <2>2, <5>1 DEF SharedTypeOK
        <4>2. free' \in Nat
          BY <2>2, <3>1
        <4> QED
          BY <1>0, <2>2, <4>1, <4>2 DEF SharedTypeOK
      <3>3. MonitorTypeOK'
        BY <1>0, <2>2 DEF MonitorTypeOK
      <3> QED
        BY <3>2, <3>3
    <2> QED
      BY <1>1, <2>2, <2>3
  <1> QED
    BY <1>2, <1>3, <1>4, <1>5, <1>6, <1>7, <1>8 DEF MonitorStep

LEMMA WorldTypesKeep ==
  ASSUME IInv, JInv,
         \/ ExchangeNext \/ (PriceMoves /\ UNCHANGED <<route, env>>)
         \/ SetKillSwitch \/ Restart \/ UNCHANGED vars
  PROVE  TypeOK' /\ BoughtInv'
  <1> USE DEF shared, market, table, route, monitor, env, vars
  <1>0. SharedTypeOK /\ RouteTypeOK /\ MonitorTypeOK /\ BoughtInv /\ free \in Nat
        /\ restarts \in 0..MaxRestarts /\ switches \in 0..MaxSwitches
    BY DEF JInv, TypeOK, SharedTypeOK
  <1>q. \A r \in Requests : filled[r] \in Nat /\ rest[r] \in Nat /\ filled[r] + rest[r] <= BuyQty
    BY <1>0, QtyIsNat DEF SharedTypeOK, BoughtInv
  <1>1. CASE ExchangeNext
    <2>1. UNCHANGED <<table, kill, route, monitor, beyond, env>>
      BY <1>1 DEF ExchangeNext
    <2>2. ASSUME NEW r \in Requests, RestFills(r) PROVE TypeOK' /\ BoughtInv'
      <3>1. filled[r] + rest[r] \in Qty /\ 0 \in Qty
        BY <1>q, QtyIsNat, QuantityAssumption
      <3>2. /\ filled' = [filled EXCEPT ![r] = @ + rest[r]] /\ rest' = [rest EXCEPT ![r] = 0]
            /\ free' \in Nat /\ UNCHANGED <<oco, exits, exitSold>>
        BY <1>0, <1>q, <2>2 DEF RestFills
      <3>3. TypeOK'
        BY <1>0, <2>1, <3>1, <3>2 DEF TypeOK, SharedTypeOK, RouteTypeOK, MonitorTypeOK
      <3>4. \A p \in Requests : filled[p] <= filled'[p] /\ filled'[p] + rest'[p] <= BuyQty
        <4>1. filled'[r] = filled[r] + rest[r] /\ rest'[r] = 0
          BY <1>0, <3>2 DEF SharedTypeOK
        <4>2. filled[r] <= filled'[r] /\ filled'[r] + rest'[r] <= BuyQty
          BY <1>q, <4>1
        <4>3. \A p \in Requests \ {r} : filled'[p] = filled[p] /\ rest'[p] = rest[p]
          BY <1>0, <3>2 DEF SharedTypeOK
        <4> QED
          BY <1>q, <4>2, <4>3
      <3> QED
        BY <2>1, <3>2, <3>3, <3>4, QuietBought
    <2>3. ASSUME NEW b \in Buys, OcoFills(b) PROVE TypeOK' /\ BoughtInv'
      <3>1. oco' = [oco EXCEPT ![b] = "filled"] /\ UNCHANGED <<free, filled, rest, exits, exitSold>>
        BY <2>3 DEF OcoFills
      <3>2. TypeOK'
        BY <1>0, <2>1, <3>1 DEF TypeOK, SharedTypeOK, RouteTypeOK, MonitorTypeOK
      <3>3. \A c \in Buys : oco[c] # "none" => oco'[c] # "none"
        BY <1>0, <3>1 DEF SharedTypeOK
      <3> QED
        BY <1>q, <2>1, <3>1, <3>2, <3>3, QuietBought
    <2> QED
      BY <1>1, <2>2, <2>3 DEF ExchangeNext, ExchangeStep
  <1>2. CASE (PriceMoves /\ UNCHANGED <<route, env>>) \/ SetKillSwitch \/ UNCHANGED vars
    <2>1. /\ UNCHANGED <<market, table, route, monitor, restarts>>
          /\ beyond' \subseteq Buys /\ kill' \in BOOLEAN /\ switches' \in 0..MaxSwitches
      <3>1. CASE PriceMoves /\ UNCHANGED <<route, env>>
        BY <1>0, <3>1 DEF PriceMoves, Open, SharedTypeOK, MonitorTypeOK
      <3>2. CASE SetKillSwitch
        BY <1>0, <3>2, BoundsAssumption DEF SetKillSwitch, SharedTypeOK, MonitorTypeOK
      <3>3. CASE UNCHANGED vars
        BY <1>0, <3>3 DEF SharedTypeOK, MonitorTypeOK
      <3> QED
        BY <1>2, <3>1, <3>2, <3>3
    <2>2. TypeOK'
      BY <1>0, <2>1 DEF TypeOK, SharedTypeOK, RouteTypeOK, MonitorTypeOK
    <2> QED
      BY <1>q, <2>1, <2>2, QuietBought
  <1>3. CASE Restart
    <2>1. /\ pc' = [r \in Requests |-> IF pc[r] \in InFlight THEN "crashed" ELSE pc[r]]
          /\ mpc' = "idle" /\ todo' = {} /\ cur' = {} /\ restarts' \in 0..MaxRestarts
          /\ UNCHANGED <<got, ask, held, exitTrade, beyond, shared, switches>>
      BY <1>0, <1>3, BoundsAssumption DEF Restart, RouteRestart, MonitorRestart
    <2>2. pc' \in [Requests -> {"start"} \cup InFlight \cup Ended]
      BY <1>0, <2>1 DEF RouteTypeOK, Ended
    <2>3. TypeOK'
      BY <1>0, <2>1, <2>2 DEF TypeOK, SharedTypeOK, RouteTypeOK, MonitorTypeOK
    <2>4. \A r \in Requests : pc'[r] = pc[r] \/ pc'[r] = "crashed"
      BY <2>1
    <2>5. BoughtInv'
      BY <1>0, <2>1, <2>4 DEF BoughtInv, TrackedIsProtected, Requests
    <2> QED
      BY <2>3, <2>5
  <1> QED
    BY <1>1, <1>2, <1>3

LEMMA NextJInv ==
  ASSUME IInv, JInv, [Next]_vars
  PROVE  JInv'
  <1>1. CASE RouteNext
    BY <1>1, BuyTypes, SellTypes DEF RouteNext, JInv
  <1>2. CASE MonitorNext
    BY <1>2, MonitorTypesKeep DEF MonitorNext, JInv
  <1>3. CASE \/ ExchangeNext \/ (PriceMoves /\ UNCHANGED <<route, env>>)
             \/ SetKillSwitch \/ Restart \/ UNCHANGED vars
    BY <1>3, WorldTypesKeep DEF JInv
  <1> QED
    BY <1>1, <1>2, <1>3 DEF Next

LEMMA Inductive2 == Spec => []JInv
  BY InitJInv, NextJInv, Inductive, PTL DEF Spec

-----------------------------------------------------------------------------
\* Every reachable state is well typed: no free balance goes negative, and no
\* request executes, tracks or sells more than a BUY's quantity.
THEOREM TypeCorrect == Spec => []TypeOK
  <1>1. JInv => TypeOK
    BY DEF JInv
  <1> QED
    BY <1>1, Inductive2, PTL

\* What the table says can be sold was bought, in whole lot steps, and an OCO
\* stood behind it before the row did.
THEOREM Tracked == Spec => []TrackedIsProtected
  <1>1. JInv => TrackedIsProtected
    BY DEF JInv, BoughtInv
  <1> QED
    BY <1>1, Inductive2, PTL
-----------------------------------------------------------------------------
(* No orphaned protection.                                                 *)

\* The parameters the property is about: the account holds what one BUY bought.
OneBuyOnly == Cardinality(Buys) = 1 /\ IsFiniteSet(Sells) /\ Outside = 0

\* What the SELLs at the exchange still offer, unit by unit; and all coins that
\* no OCO holds.  The sum over the SELLs is the size of a set of pairs.
Offered == {e \in Sells \X (1..BuyQty) : e[2] <= rest[e[1]]}
Coins == free + Cardinality(Offered)

\* Before the protection is placed the account holds what was executed.
EarlyInv ==
    \A b \in Buys : pc[b] \in {"start", "gated", "cancel", "protect"} =>
        /\ free <= filled[b] /\ oco[b] = "none"
        /\ pc[b] \in {"start", "gated"} => filled[b] = 0 /\ rest[b] = 0

\* An order stands behind what is offered.
OfferInv == \A s \in Sells : rest[s] > 0 => held[s] # None

\* While the OCO holds its coins, whatever the table, a SELL or the monitor
\* takes for the position is more than all other coins there are.
Guarded(b) == oco[b] = "active" /\ filled[b] = got[b]

Claims(b) ==
    /\ pc[b] = "opening" => ProtectQty(b) > Coins
    /\ posStatus[b] # "none" => posStatus[b] = "OPEN" /\ posQty[b] > Coins
    /\ \A s \in Sells :
          /\ pc[s] \in {"ready", "cancel", "reduce"} => held[s].qty - got[s] > Coins
          /\ pc[s] # "close"
    /\ \A i \in todo \cup cur : i.qty > Coins
    /\ \A i \in cur : mpc # "close"

GuardInv == \A b \in Buys : Guarded(b) => Claims(b)

KInv == EarlyInv /\ OfferInv /\ GuardInv

LEMMA FloorRest ==
  ASSUME NEW q \in Nat, FloorStep(q) > 0
  PROVE  q - FloorStep(q) < FloorStep(q)
  <1>1. Step \in Nat /\ Step > 0
    BY QuantityAssumption
  <1>2. q \div Step \in Nat /\ q % Step < Step /\ q = Step * (q \div Step) + (q % Step)
    BY <1>1
  <1> DEFINE k == q \div Step
  <1>3. k >= 1
    <2>1. CASE k = 0
      BY <1>1, <2>1 DEF FloorStep
    <2> QED
      BY <1>2, <2>1
  <1>4. \A m \in Nat : m >= 1 => m * Step >= Step
    BY <1>1
  <1>5. FloorStep(q) = k * Step /\ k * Step >= Step /\ k * Step = Step * k
    BY <1>1, <1>2, <1>3, <1>4 DEF FloorStep
  <1>6. k * Step \in Nat /\ q % Step \in Nat
    BY <1>1, <1>2
  <1> QED
    BY <1>1, <1>2, <1>5, <1>6

-----------------------------------------------------------------------------
(* The size of what is offered.                                            *)

LEMMA OfferedFinite ==
  ASSUME TypeOK, OneBuyOnly
  PROVE  /\ IsFiniteSet(Offered) /\ Cardinality(Offered) \in Nat
         /\ Coins \in Nat /\ free <= Coins /\ free \in Nat
  <1>1. IsFiniteSet(1..BuyQty)
    BY QuantityAssumption, FS_Interval
  <1>2. IsFiniteSet(Sells \X (1..BuyQty))
    BY <1>1, FS_Product DEF OneBuyOnly
  <1>3. Offered \in SUBSET (Sells \X (1..BuyQty))
    BY DEF Offered
  <1>4. IsFiniteSet(Offered) /\ Cardinality(Offered) \in Nat
    BY <1>2, <1>3, FS_Subset, FS_CardinalityType
  <1>5. free \in Nat
    BY DEF TypeOK, SharedTypeOK
  <1> QED
    BY <1>4, <1>5 DEF Coins

LEMMA OfferedSame ==
  ASSUME \A s \in Sells : rest'[s] = rest[s]
  PROVE  Offered' = Offered
  BY DEF Offered

LEMMA OfferedMove ==
  ASSUME TypeOK, OneBuyOnly, NEW s \in Sells, NEW n \in Qty,
         rest' = [rest EXCEPT ![s] = n]
  PROVE  Cardinality(Offered') = Cardinality(Offered) - rest[s] + n
  <1> DEFINE Units(k) == {s} \X (1..k)
             Others == Offered \ ({s} \X (1..BuyQty))
  <1>0. s \in Requests /\ rest \in [Requests -> Qty] /\ rest[s] \in Qty /\ BuyQty \in Nat
    BY QuantityAssumption DEF TypeOK, SharedTypeOK, Requests
  <1>1. \A k \in Qty : IsFiniteSet(Units(k)) /\ Cardinality(Units(k)) = k
    <2>1. SUFFICES ASSUME NEW k \in Qty
                   PROVE  IsFiniteSet(Units(k)) /\ Cardinality(Units(k)) = k
      OBVIOUS
    <2>2. k \in Nat
      BY QtyIsNat
    <2>3. IsFiniteSet(1..k) /\ Cardinality(1..k) = k
      BY <2>2, FS_Interval
    <2>4. IsFiniteSet({s}) /\ Cardinality({s}) = 1
      BY FS_Singleton
    <2>5. IsFiniteSet(Units(k)) /\ Cardinality(Units(k)) = Cardinality({s}) * Cardinality(1..k)
      BY <2>3, <2>4, FS_Product, Zenon
    <2> QED
      BY <2>2, <2>3, <2>4, <2>5
  <1>2. IsFiniteSet(Others) /\ Cardinality(Others) \in Nat
    BY OfferedFinite, FS_Difference, FS_CardinalityType
  <1>3. ASSUME NEW k \in Qty
        PROVE  Cardinality(Others \cup Units(k)) = Cardinality(Others) + k
    <2>1. k \in Nat /\ k <= BuyQty
      BY <1>0 DEF Qty
    <2>2. Units(k) \subseteq {s} \X (1..BuyQty)
      BY <1>0, <2>1
    <2>3. Others \cap Units(k) = {}
      BY <2>2
    <2>4. Cardinality(Others \cup Units(k))
            = Cardinality(Others) + Cardinality(Units(k)) - Cardinality(Others \cap Units(k))
      BY <1>1, <1>2, FS_Union, Zenon
    <2>5. Cardinality(Others \cap Units(k)) = 0
      BY <2>3, FS_EmptySet, Zenon
    <2>6. Cardinality(Units(k)) = k
      BY <1>1
    <2> HIDE DEF Others, Units
    <2> QED
      BY <1>2, <2>1, <2>4, <2>5, <2>6
  <1>4. Offered = Others \cup Units(rest[s])
    <2>1. \A k \in 1..BuyQty : <<s, k>> \in Offered <=> k <= rest[s]
      BY DEF Offered
    <2>2. \A k \in Nat : k \in 1..rest[s] <=> k \in 1..BuyQty /\ k <= rest[s]
      BY <1>0 DEF Qty
    <2>3. Offered \subseteq Sells \X (1..BuyQty)
      BY DEF Offered
    <2>4. ASSUME NEW e \in Offered PROVE e \in Others \cup Units(rest[s])
      <3>1. e = <<e[1], e[2]>> /\ e[2] \in 1..BuyQty
        BY <2>3
      <3>2. CASE e[1] = s
        BY <2>1, <2>2, <3>1, <3>2
      <3>3. CASE e[1] # s
        BY <3>1, <3>3
      <3> QED
        BY <3>2, <3>3
    <2>5. Units(rest[s]) \subseteq Offered
      BY <1>0, <2>1, <2>2
    <2> QED
      BY <2>4, <2>5
  <1>5. Offered' = Others \cup Units(n)
    <2>0. n \in Nat /\ n <= BuyQty
      BY <1>0 DEF Qty
    <2>1. rest'[s] = n /\ \A t \in Sells \ {s} : rest'[t] = rest[t]
      BY <1>0 DEF Requests
    <2>2. \A k \in 1..BuyQty : <<s, k>> \in Offered' <=> k <= n
      BY <2>1 DEF Offered
    <2>3. \A k \in Nat : k \in 1..n <=> k \in 1..BuyQty /\ k <= n
      BY <1>0, <2>0
    <2>4. \A t \in Sells \ {s} : \A k \in 1..BuyQty : <<t, k>> \in Offered' <=> <<t, k>> \in Offered
      BY <2>1 DEF Offered
    <2>5. Offered' \subseteq Sells \X (1..BuyQty) /\ Offered \subseteq Sells \X (1..BuyQty)
      BY DEF Offered
    <2>6. ASSUME NEW e \in Offered' PROVE e \in Others \cup Units(n)
      <3>1. e = <<e[1], e[2]>> /\ e[2] \in 1..BuyQty /\ e[1] \in Sells
        BY <2>5
      <3>2. CASE e[1] = s
        BY <2>2, <2>3, <3>1, <3>2
      <3>3. CASE e[1] # s
        BY <2>4, <3>1, <3>3
      <3> QED
        BY <3>2, <3>3
    <2>7. ASSUME NEW e \in Others PROVE e \in Offered'
      <3>1. e = <<e[1], e[2]>> /\ e[2] \in 1..BuyQty /\ e[1] \in Sells /\ e \in Offered
        BY <2>5
      <3>2. e[1] # s
        BY <3>1
      <3> QED
        BY <2>4, <3>1, <3>2
    <2>8. Units(n) \subseteq Offered'
      BY <2>2, <2>3
    <2> QED
      BY <2>6, <2>7, <2>8
  <1>6. rest[s] \in Nat /\ n \in Nat
    BY <1>0, QtyIsNat
  <1> HIDE DEF Others, Units
  <1> QED
    BY <1>0, <1>2, <1>3, <1>4, <1>5, <1>6

-----------------------------------------------------------------------------
(* What a step leaves of KInv to show.                                     *)

\* Before the position exists nobody but its BUY touches the account.
LEMMA NoPosition ==
  ASSUME IInv, JInv, KInv, OneBuyOnly, NEW b \in Buys, posStatus[b] = "none"
  PROVE  /\ \A s \in Sells : held[s] = None /\ rest[s] = 0
                             /\ pc[s] \notin {"ready", "cancel", "reduce", "close"}
         /\ todo = {} /\ cur = {} /\ Coins = free
  <1>1. \A c \in Buys : c = b
    <2>1. PICK c : Buys = {c}
      <3>1. IsFiniteSet(Buys) /\ Cardinality(Buys) = 1
        BY RequestAssumption DEF OneBuyOnly
      <3> QED
        BY <3>1, FS_Singleton
    <2> QED
      BY <2>1
  <1>2. \A s \in Sells : held[s] = None
    BY <1>1 DEF IInv, SellInv, Shapes, HeldInt
  <1>3. \A s \in Sells : rest[s] = 0 /\ pc[s] \notin {"ready", "cancel", "reduce", "close"}
    <2>1. \A s \in Sells : rest[s] \in Nat
      BY QtyIsNat DEF JInv, TypeOK, SharedTypeOK, Requests
    <2> QED
      BY <1>2, <2>1 DEF KInv, OfferInv, IInv, SellInv
  <1>4. todo = {} /\ cur = {}
    BY <1>1 DEF IInv, MonInv
  <1>5. Offered = {}
    <2>1. \A e \in Offered : e[1] \in Sells /\ e[2] \in 1..BuyQty /\ e[2] <= rest[e[1]]
      BY DEF Offered
    <2> QED
      BY <1>3, <2>1
  <1>6. Coins = free
    <2>1. free \in Nat
      BY DEF JInv, TypeOK, SharedTypeOK
    <2> QED
      BY <1>5, <2>1, FS_EmptySet DEF Coins
  <1> QED
    BY <1>2, <1>3, <1>4, <1>6

LEMMA OnlyBuy ==
  ASSUME OneBuyOnly, NEW b \in Buys
  PROVE  Buys = {b}
  <1>1. IsFiniteSet(Buys) /\ Cardinality(Buys) = 1
    BY RequestAssumption DEF OneBuyOnly
  <1>2. PICK c : Buys = {c}
    BY <1>1, FS_Singleton
  <1> QED
    BY <1>2

\* Nothing new is claimed, or no more than remains.
LEMMA ClaimsKeep ==
  ASSUME IInv, JInv, JInv', OneBuyOnly, NEW b \in Buys, Claims(b), Coins' <= Coins,
         pc'[b] = "opening" => pc[b] = "opening" /\ got'[b] = got[b],
         posStatus'[b] = posStatus[b],
         posStatus[b] # "none" => posQty'[b] = posQty[b] \/ posQty'[b] > Coins',
         \A s \in Sells :
            /\ pc'[s] \in {"ready", "cancel", "reduce"} =>
                  \/ /\ pc[s] \in {"ready", "cancel", "reduce"}
                     /\ held'[s] = held[s] /\ got'[s] = got[s]
                  \/ held'[s].qty - got'[s] > Coins'
            /\ pc'[s] = "close" => pc[s] = "close",
         todo' \subseteq todo \cup cur, cur' \subseteq todo \cup cur,
         cur' # {} /\ mpc' = "close" => mpc = "close" /\ cur' \subseteq cur
  PROVE  Claims(b)'
  <1>1. Coins \in Nat /\ Coins' \in Nat
    <2>1. TypeOK'
      BY DEF JInv
    <2>2. Coins' \in Nat
      <3>1. OneBuyOnly'
        BY DEF OneBuyOnly
      <3>2. (TypeOK /\ OneBuyOnly => Coins \in Nat)'
        BY OfferedFinite, PTL
      <3> QED
        BY <2>1, <3>1, <3>2
    <2> QED
      BY <2>2, OfferedFinite DEF JInv
  <1>2. got[b] \in Nat /\ posQty[b] \in Nat /\ ProtectQty(b) \in Nat
    <2>1. b \in Requests
      BY DEF Requests
    <2>2. got[b] \in Nat /\ posQty[b] \in Nat
      BY <2>1, QtyIsNat DEF JInv, TypeOK, SharedTypeOK, RouteTypeOK
    <2> QED
      BY <2>2, FloorBound DEF ProtectQty
  <1>3. pc'[b] = "opening" => ProtectQty(b)' > Coins'
    BY <1>1, <1>2 DEF Claims, ProtectQty
  <1>4. posStatus'[b] # "none" => posStatus'[b] = "OPEN" /\ posQty'[b] > Coins'
    BY <1>1, <1>2 DEF Claims
  <1>5. ASSUME NEW s \in Sells
        PROVE  /\ pc'[s] \in {"ready", "cancel", "reduce"} => held'[s].qty - got'[s] > Coins'
               /\ pc'[s] # "close"
    <2>1. pc[s] \in {"ready", "cancel", "reduce"} => held[s].qty \in Nat /\ got[s] \in Nat
      <3>1. s \in Requests
        BY DEF Requests
      <3> QED
        BY <3>1, QtyIsNat DEF IInv, SellInv, JInv, TypeOK, RouteTypeOK, Held
    <2> QED
      BY <1>1, <2>1 DEF Claims
  <1>6. \A i \in todo' \cup cur' : i.qty > Coins'
    <2>1. \A i \in todo \cup cur : i.qty \in Nat
      BY QtyIsNat DEF JInv, TypeOK, MonitorTypeOK, Item
    <2> QED
      BY <1>1, <2>1 DEF Claims
  <1>7. \A i \in cur' : mpc' # "close"
    BY DEF Claims
  <1> QED
    BY <1>3, <1>4, <1>5, <1>6, <1>7 DEF Claims

-----------------------------------------------------------------------------
(* Steps of the BUY.                                                       *)

LEMMA BuyGuard ==
  ASSUME IInv, JInv, JInv', KInv, OneBuyOnly,
         NEW b \in Buys, BuyStep(b), UNCHANGED <<monitor, beyond, env>>
  PROVE  KInv'
  <1> USE DEF shared, market, table, monitor, Goto
  <1>0. /\ SharedTypeOK /\ RouteTypeOK /\ b \in Requests /\ b \notin Sells
        /\ filled[b] \in Nat /\ rest[b] \in Nat /\ got[b] \in Nat /\ free \in Nat
        /\ Buys = {b} /\ got[b] <= filled[b]
    BY QtyIsNat, RequestAssumption, OnlyBuy
       DEF JInv, TypeOK, SharedTypeOK, RouteTypeOK, Requests, BoughtInv
  <1>q. ProtectQty(b) \in Nat /\ ProtectQty(b) = FloorStep(got[b])
    BY <1>0, FloorBound DEF ProtectQty
  <1>n. pc[b] # "opened" => posStatus[b] = "none"
    BY DEF IInv, BuyInv
  <1>e. /\ pc[b] \in {"start", "gated", "cancel", "protect"} => free <= filled[b] /\ oco[b] = "none"
        /\ pc[b] \in {"start", "gated"} => filled[b] = 0 /\ rest[b] = 0
    BY DEF KInv, EarlyInv
  <1>s. /\ UNCHANGED held
        /\ \A s \in Sells : pc'[s] = pc[s] /\ got'[s] = got[s] /\ rest'[s] = rest[s]
    BY <1>0 DEF BuyStep, Gate, Refuse, BuySend, BuyMarket, BuySendFails, CancelResidual,
                CancelRest, CannotProtect, Protect, Flatten, PlaceOco, OpenPosition,
                FlattenSend, SellOff, Freeze, SharedTypeOK, RouteTypeOK, Requests
  <1>o. Offered' = Offered /\ Coins' = free' + Cardinality(Offered)
    BY <1>s, OfferedSame DEF Coins
  <1>a. OfferInv'
    BY <1>s DEF KInv, OfferInv
  <1>x. Coins \in Nat /\ Cardinality(Offered) \in Nat /\ Coins = free + Cardinality(Offered)
    BY OfferedFinite DEF JInv, Coins
  <1>k. ASSUME free' <= free, free' \in Nat, UNCHANGED <<oco, filled, posStatus, posQty>>,
               got'[b] = got[b], pc'[b] = "opening" => pc[b] = "opening"
        PROVE  GuardInv'
    <2>1. Coins' <= Coins
      BY <1>0, <1>k, <1>o, <1>x
    <2>2. Guarded(b)' => Guarded(b)
      BY <1>k DEF Guarded
    <2>3. Claims(b) => Claims(b)'
      BY <1>k, <1>s, <2>1, ClaimsKeep
    <2> QED
      BY <1>0, <2>2, <2>3 DEF KInv, GuardInv
  <1>v. ASSUME ~Guarded(b)' PROVE GuardInv'
    BY <1>0, <1>v DEF GuardInv
  <1>1. CASE Gate(b) \/ Refuse(b) \/ BuySendFails(b) \/ CannotProtect(b) \/ Freeze(b)
    <2>1. /\ UNCHANGED <<free, filled, rest, oco, posStatus, posQty>>
          /\ got'[b] = got[b] /\ pc'[b] # "opening"
          /\ pc'[b] \in {"start", "gated", "cancel", "protect"} => pc[b] = "start" /\ pc'[b] = "gated"
      BY <1>0, <1>1 DEF Gate, Refuse, BuySendFails, CannotProtect, Flatten, Freeze, RouteTypeOK
    <2>2. EarlyInv'
      BY <1>0, <1>e, <2>1 DEF EarlyInv
    <2> QED
      BY <1>0, <1>a, <1>k, <2>1, <2>2 DEF KInv
  <1>2. CASE BuySend(b)
    <2>1. PICK x \in Executions(BuyQty), heard \in BOOLEAN :
             /\ BuyMarket(b, x)
             /\ Goto(b, "gated", IF heard THEN AfterAnswer(x, "protect") ELSE "unknown")
      BY <1>2 DEF BuySend
    <2>2. x.done \in Nat /\ x.rest \in Nat
      BY ExecutionBound, QuantityAssumption DEF Qty
    <2>3. /\ free' = free + x.done /\ filled'[b] = x.done /\ oco' = oco
          /\ pc[b] = "gated" /\ pc'[b] \in {"cancel", "protect", "returned", "unknown"}
      BY <1>0, <2>1 DEF BuyMarket, AfterAnswer, SharedTypeOK, RouteTypeOK
    <2>4. EarlyInv'
      BY <1>0, <1>e, <2>2, <2>3 DEF EarlyInv
    <2>5. ~Guarded(b)'
      BY <1>e, <2>3 DEF Guarded
    <2> QED
      BY <1>a, <1>v, <2>4, <2>5 DEF KInv
  <1>3. CASE CancelResidual(b, "protect")
    <2>1. /\ UNCHANGED <<free, filled, oco>> /\ pc[b] = "cancel" /\ pc'[b] = "protect"
      BY <1>0, <1>3 DEF CancelResidual, CancelRest, RouteTypeOK
    <2>2. EarlyInv' /\ ~Guarded(b)'
      BY <1>0, <1>e, <2>1 DEF EarlyInv, Guarded
    <2> QED
      BY <1>a, <1>v, <2>2 DEF KInv
  <1>4. CASE Protect(b)
    <2>1. /\ UNCHANGED <<got, filled, posStatus, posQty>> /\ pc[b] = "protect"
          /\ pc'[b] \in {"opening", "flatten"} /\ ProtectQty(b) > 0
          /\ \/ oco'[b] = "active" /\ free >= ProtectQty(b) /\ free' = free - ProtectQty(b)
             \/ UNCHANGED <<oco, free>>
      BY <1>0, <1>4 DEF Protect, Flatten, PlaceOco, SharedTypeOK, RouteTypeOK
    <2>2. EarlyInv'
      BY <1>0, <2>1 DEF EarlyInv
    <2>3. CASE UNCHANGED <<oco, free>>
      BY <1>a, <1>e, <1>v, <2>1, <2>2, <2>3 DEF KInv, Guarded
    <2>4. CASE oco'[b] = "active" /\ free >= ProtectQty(b) /\ free' = free - ProtectQty(b)
      <3>1. posStatus[b] = "none"
        BY <1>n, <2>1
      <3>2. /\ \A s \in Sells : pc[s] \notin {"ready", "cancel", "reduce", "close"}
            /\ todo = {} /\ cur = {} /\ Coins = free
        BY <3>1, NoPosition
      <3>3. Coins' = free - ProtectQty(b)
        BY <1>0, <1>o, <1>q, <1>x, <2>4, <3>2
      <3>4. Guarded(b)' => free <= got[b]
        BY <1>e, <2>1 DEF Guarded
      <3>5. got[b] - ProtectQty(b) < ProtectQty(b)
        BY <1>0, <1>q, <2>1, FloorRest
      <3>6. ProtectQty(b)' = ProtectQty(b)
        BY <2>1 DEF ProtectQty
      <3>7. Guarded(b)' => ProtectQty(b)' > Coins'
        BY <1>0, <1>q, <3>3, <3>4, <3>5, <3>6
      <3>8. Guarded(b)' => Claims(b)'
        BY <1>s, <2>1, <3>1, <3>2, <3>7 DEF Claims
      <3> QED
        BY <1>0, <1>a, <2>2, <3>8 DEF KInv, GuardInv
    <2> QED
      BY <2>1, <2>3, <2>4
  <1>5. CASE OpenPosition(b)
    <2>1. /\ UNCHANGED <<got, free, filled, rest, oco>>
          /\ pc[b] = "opening" /\ pc'[b] = "opened"
          /\ posStatus'[b] = "OPEN" /\ posQty'[b] = ProtectQty(b)
      BY <1>0, <1>5 DEF OpenPosition, CreatePosition, SharedTypeOK, RouteTypeOK
    <2>2. EarlyInv'
      BY <1>0, <2>1 DEF EarlyInv
    <2>3. /\ \A s \in Sells : pc[s] \notin {"ready", "cancel", "reduce", "close"}
          /\ todo = {} /\ cur = {}
      BY <1>n, <2>1, NoPosition
    <2>4. Guarded(b)' => ProtectQty(b) > Coins'
      BY <1>o, <1>x, <2>1 DEF KInv, GuardInv, Guarded, Claims
    <2>5. Guarded(b)' => Claims(b)'
      BY <1>s, <2>1, <2>3, <2>4 DEF Claims
    <2> QED
      BY <1>0, <1>a, <2>2, <2>5 DEF KInv, GuardInv
  <1>6. CASE FlattenSend(b)
    <2>1. /\ UNCHANGED <<got, filled, oco, posStatus, posQty>>
          /\ pc'[b] \in {"flattened", "freeze"} /\ free' <= free /\ free' \in Nat
      <3>1. ask[b] \in Nat
        BY <1>0, QtyIsNat DEF RouteTypeOK
      <3>2. \A e \in 0..ask[b] : free >= ask[b] => free - e \in Nat /\ free - e <= free
        BY <1>0, <3>1
      <3> QED
        BY <1>0, <1>6, <3>2 DEF FlattenSend, SellOff, RouteTypeOK
    <2>2. EarlyInv'
      BY <1>0, <2>1 DEF EarlyInv
    <2> QED
      BY <1>a, <1>k, <2>1, <2>2 DEF KInv
  <1> QED
    BY <1>1, <1>2, <1>3, <1>4, <1>5, <1>6 DEF BuyStep

-----------------------------------------------------------------------------
(* Steps of a SELL.                                                        *)

LEMMA SellGuard ==
  ASSUME IInv, JInv, JInv', KInv, OneBuyOnly,
         NEW s \in Sells, SellStep(s), UNCHANGED <<monitor, beyond, env>>
  PROVE  KInv'
  <1> USE DEF shared, market, table, monitor, Goto
  <1>p. PICK b \in Buys : Buys = {b}
    <2>1. Buys # {}
      BY FS_EmptySet DEF OneBuyOnly
    <2> QED
      BY <2>1, OnlyBuy
  <1>0. /\ SharedTypeOK /\ RouteTypeOK /\ s \in Requests /\ b \in Requests /\ b # s
        /\ rest[s] \in Nat /\ got[s] \in Nat /\ free \in Nat /\ ask[s] \in Qty
    <2>1. SharedTypeOK /\ RouteTypeOK
      BY DEF JInv, TypeOK
    <2>2. s \in Requests /\ b \in Requests /\ b # s
      BY RequestAssumption DEF Requests
    <2>3. rest[s] \in Qty /\ free \in Nat
      BY <2>1, <2>2 DEF SharedTypeOK
    <2>4. got[s] \in Qty /\ ask[s] \in Qty
      BY <2>1, <2>2 DEF RouteTypeOK
    <2> QED
      BY <2>1, <2>2, <2>3, <2>4, QtyIsNat
  <1>x. Coins \in Nat /\ Cardinality(Offered) \in Nat /\ Coins = free + Cardinality(Offered)
    BY OfferedFinite DEF JInv, Coins
  <1>h. pc[s] \in {"ready", "cancel", "reduce", "close"} =>
           /\ held[s] # None /\ held[s].pos = b /\ held[s].qty \in Nat
           /\ posStatus[b] # "none" /\ pc[b] = "opened"
    <2>1. pc[s] \in {"ready", "cancel", "reduce", "close"} =>
             held[s] # None /\ held[s].pos \in Buys /\ held[s].qty \in Nat
      BY <1>0, QtyIsNat DEF IInv, SellInv, RouteTypeOK, Held
    <2> QED
      BY <1>p, <2>1 DEF IInv, SellInv, BuyInv
  <1>b. /\ filled'[b] = filled[b] /\ rest'[b] = rest[b] /\ got'[b] = got[b] /\ pc'[b] = pc[b]
        /\ \A t \in Sells \ {s} : /\ pc'[t] = pc[t] /\ got'[t] = got[t]
                                  /\ rest'[t] = rest[t] /\ held'[t] = held[t]
    BY <1>0 DEF SellStep, Gate, Refuse, SellBalance, SellRead, SellSend, SellMarket,
                SellSendFails, CancelResidual, CancelRest, ReducePosition, SellUnprotect,
                CancelOco, SellClose, ClosePosition, SharedTypeOK, RouteTypeOK, Requests
  <1>u. ProtectQty(b)' = ProtectQty(b)
    BY <1>b DEF ProtectQty
  <1>e. ASSUME (free' = free /\ oco' = oco) \/ pc[b] = "opened"
        PROVE  EarlyInv'
    BY <1>b, <1>e, <1>p DEF KInv, EarlyInv
  <1>o. ASSUME held'[s] = held[s] \/ rest'[s] = 0, rest'[s] = 0 \/ rest'[s] = rest[s] \/ held[s] # None
        PROVE  OfferInv'
    BY <1>0, <1>b, <1>o DEF KInv, OfferInv
  <1>v. ASSUME ~Guarded(b)' PROVE GuardInv'
    BY <1>p, <1>v DEF GuardInv
  <1>w. UNCHANGED <<todo, cur, mpc>>
    OBVIOUS
  <1>k. ASSUME Coins' <= Coins, UNCHANGED <<oco, posStatus>>,
               posStatus[b] # "none" /\ Guarded(b) => posQty'[b] = posQty[b] \/ posQty'[b] > Coins',
               Guarded(b) /\ pc'[s] \in {"ready", "cancel", "reduce"} =>
                  \/ /\ pc[s] \in {"ready", "cancel", "reduce"}
                     /\ held'[s] = held[s] /\ got'[s] = got[s]
                  \/ held'[s].qty - got'[s] > Coins',
               Guarded(b) => pc'[s] # "close"
        PROVE  GuardInv'
    <2>1. Guarded(b)' => Guarded(b)
      BY <1>b, <1>k DEF Guarded
    <2>2. Guarded(b) => Claims(b)
      BY DEF KInv, GuardInv
    <2>3. Guarded(b) => Claims(b)'
      <3>1. ASSUME Guarded(b) PROVE Claims(b)'
        BY <1>b, <1>k, <1>w, <2>2, <3>1, ClaimsKeep
      <3> QED
        BY <3>1
    <2> QED
      BY <1>p, <2>1, <2>3 DEF GuardInv
  <1>s. ASSUME free' = free, rest' = rest PROVE Coins' = Coins
    BY <1>s, OfferedSame DEF Coins
  <1>1. CASE Gate(s) \/ Refuse(s) \/ SellBalance(s) \/ SellSendFails(s)
    <2>1. /\ UNCHANGED <<free, rest, oco, posStatus, posQty>> /\ held'[s] = held[s]
          /\ pc'[s] \in {"refused", "gated", "balanced", "unknown"}
      BY <1>0, <1>1 DEF Gate, Refuse, SellBalance, SellSendFails, RouteTypeOK
    <2>2. Coins' <= Coins
      BY <1>s, <1>x, <2>1
    <2> QED
      BY <1>e, <1>k, <1>o, <2>1, <2>2 DEF KInv
  <1>2. CASE SellRead(s)
    <2>1. /\ UNCHANGED <<free, rest, oco, posStatus, posQty, got>> /\ pc[s] = "balanced"
          /\ \E p \in Open : held' = [held EXCEPT ![s] = [pos |-> p, qty |-> posQty[p]]]
      BY <1>2 DEF SellRead, OldestOpen
    <2>2. /\ posStatus[b] # "none" /\ held'[s] = [pos |-> b, qty |-> posQty[b]]
          /\ posQty[b] \in Nat /\ got[s] = 0
      BY <1>0, <1>p, <2>1, QtyIsNat DEF Open, SharedTypeOK, RouteTypeOK, IInv, SellInv
    <2>3. Coins' = Coins /\ Coins' <= Coins
      BY <1>s, <1>x, <2>1
    <2>4. Guarded(b) => held'[s].qty - got'[s] > Coins'
      BY <1>x, <2>1, <2>2, <2>3 DEF KInv, GuardInv, Claims
    <2>5. GuardInv'
      <3>1. Guarded(b) => pc'[s] # "close"
        BY <1>0, <1>2 DEF SellRead, RouteTypeOK
      <3> QED
        BY <1>k, <2>1, <2>3, <2>4, <3>1
    <2>6. held'[s] # None
      BY <2>2, NoneAssumption
    <2>7. OfferInv'
      BY <1>b, <2>1, <2>6 DEF KInv, OfferInv
    <2> QED
      BY <1>e, <2>1, <2>5, <2>7 DEF KInv
  <1>3. CASE SellSend(s)
    <2>1. PICK x \in Executions(ask[s]), heard \in BOOLEAN :
             /\ SellMarket(s, ask[s], x)
             /\ Goto(s, "ready", IF heard THEN AfterAnswer(x, "reduce") ELSE "unknown")
             /\ got' = IF heard THEN [got EXCEPT ![s] = x.done] ELSE got
             /\ UNCHANGED <<ask, held, table, kill>>
      BY <1>3 DEF SellSend
    <2>2. x.done \in Nat /\ x.rest \in Nat /\ x.rest \in Qty
      BY <1>0, ExecutionBound
    <2>3. /\ pc[s] = "ready" /\ UNCHANGED <<held, oco, posStatus, posQty>>
          /\ free' = free - x.done - x.rest /\ rest' = [rest EXCEPT ![s] = x.rest]
          /\ \/ got'[s] = x.done /\ pc'[s] \in {"cancel", "reduce", "returned"}
             \/ pc'[s] = "unknown"
      BY <1>0, <2>1 DEF SellMarket, AfterAnswer, RouteTypeOK
    <2>4. Cardinality(Offered') = Cardinality(Offered) - rest[s] + x.rest
      BY <2>2, <2>3, OfferedMove DEF JInv
    <2>5. Coins' = Coins - x.done - rest[s]
      BY <1>0, <1>x, <2>2, <2>3, <2>4 DEF Coins
    <2>6. Coins' <= Coins /\ Coins' <= Coins - x.done
      BY <1>0, <1>x, <2>2, <2>5
    <2>7. Guarded(b) => held[s].qty > Coins
      <3>1. got[s] = 0
        BY <2>3 DEF IInv, SellInv
      <3> QED
        BY <1>h, <2>3, <3>1 DEF KInv, GuardInv, Claims
    <2>8. Guarded(b) /\ pc'[s] \in {"ready", "cancel", "reduce"} => held'[s].qty - got'[s] > Coins'
      <3>1. Coins' \in Int
        BY <1>0, <1>x, <2>2, <2>5
      <3> QED
        BY <1>h, <1>x, <2>2, <2>3, <2>6, <2>7, <3>1
    <2>9. GuardInv'
      BY <1>k, <2>3, <2>6, <2>8
    <2> QED
      BY <1>e, <1>h, <1>o, <2>3, <2>9 DEF KInv
  <1>4. CASE CancelResidual(s, "reduce")
    <2>1. /\ pc[s] = "cancel" /\ pc'[s] = "reduce"
          /\ UNCHANGED <<got, held, oco, posStatus, posQty>>
          /\ \/ rest' = [rest EXCEPT ![s] = 0] /\ free' = free + rest[s]
             \/ UNCHANGED <<rest, free>>
      BY <1>0, <1>4 DEF CancelResidual, CancelRest, RouteTypeOK
    <2>2. Coins' <= Coins
      <3>1. CASE UNCHANGED <<rest, free>>
        BY <1>s, <1>x, <3>1
      <3>2. CASE rest' = [rest EXCEPT ![s] = 0] /\ free' = free + rest[s]
        <4>1. 0 \in Qty
          BY QuantityAssumption DEF Qty
        <4>2. Cardinality(Offered') = Cardinality(Offered) - rest[s] + 0
          BY <3>2, <4>1, OfferedMove DEF JInv
        <4> QED
          BY <1>0, <1>x, <3>2, <4>2 DEF Coins
      <3> QED
        BY <2>1, <3>1, <3>2
    <2> QED
      BY <1>e, <1>h, <1>k, <1>o, <2>1, <2>2 DEF KInv
  <1>5. CASE ReducePosition(s)
    <2>1. /\ pc[s] = "reduce" /\ pc'[s] = "returned"
          /\ UNCHANGED <<got, held, free, rest, oco, posStatus>>
          /\ posQty' = [posQty EXCEPT ![held[s].pos] = held[s].qty - got[s]]
      BY <1>0, <1>5 DEF ReducePosition, RouteTypeOK
    <2>2. Coins' = Coins /\ Coins' <= Coins
      BY <1>s, <1>x, <2>1
    <2>3. posQty'[b] = held[s].qty - got[s]
      BY <1>0, <1>h, <2>1 DEF SharedTypeOK
    <2>4. Guarded(b) => posQty'[b] > Coins'
      BY <2>1, <2>2, <2>3 DEF KInv, GuardInv, Claims
    <2> QED
      BY <1>e, <1>k, <1>o, <2>1, <2>2, <2>4 DEF KInv
  <1>6. CASE SellUnprotect(s)
    <2>1. /\ pc[s] = "reduce" /\ SoldOut(s) /\ UNCHANGED <<held, rest>>
          /\ oco' = oco \/ oco'[b] = "cancelled"
      BY <1>0, <1>6, <1>h DEF SellUnprotect, CancelOco, SharedTypeOK
    <2>2. ~Guarded(b)
      <3>1. ~(held[s].qty - got[s] > Coins)
        BY <1>0, <1>h, <1>x, <2>1 DEF SoldOut
      <3> QED
        BY <2>1, <3>1 DEF KInv, GuardInv, Claims
    <2>3. ~Guarded(b)'
      BY <1>b, <2>1, <2>2 DEF Guarded
    <2> QED
      BY <1>e, <1>h, <1>o, <1>v, <2>1, <2>3 DEF KInv
  <1>7. CASE SellClose(s)
    <2>1. pc[s] = "close" /\ UNCHANGED <<held, rest, oco, free>>
      BY <1>7 DEF SellClose
    <2>2. ~Guarded(b)'
      BY <1>b, <2>1 DEF Guarded, KInv, GuardInv, Claims
    <2> QED
      BY <1>e, <1>o, <1>v, <2>1, <2>2 DEF KInv
  <1> QED
    BY <1>1, <1>2, <1>3, <1>4, <1>5, <1>6, <1>7 DEF SellStep

-----------------------------------------------------------------------------
(* Steps of the monitor, the exchange, the operator and a restart.         *)

LEMMA MonitorGuard ==
  ASSUME IInv, JInv, JInv', KInv, OneBuyOnly, MonitorNext
  PROVE  KInv'
  <1> USE DEF shared, market, table, route, monitor, env, Idle
  <1>p. PICK b \in Buys : Buys = {b}
    <2>1. Buys # {}
      BY FS_EmptySet DEF OneBuyOnly
    <2> QED
      BY <2>1, OnlyBuy
  <1>0. /\ SharedTypeOK /\ MonitorTypeOK /\ free \in Nat
        /\ MonitorStep /\ UNCHANGED <<pc, got, held>>
    BY DEF MonitorNext, JInv, TypeOK, SharedTypeOK
  <1>x. Coins \in Nat /\ Cardinality(Offered) \in Nat /\ Coins = free + Cardinality(Offered)
    BY OfferedFinite DEF JInv, Coins
  <1>m. UNCHANGED <<filled, rest>>
    BY <1>0 DEF MonitorStep, MonSelect, MonTickEnds, MonSkip, MonRead, MonClose, ClosePosition,
                MonUnprotect, CancelOco, MonFile, MonSell, SellOff, MonSellFails, MonFreeze
  <1>o. OfferInv' /\ Coins' = free' + Cardinality(Offered)
    BY <1>0, <1>m, OfferedSame DEF KInv, OfferInv, Coins
  <1>c. cur # {} => posStatus[b] # "none" /\ pc[b] = "opened" /\ \A i \in cur : i.pos = b
    BY <1>p DEF IInv, MonInv, BuyInv
  <1>e. ASSUME (free' = free /\ oco' = oco) \/ cur # {}
        PROVE  EarlyInv'
    BY <1>0, <1>c, <1>e, <1>m, <1>p DEF KInv, EarlyInv
  <1>v. ASSUME ~Guarded(b)' PROVE GuardInv'
    BY <1>p, <1>v DEF GuardInv
  <1>k. ASSUME UNCHANGED <<free, oco, posStatus, posQty>>,
               todo' \subseteq todo \cup cur, cur' \subseteq todo \cup cur, mpc' # "close"
        PROVE  GuardInv'
    <2>1. Coins' = Coins /\ Coins' <= Coins
      BY <1>k, <1>o, <1>x
    <2>2. Guarded(b)' => Guarded(b)
      BY <1>0, <1>k, <1>m DEF Guarded
    <2>3. Claims(b) => Claims(b)'
      BY <1>0, <1>k, <2>1, ClaimsKeep
    <2> QED
      BY <1>p, <2>2, <2>3 DEF KInv, GuardInv
  <1>1. CASE MonSelect
    <2>1. /\ UNCHANGED <<free, oco, posStatus, posQty>> /\ mpc' = "each" /\ cur' = {}
          /\ todo' = {[pos |-> c, qty |-> posQty[c]] : c \in Open} /\ Open # {}
      BY <1>1 DEF MonSelect
    <2>2. posStatus[b] # "none" /\ \A i \in todo' : i.qty = posQty[b]
      BY <1>p, <2>1 DEF Open
    <2>3. Coins' = Coins
      BY <1>o, <1>x, <2>1
    <2>4. ASSUME Guarded(b)' PROVE Claims(b)'
      <3>1. Claims(b)
        BY <1>0, <1>m, <2>1, <2>4 DEF Guarded, KInv, GuardInv
      <3>2. ProtectQty(b)' = ProtectQty(b)
        BY <1>0 DEF ProtectQty
      <3> QED
        BY <1>0, <2>1, <2>2, <2>3, <3>1, <3>2 DEF Claims
    <2> QED
      BY <1>e, <1>o, <1>p, <2>1, <2>4 DEF KInv, GuardInv
  <1>2. CASE MonTickEnds \/ \E i \in todo : MonSkip(i) \/ MonRead(i)
    <2>1. /\ UNCHANGED <<free, oco, posStatus, posQty>>
          /\ todo' \subseteq todo \cup cur
      BY <1>2 DEF MonTickEnds, MonSkip, MonRead
    <2>2. cur' \subseteq todo \cup cur /\ mpc' # "close"
      BY <1>2 DEF MonTickEnds, MonSkip, MonRead
    <2> QED
      BY <1>e, <1>k, <1>o, <2>1, <2>2 DEF KInv
  <1>3. ASSUME NEW i \in cur, MonClose(i) PROVE KInv'
    <2>1. UNCHANGED <<free, oco>> /\ mpc \in {"reconcile", "close"} /\ i.pos = b
      BY <1>3, <1>c DEF MonClose
    <2>2. ~Guarded(b)
      BY <1>3, <2>1 DEF IInv, MonInv, KInv, GuardInv, Guarded, Claims
    <2>3. ~Guarded(b)'
      BY <1>0, <1>m, <2>1, <2>2 DEF Guarded
    <2> QED
      BY <1>e, <1>o, <1>v, <2>1, <2>3 DEF KInv
  <1>4. ASSUME NEW i \in cur, MonUnprotect(i, ProtectQty(i.pos)) PROVE KInv'
    <2>1. /\ UNCHANGED <<posStatus, posQty, todo, cur>> /\ mpc' = "file"
          /\ (UNCHANGED <<free, oco>>) \/ oco'[b] = "cancelled"
      BY <1>0, <1>4, <1>c DEF MonUnprotect, CancelOco, SharedTypeOK
    <2>2. CASE UNCHANGED <<free, oco>>
      BY <1>4, <1>e, <1>k, <1>o, <2>1, <2>2 DEF KInv
    <2>3. CASE oco'[b] = "cancelled"
      BY <1>4, <1>e, <1>o, <1>v, <2>3 DEF KInv, Guarded
    <2> QED
      BY <2>1, <2>2, <2>3
  <1>5. ASSUME NEW i \in cur, MonFile(i) \/ MonSellFails(i) \/ MonFreeze(i) PROVE KInv'
    <2>1. /\ UNCHANGED <<free, oco, posStatus, posQty, todo>> /\ mpc' # "close"
          /\ cur' \subseteq cur
      BY <1>5 DEF MonFile, MonSellFails, MonFreeze
    <2> QED
      BY <1>e, <1>k, <1>o, <2>1 DEF KInv
  <1>6. ASSUME NEW i \in cur, MonSell(i) PROVE KInv'
    <2>1. oco' = oco /\ free >= i.qty /\ i.qty \in Nat
      BY <1>0, <1>6, QtyIsNat DEF MonSell, SellOff, MonitorTypeOK, Item
    <2>2. ~Guarded(b)
      BY <1>6, <1>x, <1>0, <2>1 DEF KInv, GuardInv, Claims
    <2>3. ~Guarded(b)'
      BY <1>0, <1>m, <2>1, <2>2 DEF Guarded
    <2> QED
      BY <1>6, <1>e, <1>o, <1>v, <2>3 DEF KInv
  <1> QED
    BY <1>0, <1>1, <1>2, <1>3, <1>4, <1>5, <1>6 DEF MonitorStep

LEMMA WorldGuard ==
  ASSUME IInv, JInv, JInv', KInv, OneBuyOnly,
         \/ ExchangeNext \/ (PriceMoves /\ UNCHANGED <<route, env>>)
         \/ SetKillSwitch \/ Restart \/ UNCHANGED vars
  PROVE  KInv'
  <1> USE DEF shared, market, table, route, monitor, env, vars
  <1>p. PICK b \in Buys : Buys = {b}
    <2>1. Buys # {}
      BY FS_EmptySet DEF OneBuyOnly
    <2> QED
      BY <2>1, OnlyBuy
  <1>0. /\ SharedTypeOK /\ RouteTypeOK /\ free \in Nat /\ b \in Requests /\ b \notin Sells
        /\ \A r \in Requests : filled[r] \in Nat /\ rest[r] \in Nat
        /\ got[b] \in Nat /\ got[b] <= filled[b]
    BY QtyIsNat, RequestAssumption
       DEF JInv, TypeOK, SharedTypeOK, RouteTypeOK, Requests, BoughtInv
  <1>x. Coins \in Nat /\ Cardinality(Offered) \in Nat /\ Coins = free + Cardinality(Offered)
    BY OfferedFinite DEF JInv, Coins
  <1>e. /\ pc[b] \in {"start", "gated", "cancel", "protect"} => free <= filled[b] /\ oco[b] = "none"
        /\ pc[b] \in {"start", "gated"} => filled[b] = 0 /\ rest[b] = 0
    BY DEF KInv, EarlyInv
  <1>k. ASSUME Coins' <= Coins, Guarded(b)' => Guarded(b),
               pc'[b] = "opening" => pc[b] = "opening",
               \A s \in Sells : pc'[s] \in {"ready", "cancel", "reduce", "close"} => pc'[s] = pc[s],
               UNCHANGED <<got, held, posStatus, posQty>>,
               todo' \subseteq todo, cur' \subseteq cur, cur' # {} => mpc' = mpc
        PROVE  GuardInv'
    <2>1. Claims(b) => Claims(b)'
      BY <1>k, ClaimsKeep
    <2> QED
      BY <1>k, <1>p, <2>1 DEF KInv, GuardInv
  <1>1. ASSUME NEW r \in Requests, RestFills(r),
               UNCHANGED <<table, kill, route, monitor, beyond, env>>
        PROVE  KInv'
    <2>1. /\ rest[r] > 0 /\ oco' = oco
          /\ filled' = [filled EXCEPT ![r] = @ + rest[r]] /\ rest' = [rest EXCEPT ![r] = 0]
          /\ free' = IF r \in Buys THEN free + rest[r] ELSE free
      BY <1>1 DEF RestFills
    <2>2. OfferInv'
      BY <1>1, <2>1 DEF KInv, OfferInv, SharedTypeOK, JInv, TypeOK, Requests
    <2>3. CASE r = b
      <3>1. filled'[b] = filled[b] + rest[b] /\ free' = free + rest[b]
        BY <1>0, <2>1, <2>3 DEF SharedTypeOK
      <3>2. EarlyInv'
        BY <1>0, <1>1, <1>e, <1>p, <2>1, <2>3, <3>1 DEF EarlyInv
      <3>3. ~Guarded(b)'
        BY <1>0, <1>1, <2>1, <2>3, <3>1 DEF Guarded
      <3>4. GuardInv'
        BY <1>p, <3>3 DEF GuardInv
      <3> QED
        BY <2>2, <3>2, <3>4 DEF KInv
    <2>4. CASE r # b
      <3>1. r \in Sells /\ r \notin Buys
        BY <1>p, <2>4, RequestAssumption DEF Requests
      <3>2. filled'[b] = filled[b] /\ rest'[b] = rest[b] /\ free' = free
        BY <1>0, <2>1, <2>4, <3>1 DEF SharedTypeOK
      <3>3. EarlyInv'
        BY <1>1, <1>e, <1>p, <2>1, <3>2 DEF EarlyInv
      <3>4. Coins' <= Coins
        <4>1. 0 \in Qty
          BY QuantityAssumption DEF Qty
        <4>2. Cardinality(Offered') = Cardinality(Offered) - rest[r] + 0
          BY <2>1, <3>1, <4>1, OfferedMove DEF JInv
        <4> QED
          BY <1>0, <1>x, <3>2, <4>2 DEF Coins
      <3>5. Guarded(b)' => Guarded(b)
        BY <1>1, <2>1, <3>2 DEF Guarded
      <3> QED
        BY <1>1, <1>k, <2>2, <3>3, <3>4, <3>5 DEF KInv
    <2> QED
      BY <2>3, <2>4
  <1>2. ASSUME NEW c \in Buys, OcoFills(c),
               UNCHANGED <<table, kill, route, monitor, beyond, env>>
        PROVE  KInv'
    <2>1. c = b /\ oco[b] = "active" /\ oco'[b] = "filled" /\ UNCHANGED <<free, filled, rest>>
      BY <1>0, <1>2, <1>p DEF OcoFills, SharedTypeOK
    <2>2. EarlyInv' /\ OfferInv'
      BY <1>2, <1>e, <1>p, <2>1 DEF KInv, EarlyInv, OfferInv
    <2>3. GuardInv'
      BY <1>p, <2>1 DEF GuardInv, Guarded
    <2> QED
      BY <2>2, <2>3 DEF KInv
  <1>3. CASE \/ (PriceMoves /\ UNCHANGED <<route, env>>) \/ SetKillSwitch \/ Restart \/ UNCHANGED vars
    <2>1. /\ UNCHANGED <<market, got, held, posStatus, posQty>>
          /\ \A r \in Requests : pc'[r] = pc[r] \/ pc'[r] = "crashed"
          /\ todo' \subseteq todo /\ cur' \subseteq cur /\ (cur' # {} => mpc' = mpc)
      BY <1>3 DEF PriceMoves, SetKillSwitch, Restart, RouteRestart, MonitorRestart
    <2>2. EarlyInv' /\ OfferInv'
      BY <1>0, <1>e, <1>p, <2>1 DEF KInv, EarlyInv, OfferInv
    <2>3. Coins' = Coins /\ Coins' <= Coins
      BY <1>x, <2>1, OfferedSame DEF Coins
    <2>4. Guarded(b)' => Guarded(b)
      BY <2>1 DEF Guarded
    <2>5. /\ pc'[b] = "opening" => pc[b] = "opening"
          /\ \A s \in Sells : pc'[s] \in {"ready", "cancel", "reduce", "close"} => pc'[s] = pc[s]
      BY <1>0, <2>1 DEF Requests
    <2> QED
      BY <1>k, <2>1, <2>2, <2>3, <2>4, <2>5 DEF KInv
  <1> QED
    BY <1>1, <1>2, <1>3 DEF ExchangeNext, ExchangeStep

-----------------------------------------------------------------------------
LEMMA InitKInv == ASSUME OneBuyOnly, Init PROVE KInv
  <1> USE DEF Init, SharedInit, RouteInit, MonitorInit
  <1>1. EarlyInv
    BY DEF EarlyInv, OneBuyOnly, Requests
  <1>2. OfferInv
    BY DEF OfferInv, Requests
  <1>3. GuardInv
    BY DEF GuardInv, Guarded
  <1> QED
    BY <1>1, <1>2, <1>3 DEF KInv

\* For any quantity, lot step and number of SELLs: as long as the OCO holds
\* the coins of a BUY that executed what its handler heard, no SELL, no exit of
\* the monitor and no write of theirs closes the position over it.
THEOREM NoOrphan ==
  ASSUME OneBuyOnly
  PROVE  Spec => []NoOrphanedProtection
  <1>1. IInv /\ JInv /\ JInv' /\ KInv /\ [Next]_vars => KInv'
    BY BuyGuard, SellGuard, MonitorGuard, WorldGuard DEF Next, RouteNext
  <1>2. JInv /\ KInv => NoOrphanedProtection
    <2> SUFFICES ASSUME JInv, KInv, NEW b \in Buys, posStatus[b] = "CLOSED", oco[b] = "active"
                 PROVE  filled[b] > got[b]
      BY DEF NoOrphanedProtection
    <2>1. filled[b] # got[b]
      BY DEF KInv, GuardInv, Guarded, Claims
    <2>2. got[b] <= filled[b] /\ got[b] \in Nat /\ filled[b] \in Nat
      BY QtyIsNat DEF JInv, BoughtInv, TypeOK, SharedTypeOK, RouteTypeOK, Requests
    <2> QED
      BY <2>1, <2>2
  <1>3. Init => KInv
    BY InitKInv
  <1> QED
    BY <1>1, <1>2, <1>3, Inductive, Inductive2, PTL DEF Spec
=============================================================================
