--------------------------- MODULE RiskGateProofs ---------------------------
(***************************************************************************)
(* Proofs about RiskGate, for any number of orders and checks, any prices, *)
(* limits and number of days.                                              *)
(***************************************************************************)
EXTENDS RiskGate, FiniteSetTheorems, TLAPS

\* A verdict's yardstick is in the table, where nothing moves it.
Yardstick ==
    \A c \in Callers :
        pc[c] \in {"judged", "loss"} =>
            /\ baseline[since[c]] # None
            /\ base[c] = baseline[since[c]]

\* The overlap counted so far is at least the present one.
PeakSeen == Cardinality(Waiting) <= peak

IInv == TypeOK /\ Yardstick /\ PeakSeen /\ PositionsBounded

-----------------------------------------------------------------------------
LEMMA WaitingFinite ==
  /\ IsFiniteSet(Waiting)
  /\ Cardinality(Waiting) \in Nat
  <1>1. Waiting \subseteq Orders
    BY DEF Waiting
  <1>2. IsFiniteSet(Waiting)
    BY <1>1, OrdersAssumption, FS_Subset
  <1> QED
    BY <1>2, FS_CardinalityType

LEMMA NatProduct == ASSUME NEW a \in Nat, NEW b \in Nat PROVE a * b \in Nat
  OBVIOUS

LEMMA EquityIsNat ==
  ASSUME TypeOK, NEW c \in Callers
  PROVE  EquitySeen(c) \in Nat
  <1> DEFINE a == seen[c]
  <1>1. a \in Account
    BY DEF TypeOK
  <1>2. /\ a.cash \in Nat /\ a.coins \in Nat /\ a.locked \in Nat /\ a.price \in Nat
    BY <1>1, AccountAssumption DEF Account
  <1> HIDE DEF a
  <1>3. a.coins + a.locked \in Nat
    BY <1>2
  <1>4. a.coins * a.price \in Nat /\ (a.coins + a.locked) * a.price \in Nat
    BY <1>2, <1>3, NatProduct
  <1>5. LiveEquity(a) \in Nat /\ Equity(a) \in Nat
    BY <1>2, <1>4 DEF LiveEquity, Equity
  <1> QED
    BY <1>5 DEF EquitySeen, a

LEMMA BlankIsAccount == Blank \in Account
  BY AccountAssumption DEF Blank, Account

LEMMA InitIInv == Init => IInv
  <1> SUFFICES ASSUME Init PROVE IInv
    OBVIOUS
  <1>1. TypeOK
    BY BlankIsAccount, AccountAssumption DEF Init, TypeOK, PcStates
  <1>2. Yardstick
    BY DEF Init, Yardstick
  <1>3. Waiting = {}
    BY DEF Init, Waiting, Callers
  <1>4. Cardinality(Waiting) = 0
    BY <1>3, FS_EmptySet
  <1> QED
    BY <1>1, <1>2, <1>4 DEF IInv, PeakSeen, PositionsBounded, Init

-----------------------------------------------------------------------------
(* A step that moves nobody into or out of Waiting, opens no position and  *)
(* only adds to the table of baselines.                                    *)

BaselinesStay == \A d \in 1..Days : baseline[d] # None => baseline'[d] = baseline[d]

LEMMA NobodyWaitsOrOpens ==
  ASSUME IInv, TypeOK', Waiting' = Waiting, peak' = peak, positions' <= positions
  PROVE  PeakSeen' /\ PositionsBounded'
  BY WaitingFinite, LimitsAssumption DEF IInv, TypeOK, PeakSeen, PositionsBounded

LEMMA CallersKeep ==
  ASSUME IInv, NEW c \in Callers,
         ReadAccount(c) \/ SelectBaseline(c) \/ InsertBaseline(c) \/ Report(c)
  PROVE  IInv' /\ BaselinesStay
  <1> USE DEF Goto, account
  <1>0. TypeOK
    BY DEF IInv
  <1>1. CASE ReadAccount(c)
    <2>1. \A p \in Prices :
             [cash |-> cash, coins |-> coins, locked |-> locked, price |-> p] \in Account
      BY <1>0 DEF TypeOK, Account
    <2>2. TypeOK'
      BY <1>0, <1>1, <2>1 DEF TypeOK, ReadAccount, PcStates
    <2>3. Yardstick'
      BY <1>0, <1>1 DEF IInv, Yardstick, ReadAccount, TypeOK
    <2>4. Waiting' = Waiting
      BY <1>0, <1>1 DEF Waiting, ReadAccount, TypeOK
    <2> QED
      BY <1>0, <1>1, <2>2, <2>3, <2>4, NobodyWaitsOrOpens
         DEF IInv, ReadAccount, BaselinesStay, TypeOK
  <1>2. CASE SelectBaseline(c)
    <2>1. TypeOK'
      BY <1>0, <1>2 DEF TypeOK, SelectBaseline, PcStates
    <2>2. Yardstick'
      BY <1>0, <1>2 DEF IInv, Yardstick, SelectBaseline, TypeOK
    <2>3. Waiting' = Waiting
      BY <1>0, <1>2 DEF Waiting, SelectBaseline, TypeOK
    <2> QED
      BY <1>0, <1>2, <2>1, <2>2, <2>3, NobodyWaitsOrOpens
         DEF IInv, SelectBaseline, BaselinesStay, TypeOK
  <1>3. CASE InsertBaseline(c)
    <2> DEFINE d == IF c \in Orders THEN day ELSE since[c]
    <2>1. d \in 1..Days /\ EquitySeen(c) \in Nat /\ EquitySeen(c) # None
      BY <1>0, EquityIsNat, NoneAssumption DEF TypeOK
    <2> HIDE DEF d
    <2>2. /\ pc[c] = "absent"
          /\ since' = [since EXCEPT ![c] = d]
          /\ UNCHANGED <<day, account, seen, peak>>
          /\ \/ /\ baseline[d] = None
                /\ pc' = [pc EXCEPT ![c] = "judged"]
                /\ baseline' = [baseline EXCEPT ![d] = EquitySeen(c)]
                /\ base' = [base EXCEPT ![c] = EquitySeen(c)]
             \/ /\ baseline[d] # None
                /\ pc' = [pc EXCEPT ![c] = "judged"]
                /\ base' = [base EXCEPT ![c] = baseline[d]]
                /\ UNCHANGED baseline
             \/ /\ baseline[d] # None
                /\ pc' = [pc EXCEPT ![c] = "failed"]
                /\ UNCHANGED <<baseline, base>>
      BY <1>3 DEF InsertBaseline, d
    <2>3. TypeOK'
      BY <1>0, <2>1, <2>2 DEF TypeOK, PcStates
    <2>4. BaselinesStay
      BY <1>0, <2>1, <2>2 DEF BaselinesStay, TypeOK
    <2>5. Yardstick'
      <3>1. /\ since'[c] = d
            /\ pc'[c] = "judged" => baseline'[d] # None /\ base'[c] = baseline'[d]
            /\ pc'[c] \in {"judged", "failed"}
        BY <1>0, <2>1, <2>2 DEF TypeOK
      <3>2. \A e \in Callers \ {c} :
               pc'[e] = pc[e] /\ since'[e] = since[e] /\ base'[e] = base[e]
        BY <1>0, <2>2 DEF TypeOK
      <3> QED
        BY <1>0, <2>4, <3>1, <3>2 DEF IInv, Yardstick, BaselinesStay, TypeOK
    <2>6. Waiting' = Waiting
      <3>1. \A o \in Orders : pc'[o] = "passed" <=> pc[o] = "passed"
        BY <1>0, <2>2 DEF TypeOK, Callers
      <3> QED
        BY <3>1 DEF Waiting
    <2> QED
      BY <1>0, <2>2, <2>3, <2>4, <2>5, <2>6, NobodyWaitsOrOpens DEF IInv, TypeOK
  <1>4. CASE Report(c)
    <2>1. TypeOK'
      BY <1>0, <1>4, BlankIsAccount, AccountAssumption DEF TypeOK, Report, Forget, PcStates
    <2>2. Yardstick'
      BY <1>0, <1>4 DEF IInv, Yardstick, Report, Forget, TypeOK
    <2>3. Waiting' = Waiting
      BY <1>0, <1>4 DEF Waiting, Report, TypeOK
    <2> QED
      BY <1>0, <1>4, <2>1, <2>2, <2>3, NobodyWaitsOrOpens
         DEF IInv, Report, BaselinesStay, TypeOK
  <1> QED
    BY <1>1, <1>2, <1>3, <1>4

LEMMA DecideKeeps ==
  ASSUME IInv, NEW o \in Orders, Decide(o)
  PROVE  IInv' /\ BaselinesStay
  <1>0. TypeOK /\ o \in Callers
    BY DEF IInv, Callers
  <1>1. Verdict(o) \in {"limits", "loss", "passed"}
    BY DEF Verdict
  <1>2. /\ pc[o] = "judged" /\ pc' = [pc EXCEPT ![o] = Verdict(o)]
        /\ peak' = IF Cardinality(Waiting') > peak THEN Cardinality(Waiting') ELSE peak
        /\ \/ Verdict(o) = "loss" /\ UNCHANGED <<seen, since, base>>
           \/ Verdict(o) # "loss" /\ Forget(o)
        /\ UNCHANGED <<day, baseline, account>>
    BY DEF Decide, Goto
  <1>3. IsFiniteSet(Waiting') /\ Cardinality(Waiting') \in Nat
    <2>1. Waiting' \subseteq Orders
      BY DEF Waiting
    <2>2. IsFiniteSet(Waiting')
      BY <2>1, OrdersAssumption, FS_Subset
    <2> QED
      BY <2>2, FS_CardinalityType
  <1>4. TypeOK'
    <2>1. peak' \in Nat
      BY <1>0, <1>2, <1>3 DEF TypeOK
    <2>2. /\ seen' \in [Callers -> Account]
          /\ since' \in [Callers -> 1..Days]
          /\ base' \in [Callers -> Nat]
      <3>1. CASE UNCHANGED <<seen, since, base>>
        BY <1>0, <3>1 DEF TypeOK
      <3>2. CASE Forget(o)
        BY <1>0, <3>2, BlankIsAccount, AccountAssumption DEF TypeOK, Forget
      <3> QED
        BY <1>2, <3>1, <3>2
    <2>3. pc' \in [Callers -> PcStates]
      BY <1>0, <1>1, <1>2 DEF TypeOK, PcStates
    <2> QED
      BY <1>0, <1>2, <2>1, <2>2, <2>3 DEF TypeOK, account
  <1>5. Yardstick' /\ BaselinesStay
    BY <1>0, <1>1, <1>2 DEF IInv, Yardstick, BaselinesStay, Forget, TypeOK
  <1>6. PeakSeen'
    BY <1>0, <1>2, <1>3 DEF PeakSeen, TypeOK
  <1>7. CASE Verdict(o) = "passed" /\ Side[o] = "BUY"
    <2>1. positions < MaxPositions
      BY <1>7 DEF Verdict, WithinLimits
    <2>2. o \in Waiting'
      BY <1>0, <1>2, <1>7 DEF Waiting, TypeOK
    <2>3. Cardinality(Waiting') # 0
      BY <1>3, <2>2, FS_EmptySet
    <2>4. PositionsBounded'
      BY <1>0, <1>2, <1>3, <1>6, <2>1, <2>3, LimitsAssumption
         DEF PeakSeen, PositionsBounded, TypeOK, account
    <2> QED
      BY <1>4, <1>5, <1>6, <2>4 DEF IInv
  <1>8. CASE ~(Verdict(o) = "passed" /\ Side[o] = "BUY")
    <2>1. Waiting' = Waiting
      BY <1>0, <1>1, <1>2, <1>8 DEF Waiting, TypeOK
    <2>2. peak' = peak
      BY <1>0, <1>2, <1>3, <2>1 DEF IInv, PeakSeen, TypeOK
    <2>3. PositionsBounded'
      BY <1>2, <2>1, <2>2 DEF IInv, PositionsBounded, account
    <2> QED
      BY <1>4, <1>5, <1>6, <2>3 DEF IInv
  <1> QED
    BY <1>7, <1>8

LEMMA OrdersKeep ==
  ASSUME IInv, NEW o \in Orders, NEW p \in Prices, Fill(o, p) \/ NotFilled(o)
  PROVE  IInv' /\ BaselinesStay
  <1>0. TypeOK /\ o \in Callers
    BY DEF IInv, Callers
  <1>1. /\ pc[o] = "passed" /\ pc' = [pc EXCEPT ![o] = "done"]
        /\ UNCHANGED <<day, baseline, seen, since, base, peak>>
        /\ \/ /\ Side[o] = "BUY" /\ cash >= p
              /\ cash' = cash - p /\ locked' = locked + 1 /\ coins' = coins
              /\ positions' = positions + 1
           \/ /\ Side[o] = "SELL" /\ positions' = positions - 1 /\ positions >= 1
              /\ cash' = cash + p
              /\ \/ locked >= 1 /\ locked' = locked - 1 /\ coins' = coins
                 \/ coins >= 1 /\ coins' = coins - 1 /\ locked' = locked
           \/ UNCHANGED <<cash, coins, locked, positions>>
    BY DEF Fill, NotFilled, Goto, account
  <1>2. TypeOK'
    <2>1. /\ p \in Nat /\ cash \in Nat /\ coins \in Nat
          /\ locked \in Nat /\ positions \in Nat
      BY <1>0, AccountAssumption DEF TypeOK
    <2>2. cash' \in Nat /\ coins' \in Nat /\ locked' \in Nat /\ positions' \in Nat
      <3>1. CASE /\ cash >= p /\ cash' = cash - p /\ locked' = locked + 1
                 /\ coins' = coins /\ positions' = positions + 1
        BY <2>1, <3>1
      <3>2. CASE /\ positions' = positions - 1 /\ positions >= 1 /\ cash' = cash + p
                 /\ \/ locked >= 1 /\ locked' = locked - 1 /\ coins' = coins
                    \/ coins >= 1 /\ coins' = coins - 1 /\ locked' = locked
        BY <2>1, <3>2
      <3>3. CASE UNCHANGED <<cash, coins, locked, positions>>
        BY <2>1, <3>3
      <3> QED
        BY <1>1, <3>1, <3>2, <3>3
    <2>3. pc' \in [Callers -> PcStates]
      BY <1>0, <1>1 DEF TypeOK, PcStates
    <2>4. UNCHANGED <<day, baseline, seen, since, base, peak>>
      BY <1>1
    <2> QED
      BY <1>0, <2>2, <2>3, <2>4 DEF TypeOK
  <1>3. Yardstick' /\ BaselinesStay
    BY <1>0, <1>1 DEF IInv, Yardstick, BaselinesStay, TypeOK
  <1>4. CASE Side[o] = "SELL"
    <2>1. Waiting' = Waiting
      BY <1>0, <1>1, <1>4 DEF Waiting, TypeOK
    <2>2. positions' <= positions
      BY <1>0, <1>1, <1>4 DEF TypeOK
    <2> QED
      BY <1>1, <1>2, <1>3, <2>1, <2>2, NobodyWaitsOrOpens DEF IInv
  <1>5. CASE Side[o] = "BUY"
    <2>1. Waiting' = Waiting \ {o} /\ o \in Waiting
      BY <1>0, <1>1, <1>5 DEF Waiting, TypeOK
    <2>2. Cardinality(Waiting') = Cardinality(Waiting) - 1
      BY <2>1, WaitingFinite, FS_RemoveElement
    <2>3. positions' <= positions + 1
      BY <1>0, <1>1, <1>5 DEF TypeOK
    <2>4. Cardinality(Waiting) # 0
      BY <2>1, WaitingFinite, FS_EmptySet
    <2>5. PeakSeen' /\ PositionsBounded'
      <3>1. /\ peak' = peak /\ peak \in Nat
            /\ positions \in Nat /\ positions' \in Nat /\ MaxPositions \in Nat
        BY <1>0, <1>1, <1>2, LimitsAssumption DEF TypeOK
      <3>2. Cardinality(Waiting) \in Nat /\ Cardinality(Waiting) <= peak
        BY WaitingFinite DEF IInv, PeakSeen
      <3>3. positions + Cardinality(Waiting) <= MaxPositions + peak - 1
        BY <2>4, <3>1, <3>2 DEF IInv, PositionsBounded
      <3>4. Cardinality(Waiting') <= peak' /\ peak' # 0
        BY <2>2, <2>4, <3>1, <3>2
      <3>5. positions' + Cardinality(Waiting') <= MaxPositions + peak' - 1
        BY <2>2, <2>3, <3>1, <3>2, <3>3
      <3> QED
        BY <3>4, <3>5 DEF PeakSeen, PositionsBounded
    <2> QED
      BY <1>2, <1>3, <2>5 DEF IInv
  <1> QED
    BY <1>0, <1>4, <1>5, OrdersAssumption

LEMMA WorldKeeps ==
  ASSUME IInv, NEW p \in Prices,
         OcoExecutes(p) \/ MonitorCloses \/ Midnight \/ UNCHANGED vars
  PROVE  IInv' /\ BaselinesStay
  <1> USE DEF account
  <1>0. TypeOK
    BY DEF IInv
  <1>1. /\ TypeOK'
        /\ positions' <= positions
        /\ UNCHANGED <<baseline, pc, since, base, peak>>
    <2>1. p \in Nat
      BY AccountAssumption
    <2>2. CASE OcoExecutes(p)
      BY <1>0, <2>1, <2>2 DEF TypeOK, OcoExecutes
    <2>3. CASE MonitorCloses
      BY <1>0, <2>3 DEF TypeOK, MonitorCloses
    <2>4. CASE Midnight
      BY <1>0, <2>4, AccountAssumption DEF TypeOK, Midnight
    <2>5. CASE UNCHANGED vars
      BY <1>0, <2>5 DEF TypeOK, vars
    <2> QED
      BY <2>2, <2>3, <2>4, <2>5
  <1>2. Yardstick' /\ BaselinesStay /\ Waiting' = Waiting
    BY <1>1 DEF IInv, Yardstick, BaselinesStay, Waiting
  <1> QED
    BY <1>1, <1>2, NobodyWaitsOrOpens DEF IInv

LEMMA NextIInv ==
  ASSUME IInv, [Next]_vars
  PROVE  IInv' /\ BaselinesStay
  BY CallersKeep, DecideKeeps, OrdersKeep, WorldKeeps, AccountAssumption DEF Next, Decide

-----------------------------------------------------------------------------
\* The inductive invariant holds in every reachable state.
THEOREM Inductive == Spec => []IInv
  BY InitIInv, NextIInv, PTL DEF Spec

\* Every reachable state is well typed: no count, price or baseline leaves its
\* range, whatever the orders, the checks and the day do.
THEOREM TypeCorrect == Spec => []TypeOK
  <1>1. IInv => TypeOK
    BY DEF IInv
  <1> QED
    BY <1>1, Inductive, PTL

\* However orders and checks race for the first row of a day, and whenever the
\* day turns, a baseline once written stays.
THEOREM BaselineIsFixed == Spec => BaselineStands
  <1>1. IInv /\ [Next]_vars => [BaselinesStay]_vars
    BY NextIInv
  <1> QED
    BY <1>1, Inductive, PTL DEF Spec, BaselineStands, BaselinesStay

\* Every verdict is measured against the baseline of its day.
THEOREM OneYardstick == Spec => []JudgedByTheDay
  <1>1. IInv => JudgedByTheDay
    BY DEF IInv, Yardstick, JudgedByTheDay
  <1> QED
    BY <1>1, Inductive, PTL

\* The limit on open positions can be overrun only by the BUYs of one overlap.
THEOREM OverlapBound == Spec => []PositionsBounded
  <1>1. IInv => PositionsBounded
    BY DEF IInv
  <1> QED
    BY <1>1, Inductive, PTL
=============================================================================
