------------------------- MODULE TestnetTradeProofs -------------------------
(***************************************************************************)
(* Proofs about TestnetTrade, for any requests, users, credentials and     *)
(* quantities: equal requests reach the exchange once, a BUY is sold off   *)
(* once, and no position is closed unsold.                                 *)
(***************************************************************************)
EXTENDS TestnetTrade, FiniteSetTheorems, TLAPS

\* Handlers before their claim, between claim and answer, and at their end.
Unclaimed == {"idle", "keyed", "vetted"}
Claimed   == {"pending", "submitted"}
Over      == {"returned", "raised"}

\* A row and the claim of its key go together, and nothing is sent without.
RowInv ==
    /\ \A k \in Keys : owner[k] # None =>
          row[owner[k]] # "none" /\ RequestKey(owner[k]) = k
    /\ \A o \in Orders :
          /\ row[o] # "none" => owner[RequestKey(o)] = o
          /\ at[o] # None => row[o] # "none"
          /\ pc[o] \in Unclaimed => row[o] = "none"
          /\ pc[o] \in Unclaimed \cup Claimed => done[o] = 0
          /\ pc[o] \notin Unclaimed \cup Over => row[o] # "none"
          /\ pc[o] \in (Unclaimed \cup Claimed) \ {"idle"} => ask[o] > 0
          /\ pc[o] = "returned" /\ row[o] = "none" => owner[RequestKey(o)] # None

\* A BUY with a position is over and was not flattened; an exit order has a row.
ExitInv ==
    \A b \in Buys :
        /\ pos[b] # "none" => pc[b] \in Over
        /\ pc[b] \notin Over => exits[b] = 0
        /\ pos[b] # "none" /\ exitRow[b] = "none" => exits[b] = 0
        /\ pos[b] = "none" => exitRow[b] = "none" /\ b \notin todo \cup cur

\* What the monitor knows of the position it is handling.
MonInv ==
    /\ \A b, c \in cur : b = c
    /\ \A b \in cur :
          /\ mpc = "sell" => exitRow[b] = "SUBMITTED" /\ exits[b] = 0
          /\ mpc = "close" => exitRow[b] = "FILLED"

\* What a SELL has sold and found.
SellInv ==
    \A s \in Sells :
        /\ pc[s] \in {"sold", "close"} => done[s] > 0
        /\ pc[s] = "close" =>
              /\ found[s] \in Buys /\ UserOf[found[s]] = UserOf[s]
              /\ pos[found[s]] # "none"

IInv ==
    /\ TypeOK /\ RowInv /\ ExitInv /\ MonInv /\ SellInv
    /\ OneExitPerPosition /\ ClosedMeansSold

-----------------------------------------------------------------------------
(* Keys and quantities.                                                    *)

LEMMA KeyIsKey == ASSUME TypeOK, NEW o \in Orders PROVE RequestKey(o) \in Keys
  <1>1. amount[o] \in Amounts \cup {None} /\ UserOf[o] \in Users
    BY DEF TypeOK, Users
  <1> QED
    BY <1>1 DEF RequestKey, Keys

\* Equal orders have equal keys; the converse fails for two quantities of one
\* amount.
LEMMA SameKey ==
  ASSUME NEW o \in Orders, NEW p \in Orders, SameOrder(o, p)
  PROVE  RequestKey(o) = RequestKey(p)
  <1>1. CASE ClientId[o] # None
    BY <1>1 DEF RequestKey, SameOrder
  <1>2. CASE ClientId[o] = None
    BY <1>2 DEF RequestKey, SameOrder
  <1> QED
    BY <1>1, <1>2

LEMMA FloorBound == ASSUME NEW q \in Qty PROVE FloorToStep(q) \in Qty /\ FloorToStep(q) <= q
  <1>1. q \in Nat /\ Step \in Nat /\ Step > 0 /\ MaxQty \in Nat
    BY TestnetAssumption DEF Qty
  <1>2. q \div Step \in Nat
    BY <1>1
  <1>3. (q \div Step) * Step \in Nat
    BY <1>1, <1>2
  <1>4. (q \div Step) * Step <= q
    BY <1>1
  <1> QED
    BY <1>1, <1>3, <1>4 DEF FloorToStep, Qty

LEMMA ExecutionBound ==
  ASSUME NEW q \in Qty, NEW x \in Executions(q)
  PROVE  /\ x.done \in Qty /\ x.done <= q
         /\ x.status \in Statuses \ {"none"}
         /\ x.status # "EXPIRED" /\ q > 0 => x.done > 0
  <1>1. q \in Nat /\ MaxQty \in Nat
    BY TestnetAssumption DEF Qty
  <1> QED
    BY <1>1 DEF Executions, Qty, Statuses

LEMMA Accounted == ASSUME NEW o \in Orders PROVE Account(UserOf[o]) \in Accounts
  BY DEF Account, Accounts, Users

-----------------------------------------------------------------------------
LEMMA InitIInv == Init => IInv
  <1> SUFFICES ASSUME Init PROVE IInv
    OBVIOUS
  <1> USE TestnetAssumption DEF Init
  <1>1. TypeOK
    BY DEF TypeOK, Orders, Qty, Accounts, Statuses
  <1>2. RowInv
    <2>1. \A o \in Orders : RequestKey(o) \in Keys
      BY <1>1, KeyIsKey
    <2> QED
      BY <2>1 DEF RowInv, Unclaimed, Claimed, Over
  <1>3. ExitInv /\ MonInv /\ SellInv /\ OneExitPerPosition /\ ClosedMeansSold
    BY DEF ExitInv, MonInv, SellInv, OneExitPerPosition, ClosedMeansSold, Orders, Over
  <1> QED
    BY <1>1, <1>2, <1>3 DEF IInv

-----------------------------------------------------------------------------
(* Steps of a request.                                                     *)

\* What a step of request o leaves alone.
OnlyMine(o) ==
    /\ \A p \in Orders \ {o} :
          /\ pc'[p] = pc[p] /\ ask'[p] = ask[p] /\ amount'[p] = amount[p] /\ row'[p] = row[p]
          /\ at'[p] = at[p] /\ done'[p] = done[p] /\ found'[p] = found[p]
    /\ UNCHANGED <<worker, beyond, restarts>>

\* Positions, exits and the monitor are as they were.
Aside == UNCHANGED <<pos, exits, exitRow, mpc, todo, cur>>

\* A request that touches no position keeps what is known of them.
LEMMA AsideKeeps ==
  ASSUME IInv, NEW o \in Orders, OnlyMine(o), Aside, TypeOK',
         pc[o] \notin Over,
         pc[o] \in {"sold", "close"} => pc'[o] \in {"close"} \cup Over,
         done'[o] >= done[o],
         pc'[o] = "sold" => done'[o] > 0,
         pc'[o] = "close" => /\ done'[o] > 0
                             /\ found'[o] \in Buys /\ UserOf[found'[o]] = UserOf[o]
                             /\ pos[found'[o]] # "none"
  PROVE  ExitInv' /\ MonInv' /\ SellInv' /\ OneExitPerPosition' /\ ClosedMeansSold'
  <1> USE DEF IInv, OnlyMine, Aside
  <1>1. ExitInv'
    BY DEF ExitInv, Over, Orders
  <1>2. MonInv' /\ OneExitPerPosition'
    BY DEF MonInv, OneExitPerPosition
  <1>3. SellInv'
    BY DEF SellInv, Orders
  <1>4. ClosedMeansSold'
    <2>1. \A s \in Sells : done[s] > 0 => done'[s] > 0
      BY DEF TypeOK, Orders, Qty
    <2> QED
      BY <2>1 DEF ClosedMeansSold
  <1> QED
    BY <1>1, <1>2, <1>3, <1>4

\* A step that changes neither keys nor their owners.
LEMMA RowsKeep ==
  ASSUME IInv, NEW o \in Orders, OnlyMine(o), UNCHANGED <<ask, amount, owner>>,
         (row'[o] = "none") <=> (row[o] = "none"),
         pc'[o] \in Unclaimed => row[o] = "none",
         pc'[o] \in Unclaimed \cup Claimed => done'[o] = 0,
         pc'[o] \notin Unclaimed \cup Over => row[o] # "none",
         pc'[o] \in (Unclaimed \cup Claimed) \ {"idle"} => ask[o] > 0,
         at'[o] # None => row[o] # "none",
         pc'[o] = "returned" /\ row[o] = "none" => owner[RequestKey(o)] # None
  PROVE  RowInv'
  <1> USE DEF IInv, OnlyMine
  <1>1. \A p \in Orders : RequestKey(p)' = RequestKey(p)
    BY DEF RequestKey
  <1>2. \A p \in Orders : (row'[p] = "none") <=> (row[p] = "none")
    OBVIOUS
  <1>3. \A k \in Keys : owner[k] # None => owner[k] \in Orders
    BY DEF TypeOK
  <1>4. \A k \in Keys : (owner[k] # None => row[owner[k]] # "none" /\ RequestKey(owner[k]) = k)'
    BY <1>2, <1>3 DEF RowInv, RequestKey
  <1>5. \A p \in Orders :
          /\ (row[p] # "none" => owner[RequestKey(p)] = p)'
          /\ (pc[p] = "returned" /\ row[p] = "none" => owner[RequestKey(p)] # None)'
    BY <1>1, <1>2 DEF RowInv
  <1>6. \A p \in Orders :
          /\ at'[p] # None => row'[p] # "none"
          /\ pc'[p] \in Unclaimed => row'[p] = "none"
          /\ pc'[p] \in Unclaimed \cup Claimed => done'[p] = 0
          /\ pc'[p] \notin Unclaimed \cup Over => row'[p] # "none"
          /\ pc'[p] \in (Unclaimed \cup Claimed) \ {"idle"} => ask'[p] > 0
    BY <1>2 DEF RowInv
  <1> QED
    BY <1>4, <1>5, <1>6 DEF RowInv

LEMMA RefuseKeeps ==
  ASSUME IInv, NEW o \in Orders, Refuse(o), UNCHANGED <<worker, beyond, restarts>>
  PROVE  IInv'
  <1> USE DEF Refuse, Goto, market, table, worker
  <1>1. TypeOK' /\ OnlyMine(o) /\ Aside /\ pc'[o] = "raised"
    BY DEF IInv, TypeOK, OnlyMine, Aside
  <1>2. RowInv'
    BY <1>1, RowsKeep DEF IInv, RowInv, Unclaimed, Claimed, Over
  <1> QED
    BY <1>1, <1>2, AsideKeeps DEF IInv, TypeOK, Qty, Over

LEMMA ArriveKeeps ==
  ASSUME IInv, NEW o \in Orders, NEW q \in Qty \ {0}, NEW a \in Amounts, Arrive(o, q, a),
         UNCHANGED <<worker, beyond, restarts>>
  PROVE  IInv'
  <1> USE DEF Arrive, Goto, market, table, worker
  <1>1. TypeOK' /\ OnlyMine(o) /\ Aside /\ pc'[o] = "keyed"
    BY Accounted DEF IInv, TypeOK, OnlyMine, Aside
  <1>2. row[o] = "none" /\ done[o] = 0
    BY DEF IInv, RowInv, Unclaimed
  <1>3. RowInv'
    <2>1. \A k \in Keys : owner[k] # None => owner[k] \in Orders \ {o}
      BY <1>2 DEF IInv, RowInv, TypeOK
    <2>2. \A k \in Keys : (owner[k] # None => row[owner[k]] # "none" /\ RequestKey(owner[k]) = k)'
      BY <2>1, <1>1 DEF IInv, RowInv, OnlyMine, RequestKey
    <2>3. \A p \in Orders \ {o} :
            /\ (row[p] # "none" => owner[RequestKey(p)] = p)'
            /\ (pc[p] = "returned" /\ row[p] = "none" => owner[RequestKey(p)] # None)'
      BY <1>1 DEF IInv, RowInv, OnlyMine, RequestKey
    <2>4. ask'[o] > 0
      BY DEF IInv, TypeOK, Qty
    <2> QED
      BY <1>1, <1>2, <2>2, <2>3, <2>4 DEF IInv, RowInv, OnlyMine, Unclaimed, Claimed, Over
  <1> QED
    BY <1>1, <1>3, AsideKeeps DEF IInv, TypeOK, Qty, Over

LEMMA VetKeeps ==
  ASSUME IInv, NEW o \in Orders, Vet(o), UNCHANGED <<worker, beyond, restarts>>
  PROVE  IInv'
  <1> USE DEF Vet, Goto, market, table, worker
  <1>1. TypeOK' /\ OnlyMine(o) /\ Aside /\ pc'[o] = "vetted"
    BY DEF IInv, TypeOK, OnlyMine, Aside
  <1>2. RowInv'
    BY <1>1, RowsKeep DEF IInv, RowInv, Unclaimed, Claimed, Over
  <1> QED
    BY <1>1, <1>2, AsideKeeps DEF IInv, TypeOK, Qty, Over

\* The new row is the only one with its key.
LEMMA ClaimKeeps ==
  ASSUME IInv, NEW o \in Orders, Claim(o), UNCHANGED <<worker, beyond, restarts>>
  PROVE  IInv'
  <1> USE DEF Claim, Goto, market, table, worker
  <1>0. RequestKey(o) \in Keys /\ row[o] = "none" /\ done[o] = 0 /\ ask[o] > 0
    BY KeyIsKey DEF IInv, RowInv, Unclaimed, Claimed
  <1>1. TypeOK' /\ OnlyMine(o) /\ Aside /\ pc'[o] \in {"pending", "returned"} /\ done' = done
    BY <1>0 DEF IInv, TypeOK, OnlyMine, Aside, Statuses
  <1>2. CASE owner[RequestKey(o)] = None
    <2> USE <1>2
    <2>1. /\ owner' = [owner EXCEPT ![RequestKey(o)] = o] /\ pc'[o] = "pending"
          /\ row' = [row EXCEPT ![o] = "PENDING"] /\ ask' = ask /\ amount' = amount
      BY DEF IInv, TypeOK
    <2>2. \A k \in Keys : (owner[k] # None => row[owner[k]] # "none" /\ RequestKey(owner[k]) = k)'
      BY <1>0, <2>1 DEF IInv, RowInv, TypeOK, RequestKey
    <2>3. /\ row'[o] = "PENDING" /\ owner'[RequestKey(o)] = o
          /\ \A p \in Orders \ {o} : row[p] # "none" => RequestKey(p) # RequestKey(o)
      <3>1. o # None
        BY TestnetAssumption
      <3>2. \A p \in Orders \ {o} : row[p] # "none" => owner[RequestKey(p)] = p /\ p # None
        BY TestnetAssumption DEF IInv, RowInv
      <3> QED
        BY <1>0, <2>1, <3>1, <3>2 DEF IInv, TypeOK
    <2>4. \A p \in Orders :
            /\ (row[p] # "none" => owner[RequestKey(p)] = p)'
            /\ (pc[p] = "returned" /\ row[p] = "none" => owner[RequestKey(p)] # None)'
      <3>1. \A p \in Orders : RequestKey(p) \in Keys /\ RequestKey(p)' = RequestKey(p)
        BY <2>1, KeyIsKey DEF RequestKey, IInv
      <3>2. \A p \in Orders \ {o} : row'[p] = row[p] /\ pc'[p] = pc[p]
        BY <1>1 DEF OnlyMine
      <3>3. \A k \in Keys : k # RequestKey(o) => owner'[k] = owner[k]
        BY <2>1 DEF IInv, TypeOK
      <3>4. o # None
        BY TestnetAssumption
      <3> QED
        BY <2>1, <2>3, <3>1, <3>2, <3>3, <3>4 DEF IInv, RowInv
    <2>5. \A p \in Orders :
            /\ at'[p] # None => row'[p] # "none"
            /\ pc'[p] \in Unclaimed => row'[p] = "none"
            /\ pc'[p] \in Unclaimed \cup Claimed => done'[p] = 0
            /\ pc'[p] \notin Unclaimed \cup Over => row'[p] # "none"
            /\ pc'[p] \in (Unclaimed \cup Claimed) \ {"idle"} => ask'[p] > 0
      BY <1>0, <1>1, <2>1, <2>3 DEF IInv, RowInv, OnlyMine, Unclaimed, Claimed, Over
    <2>6. RowInv'
      BY <2>2, <2>4, <2>5 DEF RowInv
    <2> QED
      BY <1>1, <2>1, <2>6, AsideKeeps DEF IInv, TypeOK, Qty, Over
  <1>3. CASE owner[RequestKey(o)] # None
    <2>1. pc'[o] = "returned" /\ UNCHANGED <<ask, amount, owner, row, at, done>>
      BY <1>3 DEF IInv, TypeOK
    <2>2. RowInv'
      BY <1>0, <1>1, <1>3, <2>1, RowsKeep DEF IInv, RowInv, Unclaimed, Claimed, Over
    <2> QED
      BY <1>1, <2>1, <2>2, AsideKeeps DEF IInv, TypeOK, Qty, Over
  <1> QED
    BY <1>2, <1>3

LEMMA MarkKeeps ==
  ASSUME IInv, NEW o \in Orders, MarkSubmitted(o), UNCHANGED <<worker, beyond, restarts>>
  PROVE  IInv'
  <1> USE DEF MarkSubmitted, Goto, market, table, worker
  <1>1. TypeOK' /\ OnlyMine(o) /\ Aside /\ pc'[o] = "submitted"
    BY DEF IInv, TypeOK, OnlyMine, Aside, Statuses
  <1>2. row'[o] = "SUBMITTED" /\ row[o] # "none" /\ done[o] = 0 /\ ask[o] > 0
    BY DEF IInv, RowInv, TypeOK, Unclaimed, Claimed, Over
  <1>3. RowInv'
    BY <1>1, <1>2, RowsKeep DEF Unclaimed, Claimed, Over
  <1> QED
    BY <1>1, <1>3, AsideKeeps DEF IInv, TypeOK, Qty, Over

\* Where an answer, or the lack of one, leads.
Answered == {"returned", "raised", "sold", "protect"}

LEMMA SendKeeps ==
  ASSUME IInv, NEW o \in Orders, Send(o) \/ SendFails(o), UNCHANGED <<worker, beyond, restarts>>
  PROVE  IInv'
  <1> USE DEF Send, SendFails, Goto, market, table, worker
  <1>0. /\ pc[o] = "submitted" /\ row[o] # "none" /\ done[o] = 0 /\ ask[o] > 0
        /\ ask[o] \in Qty /\ ask[o] \in Nat /\ exchange \in Accounts
    BY DEF IInv, RowInv, TypeOK, Unclaimed, Claimed, Over, Qty
  <1>1. /\ OnlyMine(o) /\ Aside /\ UNCHANGED <<ask, amount, exchange, owner, found, oco, ocoAt, table>>
        /\ pc' \in [Orders -> {"idle", "keyed", "vetted", "pending", "submitted", "protect",
                           "open", "flatten", "sold", "close", "returned", "raised"}]
        /\ pc'[o] \in Answered /\ row' \in [Orders -> Statuses] /\ row'[o] # "none"
        /\ done' \in [Orders -> Qty] /\ done'[o] >= 0
        /\ pc'[o] = "sold" => done'[o] > 0
        /\ at' \in [Orders -> Accounts \cup {None}]
        /\ free' \in [Accounts -> Nat]
    <2>1. CASE SendFails(o)
      BY <1>0, <2>1 DEF IInv, TypeOK, OnlyMine, Aside, Answered, Statuses, Qty
    <2>2. CASE Send(o)
      <3>1. PICK x \in Executions(ask[o]) :
              /\ o \in Sells => free[exchange] >= ask[o]
              /\ free' = [free EXCEPT ![exchange] = IF o \in Buys THEN @ + x.done ELSE @ - x.done]
              /\ at' = [at EXCEPT ![o] = exchange]
              /\ done' = [done EXCEPT ![o] = x.done]
              /\ \/ /\ row' = [row EXCEPT ![o] = x.status]
                    /\ Goto(o, IF x.status = "EXPIRED" THEN "returned"
                               ELSE IF o \in Sells THEN "sold"
                               ELSE IF FloorToStep(x.done) = 0 THEN "raised" ELSE "protect")
                 \/ row' = [row EXCEPT ![o] = "UNKNOWN"] /\ Goto(o, "raised")
        BY <2>2
      <3>2. /\ x.done \in Qty /\ x.done \in Nat /\ x.done <= ask[o]
            /\ x.status \in Statuses \ {"none"}
            /\ x.status # "EXPIRED" => x.done > 0
        BY <1>0, ExecutionBound DEF Qty
      <3>3. free' \in [Accounts -> Nat]
        <4>1. free \in [Accounts -> Nat] /\ free[exchange] \in Nat
          BY <1>0 DEF IInv, TypeOK
        <4>2. (IF o \in Buys THEN free[exchange] + x.done ELSE free[exchange] - x.done) \in Nat
          BY <1>0, <3>1, <3>2, <4>1 DEF Orders
        <4> QED
          BY <3>1, <4>1, <4>2
      <3>4. "UNKNOWN" \in Statuses \ {"none"}
        BY DEF Statuses
      <3>5. /\ pc' \in [Orders -> {"idle", "keyed", "vetted", "pending", "submitted", "protect",
                           "open", "flatten", "sold", "close", "returned", "raised"}]
            /\ pc'[o] \in Answered
            /\ pc'[o] = "sold" => x.status # "EXPIRED"
            /\ \A p \in Orders \ {o} : pc'[p] = pc[p]
        BY <1>0, <3>1 DEF IInv, TypeOK, Answered
      <3>6. /\ row' \in [Orders -> Statuses] /\ row'[o] # "none"
            /\ done' \in [Orders -> Qty] /\ done'[o] = x.done
            /\ at' \in [Orders -> Accounts \cup {None}]
            /\ \A p \in Orders \ {o} : row'[p] = row[p] /\ done'[p] = done[p] /\ at'[p] = at[p]
        BY <1>0, <3>1, <3>2, <3>4 DEF IInv, TypeOK
      <3>7. UNCHANGED <<ask, amount, exchange, owner, found, oco, ocoAt, exits, table>>
        BY <2>2
      <3> QED
        BY <3>2, <3>3, <3>5, <3>6, <3>7 DEF OnlyMine, Aside
    <2> QED
      BY <2>1, <2>2
  <1> HIDE DEF Send, SendFails
  <1>2. TypeOK'
    BY <1>1 DEF IInv, TypeOK, OnlyMine, Aside
  <1>3. RowInv'
    BY <1>0, <1>1, RowsKeep DEF Answered, Unclaimed, Claimed, Over
  <1> QED
    BY <1>0, <1>1, <1>2, <1>3, AsideKeeps DEF IInv, Answered, Over

LEMMA ProtectKeeps ==
  ASSUME IInv, NEW b \in Buys, Protect(b) \/ ProtectFails(b), UNCHANGED <<worker, beyond, restarts>>
  PROVE  IInv'
  <1> USE DEF Protect, ProtectFails, Goto, market, table, worker
  <1>0. b \in Orders /\ pc[b] = "protect" /\ row[b] # "none" /\ exchange \in Accounts
    BY DEF IInv, RowInv, TypeOK, Orders, Unclaimed, Claimed, Over
  <1>1. TypeOK'
    <2>1. CASE Protect(b)
      <3>1. ProtectQty(b) \in Nat /\ free[exchange] \in Nat
        BY <1>0, FloorBound DEF IInv, TypeOK, ProtectQty, Qty
      <3>2. free' \in [Accounts -> Nat]
        BY <2>1, <1>0, <3>1 DEF IInv, TypeOK
      <3> QED
        BY <2>1, <1>0, <3>2 DEF IInv, TypeOK
    <2>2. CASE ProtectFails(b)
      BY <2>2, <1>0 DEF IInv, TypeOK
    <2> QED
      BY <2>1, <2>2
  <1>2. OnlyMine(b) /\ Aside /\ pc'[b] \in {"open", "flatten"} /\ UNCHANGED <<ask, amount, owner, row, at, done>>
    BY <1>0 DEF IInv, TypeOK, OnlyMine, Aside
  <1>3. RowInv'
    BY <1>0, <1>2, RowsKeep DEF IInv, RowInv, Unclaimed, Claimed, Over
  <1> QED
    BY <1>0, <1>1, <1>2, <1>3, AsideKeeps DEF IInv, TypeOK, Qty, Over

\* A BUY that is flattened has no position yet and never gets one.
LEMMA FlattenKeeps ==
  ASSUME IInv, NEW b \in Buys, Flatten(b), UNCHANGED <<worker, beyond, restarts>>
  PROVE  IInv'
  <1> USE DEF Flatten, Goto, table, worker
  <1>0. /\ b \in Orders /\ pc[b] = "flatten" /\ row[b] # "none" /\ exchange \in Accounts
        /\ pos[b] = "none" /\ exits[b] = 0 /\ b \notin todo \cup cur
    BY DEF IInv, RowInv, ExitInv, TypeOK, Orders, Unclaimed, Claimed, Over
  <1> DEFINE Sold == /\ free' \in [Accounts -> Nat] /\ exits' \in [Buys -> Nat] /\ exits'[b] <= 1
                     /\ \A c \in Buys \ {b} : exits'[c] = exits[c]
  <1>1. Sold
    <2>1. ProtectQty(b) \in Nat /\ free[exchange] \in Nat
      BY <1>0, FloorBound DEF IInv, TypeOK, ProtectQty, Qty
    <2>2. CASE UNCHANGED <<free, exits>>
      BY <1>0, <2>2 DEF IInv, TypeOK
    <2>3. ASSUME NEW e \in 0..ProtectQty(b), free[exchange] >= ProtectQty(b),
                 free' = [free EXCEPT ![exchange] = @ - e],
                 exits' = [exits EXCEPT ![b] = @ + 1]
          PROVE  Sold
      BY <1>0, <2>1, <2>3 DEF IInv, TypeOK
    <2> QED
      BY <2>2, <2>3
  <1>2. /\ OnlyMine(b) /\ pc'[b] = "raised" /\ UNCHANGED <<ask, amount, owner, row, at, done, found, pos>>
        /\ pc' \in [Orders -> {"idle", "keyed", "vetted", "pending", "submitted", "protect",
                           "open", "flatten", "sold", "close", "returned", "raised"}]
    BY <1>0 DEF IInv, TypeOK, OnlyMine
  <1>3. TypeOK'
    BY <1>1, <1>2 DEF IInv, TypeOK
  <1>4. RowInv'
    BY <1>0, <1>2, RowsKeep DEF IInv, RowInv, Unclaimed, Claimed, Over
  <1>5. ExitInv'
    BY <1>0, <1>1, <1>2 DEF IInv, ExitInv, OnlyMine, Over, Orders
  <1>6. MonInv' /\ OneExitPerPosition'
    BY <1>0, <1>1, <1>2 DEF IInv, MonInv, TypeOK, OneExitPerPosition
  <1>7. SellInv' /\ ClosedMeansSold'
    BY <1>2 DEF IInv, SellInv, ClosedMeansSold, OnlyMine, Orders
  <1> QED
    BY <1>3, <1>4, <1>5, <1>6, <1>7 DEF IInv

LEMMA OpenKeeps ==
  ASSUME IInv, NEW b \in Buys, OpenPosition(b), UNCHANGED <<worker, beyond, restarts>>
  PROVE  IInv'
  <1> USE DEF OpenPosition, Goto, market, worker
  <1>0. /\ b \in Orders /\ pc[b] = "open" /\ row[b] # "none"
        /\ pos[b] = "none" /\ exits[b] = 0 /\ exitRow[b] = "none"
    BY DEF IInv, RowInv, ExitInv, TypeOK, Orders, Unclaimed, Claimed, Over
  <1>1. TypeOK'
    <2>1. ProtectQty(b) \in Qty
      BY <1>0, FloorBound DEF IInv, TypeOK, ProtectQty
    <2>2. Cardinality({c \in Buys : pos[c] # "none"}) \in Nat
      BY TestnetAssumption, FS_Subset, FS_CardinalityType DEF Orders
    <2> QED
      BY <1>0, <2>1, <2>2 DEF IInv, TypeOK
  <1>2. /\ OnlyMine(b) /\ pc'[b] = "returned" /\ UNCHANGED <<ask, amount, owner, row, at, done, found, exits>>
        /\ pos'[b] = "OPEN" /\ \A c \in Buys \ {b} : pos'[c] = pos[c]
    BY <1>0 DEF IInv, TypeOK, OnlyMine
  <1>3. RowInv'
    BY <1>0, <1>2, RowsKeep DEF IInv, RowInv, Unclaimed, Claimed, Over
  <1>4. ExitInv' /\ MonInv' /\ OneExitPerPosition'
    BY <1>0, <1>2 DEF IInv, ExitInv, MonInv, OneExitPerPosition, OnlyMine, Over, Orders
  <1>5. SellInv' /\ ClosedMeansSold'
    BY <1>0, <1>2, TestnetAssumption DEF IInv, SellInv, ClosedMeansSold, OnlyMine, Orders
  <1> QED
    BY <1>1, <1>3, <1>4, <1>5 DEF IInv

LEMMA FindKeeps ==
  ASSUME IInv, NEW s \in Sells, FindPosition(s), UNCHANGED <<worker, beyond, restarts>>
  PROVE  IInv'
  <1> USE DEF FindPosition, Goto, market, table, worker
  <1>0. /\ s \in Orders /\ pc[s] = "sold" /\ row[s] # "none" /\ done[s] > 0
    BY DEF IInv, RowInv, SellInv, Orders, Unclaimed, Claimed, Over
  <1>1. /\ TypeOK' /\ OnlyMine(s) /\ Aside /\ UNCHANGED <<ask, amount, owner, row, at, done>>
        /\ pc'[s] \in {"close", "returned"}
        /\ pc'[s] = "close" => found'[s] \in OpenOf(UserOf[s])
    <2>1. CASE \E b \in OpenOf(UserOf[s]) :
                 found' = [found EXCEPT ![s] = b] /\ pc' = [pc EXCEPT ![s] = "close"]
      BY <1>0, <2>1 DEF IInv, TypeOK, OnlyMine, Aside, OpenOf
    <2>2. CASE pc' = [pc EXCEPT ![s] = "returned"] /\ UNCHANGED found
      BY <1>0, <2>2 DEF IInv, TypeOK, OnlyMine, Aside
    <2> QED
      BY <2>1, <2>2
  <1>2. RowInv'
    BY <1>0, <1>1, RowsKeep DEF IInv, RowInv, Unclaimed, Claimed, Over
  <1>3. /\ pc[s] \notin Over /\ pc'[s] \in {"close"} \cup Over
        /\ done'[s] >= done[s] /\ done'[s] > 0 /\ pc'[s] # "sold"
    BY <1>0, <1>1 DEF IInv, TypeOK, Qty, Over
  <1>4. pc'[s] = "close" => /\ found'[s] \in Buys /\ UserOf[found'[s]] = UserOf[s]
                            /\ pos[found'[s]] # "none"
    BY <1>1 DEF OpenOf
  <1> HIDE DEF FindPosition, Goto, market, table, worker
  <1>5. ExitInv' /\ MonInv' /\ SellInv' /\ OneExitPerPosition' /\ ClosedMeansSold'
    BY <1>0, <1>1, <1>3, <1>4, AsideKeeps
  <1> QED
    BY <1>1, <1>2, <1>5 DEF IInv

\* The SELL that closes a position has sold something of the same user's.
LEMMA SellClosesKeeps ==
  ASSUME IInv, NEW s \in Sells, SellCloses(s), UNCHANGED <<worker, beyond, restarts>>
  PROVE  IInv'
  <1> USE DEF SellCloses, ClosePosition, Goto, market, worker
  <1>0. /\ s \in Orders /\ s \notin Buys /\ pc[s] = "close" /\ row[s] # "none" /\ done[s] > 0
        /\ found[s] \in Buys /\ UserOf[found[s]] = UserOf[s] /\ pos[found[s]] # "none"
    BY TestnetAssumption DEF IInv, RowInv, SellInv, Orders, Unclaimed, Claimed, Over
  <1>1. /\ TypeOK' /\ OnlyMine(s) /\ pc'[s] = "returned"
        /\ UNCHANGED <<ask, amount, owner, row, at, done, found, exits>>
        /\ pos'[found[s]] = "CLOSED" /\ \A b \in Buys \ {found[s]} : pos'[b] = pos[b]
    BY <1>0 DEF IInv, TypeOK, OnlyMine
  <1>2. RowInv'
    BY <1>0, <1>1, RowsKeep DEF IInv, RowInv, Unclaimed, Claimed, Over
  <1>3. ExitInv' /\ MonInv' /\ OneExitPerPosition'
    BY <1>0, <1>1 DEF IInv, ExitInv, MonInv, OneExitPerPosition, OnlyMine, Over, Orders
  <1>4. SellInv' /\ ClosedMeansSold'
    BY <1>0, <1>1 DEF IInv, SellInv, ClosedMeansSold, OnlyMine, Orders
  <1> QED
    BY <1>1, <1>2, <1>3, <1>4 DEF IInv

LEMMA OrderKeeps == ASSUME IInv, OrderNext PROVE IInv'
  <1> USE DEF OrderNext
  <1>1. ASSUME NEW o \in Orders, NEW q \in Qty \ {0}, NEW a \in Amounts, Arrive(o, q, a) PROVE IInv'
    BY <1>1, ArriveKeeps
  <1>2. ASSUME NEW o \in Orders, Refuse(o) \/ Vet(o) \/ Claim(o) \/ MarkSubmitted(o)
                                 \/ Send(o) \/ SendFails(o)
        PROVE  IInv'
    BY <1>2, RefuseKeeps, VetKeeps, ClaimKeeps, MarkKeeps, SendKeeps
  <1>3. ASSUME NEW b \in Buys, Protect(b) \/ ProtectFails(b) \/ Flatten(b) \/ OpenPosition(b)
        PROVE  IInv'
    BY <1>3, ProtectKeeps, FlattenKeeps, OpenKeeps
  <1>4. ASSUME NEW s \in Sells, FindPosition(s) \/ SellCloses(s) PROVE IInv'
    BY <1>4, FindKeeps, SellClosesKeeps
  <1> QED
    BY <1>1, <1>2, <1>3, <1>4 DEF OrderStep

-----------------------------------------------------------------------------
(* Steps of the monitor.                                                   *)

\* The monitor touches no handler.
LEMMA HandlersKeep ==
  ASSUME IInv, UNCHANGED <<handler, restarts>>,
         TypeOK', \A b \in Buys : pos[b] # "none" => pos'[b] # "none"
  PROVE  RowInv' /\ SellInv'
  <1> USE DEF handler, IInv
  <1>1. RowInv'
    BY DEF RowInv, RequestKey
  <1>2. SellInv'
    BY DEF SellInv
  <1> QED
    BY <1>1, <1>2

LEMMA MonitorMoves ==
  ASSUME IInv, UNCHANGED <<beyond, restarts>>,
         Tick \/ TickEnds \/ (\E b \in Buys : Hold(b) \/ Judge(b) \/ Unprotect(b))
  PROVE  IInv'
  <1> USE DEF Tick, TickEnds, Hold, Judge, Unprotect, CancelOco, NextItem, handler, market, table
  <1> DEFINE Moved == /\ TypeOK' /\ UNCHANGED <<handler, exits, pos, exitRow>>
                      /\ mpc' \in {"idle", "each", "unprotect", "file"} /\ todo' \subseteq Buys
                      /\ \A b \in todo' \cup cur' : pos[b] # "none"
                      /\ \A b, c \in cur' : b = c
  <1>1. Moved
    <2>1. CASE Tick
      BY <2>1 DEF IInv, TypeOK
    <2>2. CASE TickEnds
      BY <2>2 DEF IInv, TypeOK, ExitInv, MonInv
    <2>3. ASSUME NEW b \in Buys, Hold(b) PROVE Moved
      BY <2>3 DEF IInv, TypeOK, ExitInv, MonInv
    <2>5. ASSUME NEW b \in Buys, Judge(b) PROVE Moved
      BY <2>5 DEF IInv, TypeOK, ExitInv
    <2>4. ASSUME NEW b \in Buys, Unprotect(b) PROVE Moved
      <3>1. free' \in [Accounts -> Nat]
        <4>1. CASE UNCHANGED free
          BY <4>1 DEF IInv, TypeOK
        <4>2. CASE /\ ocoAt[b] = Account(UserOf[b])
                   /\ free' = [free EXCEPT ![ocoAt[b]] = @ + posQty[b]]
          <5>1. ocoAt[b] \in Accounts
            BY <4>2, Accounted DEF Orders
          <5>2. posQty[b] \in Nat /\ free \in [Accounts -> Nat]
            BY DEF IInv, TypeOK, Qty
          <5> QED
            BY <4>2, <5>1, <5>2
        <4> QED
          BY <2>4, <4>1, <4>2
      <3>2. oco' \in [Buys -> {"none", "active", "cancelled"}]
        BY <2>4 DEF IInv, TypeOK
      <3>3. TypeOK'
        BY <2>4, <3>1, <3>2 DEF IInv, TypeOK
      <3> QED
        BY <2>4, <3>3 DEF IInv, TypeOK, ExitInv, MonInv
    <2> QED
      BY <2>1, <2>2, <2>3, <2>4, <2>5
  <1>2. ExitInv' /\ MonInv' /\ OneExitPerPosition' /\ ClosedMeansSold'
    BY <1>1 DEF IInv, ExitInv, MonInv, OneExitPerPosition, ClosedMeansSold
  <1> QED
    BY <1>1, <1>2, HandlersKeep DEF IInv

\* The row of an exit is written once; only then is an exit sent.
LEMMA MonitorExits ==
  ASSUME IInv, UNCHANGED <<beyond, restarts>>, NEW b \in Buys,
         File(b) \/ SellExit(b) \/ SellExitFails(b) \/ CloseExit(b)
  PROVE  IInv'
  <1> USE DEF NextItem, ClosePosition, handler, market, table
  <1>0. /\ b \in cur /\ pos[b] # "none" /\ pc[b] \in Over
        /\ mpc = "sell" => exitRow[b] = "SUBMITTED" /\ exits[b] = 0
        /\ mpc = "close" => exitRow[b] = "FILLED"
        /\ exitRow[b] = "none" => exits[b] = 0
        /\ \A c \in cur : c = b
    BY DEF IInv, ExitInv, MonInv, File, SellExit, SellExitFails, CloseExit
  <1>1. CASE File(b)
    <2>1. TypeOK'
      BY <1>1 DEF File, IInv, TypeOK, Statuses
    <2>2. ExitInv' /\ MonInv' /\ OneExitPerPosition' /\ ClosedMeansSold'
      BY <1>0, <1>1 DEF File, IInv, TypeOK, ExitInv, MonInv, OneExitPerPosition, ClosedMeansSold
    <2> QED
      BY <1>1, <2>1, <2>2, HandlersKeep DEF File, IInv
  <1>2. CASE SellExit(b)
    <2> DEFINE a == Account(UserOf[b])
    <2>1. PICK x \in Executions(posQty[b]) :
            /\ free[a] >= posQty[b]
            /\ free' = [free EXCEPT ![a] = @ - x.done]
            /\ exits' = [exits EXCEPT ![b] = @ + 1]
            /\ \/ /\ exitRow' = [exitRow EXCEPT ![b] = x.status]
                  /\ IF x.status = "FILLED" THEN mpc' = "close" /\ UNCHANGED cur ELSE NextItem
               \/ exitRow' = [exitRow EXCEPT ![b] = "UNKNOWN"] /\ NextItem
      BY <1>2 DEF SellExit
    <2>2. UNCHANGED <<handler, oco, ocoAt, table, todo>> /\ mpc = "sell"
      BY <1>2 DEF SellExit
    <2>3. x.done \in Nat /\ x.done <= posQty[b] /\ x.status \in Statuses \ {"none"} /\ posQty[b] \in Nat
      BY ExecutionBound DEF IInv, TypeOK, Qty
    <2>4. a \in Accounts /\ free[a] \in Nat
      BY Accounted DEF IInv, TypeOK, Orders
    <2> HIDE DEF a
    <2>5. free' \in [Accounts -> Nat] /\ exits' \in [Buys -> Nat] /\ exits'[b] = 1
      BY <1>0, <2>1, <2>2, <2>3, <2>4 DEF IInv, TypeOK
    <2>6. /\ exitRow' \in [Buys -> Statuses] /\ exitRow'[b] # "none"
          /\ mpc' \in {"each", "close"} /\ cur' \subseteq cur
          /\ mpc' = "close" => exitRow'[b] = "FILLED"
          /\ \A c \in Buys \ {b} : exitRow'[c] = exitRow[c] /\ exits'[c] = exits[c]
      BY <2>1, <2>3 DEF IInv, TypeOK, Statuses
    <2>7. TypeOK'
      BY <2>2, <2>5, <2>6 DEF IInv, TypeOK
    <2>8. ExitInv' /\ MonInv' /\ OneExitPerPosition' /\ ClosedMeansSold'
      BY <1>0, <2>2, <2>5, <2>6 DEF IInv, ExitInv, MonInv, OneExitPerPosition, ClosedMeansSold
    <2> QED
      BY <2>2, <2>7, <2>8, HandlersKeep DEF IInv
  <1>3. CASE SellExitFails(b)
    <2>1. TypeOK'
      BY <1>3 DEF SellExitFails, IInv, TypeOK, Statuses
    <2>2. ExitInv' /\ MonInv' /\ OneExitPerPosition' /\ ClosedMeansSold'
      BY <1>0, <1>3 DEF SellExitFails, IInv, TypeOK, ExitInv, MonInv, OneExitPerPosition, ClosedMeansSold
    <2> QED
      BY <1>3, <2>1, <2>2, HandlersKeep DEF SellExitFails, IInv
  <1>4. CASE CloseExit(b)
    <2>1. TypeOK'
      BY <1>4 DEF CloseExit, IInv, TypeOK
    <2>2. ExitInv' /\ MonInv' /\ OneExitPerPosition' /\ ClosedMeansSold'
      BY <1>0, <1>4 DEF CloseExit, IInv, TypeOK, ExitInv, MonInv, OneExitPerPosition, ClosedMeansSold
    <2> QED
      BY <1>0, <1>4, <2>1, <2>2, HandlersKeep DEF CloseExit, IInv, TypeOK
  <1> QED
    BY <1>1, <1>2, <1>3, <1>4

-----------------------------------------------------------------------------
\* Where a restart leaves a request.
LEMMA RestartKeeps == ASSUME IInv, Restart PROVE IInv'
  <1> USE DEF Restart, IInv, market, table
  <1>0. \A o \in Orders : pc'[o] = IF pc[o] = "idle" THEN "idle" ELSE "raised"
    OBVIOUS
  <1>1. TypeOK'
    BY TestnetAssumption DEF TypeOK, Accounts
  <1>2. RowInv'
    BY <1>0 DEF RowInv, RequestKey, Unclaimed, Claimed, Over
  <1>3. ExitInv' /\ MonInv' /\ OneExitPerPosition'
    BY <1>0 DEF ExitInv, MonInv, OneExitPerPosition, Over, Orders
  <1>4. SellInv' /\ ClosedMeansSold'
    BY <1>0 DEF SellInv, ClosedMeansSold, Orders
  <1> QED
    BY <1>1, <1>2, <1>3, <1>4

LEMMA StutterKeeps ==
  ASSUME IInv, UNCHANGED <<handler, market, table, worker, restarts>>, beyond' \subseteq Buys
  PROVE  IInv'
  <1> USE DEF IInv, handler, market, table, worker
  <1>1. TypeOK'
    BY DEF TypeOK
  <1>2. ExitInv' /\ MonInv' /\ OneExitPerPosition' /\ ClosedMeansSold'
    BY DEF ExitInv, MonInv, OneExitPerPosition, ClosedMeansSold
  <1> QED
    BY <1>1, <1>2, HandlersKeep

LEMMA NextIInv == ASSUME IInv, [Next]_vars PROVE IInv'
  <1>1. CASE OrderNext
    BY <1>1, OrderKeeps
  <1>2. CASE MonitorNext
    BY <1>2, MonitorMoves, MonitorExits DEF MonitorNext, MonitorStep
  <1>3. CASE PriceMoves
    <2>1. beyond' \subseteq Buys
      BY <1>3 DEF PriceMoves, IInv, TypeOK
    <2> QED
      BY <1>3, <2>1, StutterKeeps DEF PriceMoves
  <1>4. CASE Restart
    BY <1>4, RestartKeeps
  <1>5. CASE UNCHANGED vars
    BY <1>5, StutterKeeps DEF vars, IInv, TypeOK
  <1> QED
    BY <1>1, <1>2, <1>3, <1>4, <1>5 DEF Next

-----------------------------------------------------------------------------
\* The inductive invariant holds in every reachable state.
THEOREM Inductive == Spec => []IInv
  BY InitIInv, NextIInv, PTL DEF Spec

\* Every reachable state is well typed; above all, no order, OCO or exit ever
\* takes more coins than the account has free.
THEOREM TypeCorrect == Spec => []TypeOK
  <1>1. IInv => TypeOK
    BY DEF IInv
  <1> QED
    BY <1>1, Inductive, PTL

\* Of two requests for the same order at most one reaches the exchange,
\* however they overlap and whatever restarts come between.
THEOREM OneOrder == Spec => []NoDoubleOrder
  <1>1. IInv => NoDoubleOrder
    BY SameKey DEF IInv, RowInv, NoDoubleOrder, Sent
  <1> QED
    BY <1>1, Inductive, PTL

\* At most one order is sent to get rid of a BUY, by the handler's flatten or
\* by any number of ticks.
THEOREM OneExit == Spec => []OneExitPerPosition
  <1>1. IInv => OneExitPerPosition
    BY DEF IInv
  <1> QED
    BY <1>1, Inductive, PTL

\* No position is closed without its exit FILLED or a SELL of its user executed.
THEOREM ClosedIsSold == Spec => []ClosedMeansSold
  <1>1. IInv => ClosedMeansSold
    BY DEF IInv
  <1> QED
    BY <1>1, Inductive, PTL
=============================================================================
