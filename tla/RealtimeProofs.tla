--------------------------- MODULE RealtimeProofs ---------------------------
(***************************************************************************)
(* Proofs about RealtimeIntelligence, for any watchlist, stories, feeds    *)
(* and clients, any length of queue and any circle of numbers longer than  *)
(* it: what a subscriber has and what is queued for it is without a hole.  *)
(***************************************************************************)
EXTENDS RealtimeIntelligence, FiniteSetTheorems, TLAPS

Queues == queue \in [Clients -> Seq(Number)]

\* What the bus keeps to.
BusInv ==
    /\ seq \in Number /\ subs \subseteq Clients
    /\ client \in [Clients -> {"out", "auth", "on", "gone"}]
    /\ heard \in [Clients -> Number] /\ lost \subseteq Clients
    /\ Queues /\ \A c \in Clients : Len(queue[c]) <= QueueMax
    /\ QueueIsNewest /\ NoGap

\* What the news loop and the process keep to.
NewsInv ==
    /\ running \in BOOLEAN /\ linked \in BOOLEAN
    /\ carried \subseteq Stories
    /\ round \in 0..Len(Watchlist)
    /\ got \subseteq Symbols \X SUBSET Stories /\ Cardinality(got) <= 1
    /\ lastNews \in [Symbols -> SUBSET Stories]
    /\ told \in [Symbols -> SUBSET Stories]
    /\ restarts \in 0..MaxRestarts

IInv == BusInv /\ NewsInv

-----------------------------------------------------------------------------
(* Numbers in a circle.                                                    *)

LEMMA Wraps ==
  ASSUME NEW n \in Number, NEW k \in 0..QueueMax
  PROVE  After(n, k) = IF n + k < Circle THEN n + k ELSE n + k - Circle
  <1>1. n \in Nat /\ k \in Nat /\ n < Circle /\ k < Circle /\ Circle \in Nat /\ Circle > 0
    BY RealtimeAssumption DEF Number
  <1>2. CASE n + k < Circle
    BY <1>1, <1>2 DEF After
  <1>3. CASE n + k >= Circle
    BY <1>1, <1>3 DEF After
  <1> QED
    BY <1>1, <1>2, <1>3

LEMMA NumberNext == ASSUME NEW n \in Number PROVE After(n, 1) \in Number /\ After(n, 0) = n
  <1>1. 1 \in 0..QueueMax /\ 0 \in 0..QueueMax /\ n \in Nat /\ n < Circle /\ Circle \in Nat
    BY RealtimeAssumption DEF Number
  <1>2. After(n, 0) = n
    BY <1>1, Wraps
  <1>3. After(n, 1) = IF n + 1 < Circle THEN n + 1 ELSE n + 1 - Circle
    BY <1>1, Wraps
  <1> QED
    BY <1>1, <1>2, <1>3 DEF Number

\* One event more than k further on is the next number.
LEMMA OneMore ==
  ASSUME NEW n \in Number, NEW k \in Nat, k + 1 <= QueueMax
  PROVE  After(After(n, k), 1) = After(n, k + 1)
  <1>1. k \in 0..QueueMax /\ k + 1 \in 0..QueueMax /\ 1 \in 0..QueueMax
        /\ n \in Nat /\ n < Circle /\ Circle \in Nat
        /\ QueueMax \in Nat /\ QueueMax + 1 < Circle
    BY RealtimeAssumption DEF Number
  <1>2. After(n, k) = IF n + k < Circle THEN n + k ELSE n + k - Circle
    BY <1>1, Wraps
  <1>3. After(n, k + 1) = IF n + (k + 1) < Circle THEN n + (k + 1) ELSE n + (k + 1) - Circle
    BY <1>1, Wraps
  <1>4. ASSUME NEW m \in Number
        PROVE  After(m, 1) = IF m + 1 < Circle THEN m + 1 ELSE m + 1 - Circle
    BY <1>1, Wraps
  <1>5. CASE n + k < Circle
    <2>1. n + k \in Number /\ After(n, k) = n + k
      BY <1>1, <1>2, <1>5 DEF Number
    <2>2. After(n + k, 1) = IF (n + k) + 1 < Circle THEN (n + k) + 1 ELSE (n + k) + 1 - Circle
      BY <2>1, <1>4
    <2> QED
      BY <1>1, <1>3, <2>1, <2>2
  <1>6. CASE n + k >= Circle
    <2>1. n + k - Circle \in Number /\ After(n, k) = n + k - Circle
      BY <1>1, <1>2, <1>6 DEF Number
    <2>2. After(n + k - Circle, 1) = (n + k - Circle) + 1
      BY <1>1, <2>1, <1>4
    <2> QED
      BY <1>1, <1>3, <1>6, <2>1, <2>2
  <1> QED
    BY <1>1, <1>5, <1>6

LEMMA ZeroNumber == 0 \in Number
  BY RealtimeAssumption DEF Number

-----------------------------------------------------------------------------
(* A queue that is pushed to.                                              *)

\* The new event is last, and the others keep their distance from it.
LEMMA Pushed ==
  ASSUME NEW q \in Seq(Number), NEW e \in Number, Len(q) <= QueueMax
  PROVE  /\ Push(q, e) \in Seq(Number) /\ Len(Push(q, e)) <= QueueMax /\ Len(Push(q, e)) > 0
         /\ Len(q) < QueueMax => Len(Push(q, e)) = Len(q) + 1
         /\ Push(q, e)[Len(Push(q, e))] = e
         /\ \A i \in 1..(Len(Push(q, e)) - 1) :
               \E j \in 1..Len(q) : Push(q, e)[i] = q[j] /\ Len(Push(q, e)) - 1 - i = Len(q) - j
  <1>1. QueueMax \in Nat /\ QueueMax > 0 /\ Len(q) \in Nat
    BY RealtimeAssumption
  <1>2. CASE Len(q) < QueueMax
    <2>1. Push(q, e) = Append(q, e)
      BY <1>2 DEF Push
    <2> QED
      BY <1>1, <1>2, <2>1
  <1>3. CASE Len(q) = QueueMax
    <2> DEFINE t == Tail(q)
    <2>1. Push(q, e) = Append(t, e)
      BY <1>3 DEF Push
    <2>2. t \in Seq(Number) /\ Len(t) = Len(q) - 1 /\ \A i \in 1..Len(t) : t[i] = q[i + 1]
      BY <1>1, <1>3
    <2> HIDE DEF t
    <2>3. /\ Append(t, e) \in Seq(Number) /\ Len(Append(t, e)) = Len(q)
          /\ Append(t, e)[Len(q)] = e /\ \A i \in 1..(Len(q) - 1) : Append(t, e)[i] = q[i + 1]
      BY <1>1, <1>3, <2>2
    <2>4. \A i \in 1..(Len(q) - 1) :
             i + 1 \in 1..Len(q) /\ Append(t, e)[i] = q[i + 1] /\ Len(q) - 1 - i = Len(q) - (i + 1)
      BY <1>1, <2>3
    <2> QED
      BY <1>1, <1>3, <2>1, <2>3, <2>4
  <1> QED
    BY <1>1, <1>2, <1>3

LEMMA PublishKeeps == ASSUME BusInv, Publish PROVE BusInv'
  <1> USE DEF BusInv
  <1>1. seq' \in Number /\ seq' = After(seq, 1) /\ UNCHANGED <<subs, client>>
    BY NumberNext DEF Publish
  <1>2. ASSUME NEW c \in Clients
        PROVE  /\ queue'[c] \in Seq(Number) /\ Len(queue'[c]) <= QueueMax
               /\ c \in subs => queue'[c] = Push(queue[c], seq')
    BY <1>1, Pushed DEF Publish, Queues
  <1>3. Queues' /\ \A c \in Clients : Len(queue'[c]) <= QueueMax
    BY <1>2 DEF Publish, Queues
  <1>4. lost' \subseteq Clients /\ heard' \in [Clients -> Number]
    BY ZeroNumber DEF Publish
  <1>5. QueueIsNewest'
    <2> SUFFICES ASSUME NEW c \in subs', NEW i \in 1..Len(queue'[c])
                 PROVE  After(queue'[c][i], Len(queue'[c]) - i) = seq'
      BY DEF QueueIsNewest
    <2> DEFINE q == queue[c]  p == queue'[c]
    <2>1. c \in subs /\ c \in Clients /\ q \in Seq(Number) /\ Len(q) <= QueueMax
      BY <1>1 DEF Queues
    <2>2. p = Push(q, seq')
      BY <1>2, <2>1
    <2>3. \A j \in 1..Len(q) : After(q[j], Len(q) - j) = seq
      BY <2>1 DEF QueueIsNewest
    <2> HIDE DEF q, p, BusInv
    <2>4. /\ p \in Seq(Number) /\ Len(p) <= QueueMax /\ p[Len(p)] = seq'
          /\ \A j \in 1..(Len(p) - 1) : \E k \in 1..Len(q) :
                 p[j] = q[k] /\ Len(p) - 1 - j = Len(q) - k
      BY <1>1, <2>1, <2>2, Pushed, Zenon
    <2>p. Len(p) \in Nat
      BY <2>4
    <2>5. i \in 1..Len(p)
      BY DEF p
    <2>6. CASE i = Len(p)
      <3>1. Len(p) - i = 0
        BY <2>p, <2>4, <2>6
      <3> QED
        BY <1>1, <2>4, <2>6, <3>1, NumberNext DEF p
    <2>7. CASE i # Len(p)
      <3>1. i \in 1..(Len(p) - 1) /\ Len(p) - 1 - i \in Nat /\ (Len(p) - 1 - i) + 1 = Len(p) - i
        BY <2>p, <2>4, <2>5, <2>7
      <3>2. After(p[i], Len(p) - 1 - i) = seq
        BY <2>3, <2>4, <3>1
      <3>3. p[i] \in Number
        BY <2>p, <2>4, <2>5
      <3>4. (Len(p) - 1 - i) + 1 <= QueueMax
        BY <2>p, <2>4, <2>5, <3>1, RealtimeAssumption
      <3>5. After(p[i], Len(p) - i) = seq'
        BY <1>1, <3>1, <3>2, <3>3, <3>4, OneMore
      <3> QED
        BY <3>5 DEF p
    <2> QED
      BY <2>6, <2>7
  <1>6. NoGap'
    <2> SUFFICES ASSUME NEW c \in subs' \ lost', client'[c] = "on"
                 PROVE  After(heard'[c], Len(queue'[c])) = seq'
      BY DEF NoGap
    <2>1. /\ c \in subs \ lost /\ c \in Clients /\ client[c] = "on"
          /\ queue[c] \in Seq(Number) /\ Len(queue[c]) <= QueueMax
          /\ Len(queue[c]) # QueueMax /\ heard'[c] = heard[c]
      BY <1>1 DEF Publish, Queues
    <2>2. Len(queue[c]) \in Nat /\ Len(queue[c]) + 1 <= QueueMax
      BY <2>1, RealtimeAssumption
    <2>3. Len(queue'[c]) = Len(queue[c]) + 1
      <3>1. queue'[c] = Push(queue[c], seq') /\ Len(queue[c]) < QueueMax
        BY <1>2, <2>1, <2>2, RealtimeAssumption
      <3>2. Len(Push(queue[c], seq')) = Len(queue[c]) + 1
        BY <1>1, <2>1, <3>1, Pushed, Zenon
      <3> QED
        BY <3>1, <3>2
    <2>4. After(heard[c], Len(queue[c])) = seq
      BY <2>1 DEF NoGap
    <2> QED
      BY <1>1, <2>1, <2>2, <2>3, <2>4, OneMore
  <1> QED
    BY <1>1, <1>3, <1>4, <1>5, <1>6

-----------------------------------------------------------------------------
(* The connections of a client.                                            *)

\* Moving between states in which the client is not served.
LEMMA MoveKeeps ==
  ASSUME BusInv, NEW c \in Clients, Connect(c) \/ AuthFails(c) \/ Leave(c)
  PROVE  BusInv'
  <1>1. /\ UNCHANGED <<seq, subs, queue, heard, lost>>
        /\ client' \in [Clients -> {"out", "auth", "on", "gone"}]
        /\ \A d \in Clients : client'[d] = "on" => client[d] = "on"
    BY DEF BusInv, Connect, AuthFails, Leave
  <1> QED
    BY <1>1 DEF BusInv, Queues, QueueIsNewest, NoGap

\* Its queue is empty, and it has just read the newest event.
LEMMA SubscribeKeeps ==
  ASSUME BusInv, NEW c \in Clients, Subscribe(c)
  PROVE  BusInv'
  <1>1. /\ seq' = seq /\ seq \in Number /\ subs' = subs \cup {c} /\ lost' = lost \ {c}
        /\ queue' = [queue EXCEPT ![c] = <<>>] /\ heard' = [heard EXCEPT ![c] = seq]
        /\ client' = [client EXCEPT ![c] = "on"]
    BY DEF Subscribe, BusInv
  <1>2. <<>> \in Seq(Number) /\ Len(<<>>) = 0 /\ 0 <= QueueMax
    BY RealtimeAssumption
  <1>3. Queues' /\ queue'[c] = <<>> /\ \A d \in Clients \ {c} : queue'[d] = queue[d]
    BY <1>1, <1>2 DEF BusInv, Queues
  <1>4. \A d \in Clients : Len(queue'[d]) <= QueueMax
    BY <1>2, <1>3 DEF BusInv
  <1>5. QueueIsNewest'
    BY <1>1, <1>2, <1>3 DEF BusInv, QueueIsNewest
  <1>6. NoGap'
    <2>1. After(seq, 0) = seq
      BY <1>1, NumberNext
    <2>2. heard'[c] = seq /\ \A d \in Clients \ {c} : heard'[d] = heard[d] /\ client'[d] = client[d]
      BY <1>1 DEF BusInv
    <2> QED
      BY <1>1, <1>2, <1>3, <2>1, <2>2 DEF BusInv, NoGap
  <1> QED
    BY <1>1, <1>3, <1>4, <1>5, <1>6 DEF BusInv

\* The event that leaves the queue is the one the client has now.
LEMMA DeliverKeeps ==
  ASSUME BusInv, NEW c \in Clients, Deliver(c)
  PROVE  BusInv'
  <1>0. /\ queue[c] \in Seq(Number) /\ queue[c] # <<>> /\ Len(queue[c]) <= QueueMax
        /\ seq' = seq /\ QueueMax \in Nat
    BY RealtimeAssumption DEF Deliver, BusInv, Queues
  <1>1. CASE client[c] = "on"
    <2>1. /\ heard' = [heard EXCEPT ![c] = IF c \in lost THEN 0 ELSE Head(queue[c])]
          /\ queue' = [queue EXCEPT ![c] = Tail(@)]
          /\ UNCHANGED <<subs, client, lost>>
      BY <1>1 DEF Deliver
    <2>2. /\ Tail(queue[c]) \in Seq(Number) /\ Len(Tail(queue[c])) = Len(queue[c]) - 1
          /\ \A i \in 1..(Len(queue[c]) - 1) : Tail(queue[c])[i] = queue[c][i + 1]
          /\ Head(queue[c]) = queue[c][1] /\ Head(queue[c]) \in Number
          /\ Len(queue[c]) \in Nat /\ Len(queue[c]) >= 1
      BY <1>0
    <2>3. /\ Queues' /\ queue'[c] = Tail(queue[c])
          /\ \A d \in Clients \ {c} : queue'[d] = queue[d] /\ heard'[d] = heard[d]
          /\ c \notin lost => heard'[c] = Head(queue[c])
          /\ heard' \in [Clients -> Number]
      BY <2>1, <2>2, ZeroNumber DEF BusInv, Queues
    <2>4. Len(queue'[c]) <= QueueMax
      BY <1>0, <2>2, <2>3
    <2>5. QueueIsNewest'
      <3> SUFFICES ASSUME NEW d \in subs, NEW i \in 1..Len(queue'[d])
                   PROVE  After(queue'[d][i], Len(queue'[d]) - i) = seq
        BY <1>0, <2>1 DEF QueueIsNewest
      <3>1. CASE d # c
        BY <2>3, <3>1 DEF BusInv, QueueIsNewest
      <3>2. CASE d = c
        <4>1. /\ i \in 1..(Len(queue[c]) - 1) /\ i + 1 \in 1..Len(queue[c])
              /\ Len(queue'[c]) - i = Len(queue[c]) - (i + 1)
          <5>1. Len(queue'[d]) = Len(queue[c]) - 1
            BY <2>2, <2>3, <3>2
          <5>2. i \in 1..(Len(queue[c]) - 1)
            BY <5>1
          <5> QED
            BY <2>2, <3>2, <5>1, <5>2
        <4>2. queue'[c][i] = queue[c][i + 1]
          BY <2>2, <2>3, <4>1
        <4>3. After(queue[c][i + 1], Len(queue[c]) - (i + 1)) = seq
          BY <3>2, <4>1 DEF BusInv, QueueIsNewest
        <4> QED
          BY <3>2, <4>1, <4>2, <4>3
      <3> QED
        BY <3>1, <3>2
    <2>6. NoGap'
      <3>1. c \in subs \ lost => After(heard'[c], Len(queue'[c])) = seq
        <4>1. c \in subs => After(queue[c][1], Len(queue[c]) - 1) = seq
          BY <2>2 DEF BusInv, QueueIsNewest
        <4> QED
          BY <2>2, <2>3, <4>1
      <3> QED
        BY <1>0, <2>1, <2>3, <3>1 DEF BusInv, NoGap
    <2> QED
      BY <1>0, <2>1, <2>3, <2>4, <2>5, <2>6 DEF BusInv
  <1>2. CASE client[c] # "on"
    <2>1. /\ subs' = subs \ {c} /\ client' = [client EXCEPT ![c] = "out"]
          /\ queue' = [queue EXCEPT ![c] = <<>>] /\ heard' = [heard EXCEPT ![c] = 0]
          /\ lost' = lost \ {c}
      BY <1>2 DEF Deliver
    <2>2. <<>> \in Seq(Number) /\ Len(<<>>) = 0
      OBVIOUS
    <2>3. /\ Queues' /\ queue'[c] = <<>> /\ heard' \in [Clients -> Number]
          /\ \A d \in Clients \ {c} : queue'[d] = queue[d] /\ heard'[d] = heard[d]
                                       /\ client'[d] = client[d]
      BY <2>1, <2>2, ZeroNumber DEF BusInv, Queues
    <2>4. \A d \in Clients : Len(queue'[d]) <= QueueMax
      BY <1>0, <2>2, <2>3 DEF BusInv
    <2>5. QueueIsNewest' /\ NoGap'
      BY <1>0, <2>1, <2>3 DEF BusInv, QueueIsNewest, NoGap
    <2> QED
      BY <1>0, <2>1, <2>3, <2>4, <2>5 DEF BusInv
  <1> QED
    BY <1>1, <1>2

-----------------------------------------------------------------------------
LEMMA SameBus == ASSUME BusInv, UNCHANGED bus PROVE BusInv'
  BY DEF BusInv, bus, Queues, QueueIsNewest, NoGap

\* Nobody is subscribed before the start and after a restart.
LEMMA EmptyBus ==
  ASSUME seq = 0, subs = {}, lost = {}, queue = [c \in Clients |-> <<>>],
         heard = [c \in Clients |-> 0], client = [c \in Clients |-> "out"]
  PROVE  BusInv
  <1>1. <<>> \in Seq(Number) /\ Len(<<>>) = 0 /\ 0 <= QueueMax
    BY RealtimeAssumption
  <1> QED
    BY <1>1, ZeroNumber DEF BusInv, Queues, QueueIsNewest, NoGap

LEMMA EmptyCard == Cardinality({}) <= 1 /\ \A x : Cardinality({x}) <= 1
  BY FS_EmptySet, FS_Singleton

LEMMA RoundSteps ==
  ASSUME round \in 0..Len(Watchlist)
  PROVE  Advance => round' \in 0..Len(Watchlist)
  BY RealtimeAssumption DEF Advance

LEMMA InitIInv == Init => IInv
  <1> SUFFICES ASSUME Init PROVE IInv
    OBVIOUS
  <1>1. BusInv
    BY EmptyBus DEF Init
  <1>2. NewsInv
    <2>1. 0 \in 0..Len(Watchlist) /\ 0 \in 0..MaxRestarts
      BY RealtimeAssumption
    <2>2. Cardinality(got) <= 1
      BY EmptyCard DEF Init
    <2> QED
      BY <2>1, <2>2 DEF Init, NewsInv
  <1> QED
    BY <1>1, <1>2 DEF IInv

-----------------------------------------------------------------------------
(* The stream, the news loop and the process.                              *)

LEMMA CollectBound ==
  ASSUME NewsInv, NEW s, NEW up
  PROVE  Collect(s, up) \subseteq Stories /\ Newest(Collect(s, up)) \subseteq Stories
  BY DEF NewsInv, Collect, Newest

LEMMA NewestBound == ASSUME NEW S \in SUBSET Stories PROVE Newest(S) \in SUBSET Stories
  BY DEF Newest

\* No step of theirs touches the bus but by Publish or a restart.
LEMMA NewsKeeps ==
  ASSUME IInv, NewsLoop
  PROVE  IInv'
  <1>0. BusInv /\ NewsInv
    BY DEF IInv
  <1>1. CASE NewsRound
    <2>1. NewsInv' /\ UNCHANGED bus
      <3>1. 1 \in 0..Len(Watchlist)
        BY RealtimeAssumption
      <3> QED
        BY <1>0, <1>1, <3>1 DEF NewsRound, NewsInv, stream
    <2> QED
      BY <1>0, <2>1, SameBus DEF IInv
  <1>2. ASSUME NEW s \in Symbols, NEW up \in SUBSET Feeds, NewsCollect(s, up) PROVE IInv'
    <2>1. /\ UNCHANGED <<running, linked, carried, lastNews, told, restarts, bus>>
          /\ got' = got \/ got' = {<<s, Collect(s, up)>>}
          /\ round' = round \/ Advance
      BY <1>2 DEF NewsCollect, stream
    <2>2. Collect(s, up) \in SUBSET Stories
      BY <1>0, CollectBound
    <2>3. got' \subseteq Symbols \X SUBSET Stories
      BY <1>0, <2>1, <2>2 DEF NewsInv
    <2>4. Cardinality(got') <= 1
      BY <1>0, <2>1, EmptyCard, Zenon DEF NewsInv
    <2>5. round' \in 0..Len(Watchlist)
      BY <1>0, <2>1, RoundSteps DEF NewsInv
    <2>6. NewsInv'
      BY <1>0, <2>1, <2>3, <2>5, <2>4 DEF NewsInv
    <2> QED
      BY <1>0, <2>1, <2>6, SameBus DEF IInv
  <1>3. CASE NewsFails
    <2>1. UNCHANGED <<running, linked, carried, lastNews, told, restarts, bus>> /\ got' = {} /\ Advance
      BY <1>3 DEF NewsFails, stream
    <2>2. NewsInv'
      BY <1>0, <2>1, EmptyCard, RoundSteps DEF NewsInv
    <2> QED
      BY <1>0, <2>1, <2>2, SameBus DEF IInv
  <1>4. CASE NewsStore
    <2>1. PICK p \in got :
             /\ lastNews' = [lastNews EXCEPT ![p[1]] = Newest(p[2])]
             /\ \/ Publish /\ told' = [told EXCEPT ![p[1]] = @ \cup p[2]]
                \/ UNCHANGED <<bus, told>>
      BY <1>4 DEF NewsStore
    <2>2. UNCHANGED <<running, linked, carried, restarts>> /\ got' = {} /\ Advance
      BY <1>4 DEF NewsStore, stream
    <2>3. p[1] \in Symbols /\ p[2] \in SUBSET Stories
      BY <1>0 DEF NewsInv
    <2>4. lastNews' \in [Symbols -> SUBSET Stories] /\ told' \in [Symbols -> SUBSET Stories]
      BY <1>0, <2>1, <2>3, NewestBound DEF NewsInv
    <2>5. NewsInv'
      BY <1>0, <2>2, <2>4, EmptyCard, RoundSteps DEF NewsInv
    <2>6. BusInv'
      BY <1>0, <2>1, PublishKeeps, SameBus
    <2> QED
      BY <2>5, <2>6 DEF IInv
  <1> QED
    BY <1>1, <1>2, <1>3, <1>4 DEF NewsLoop

LEMMA SameNews ==
  ASSUME NewsInv, running' \in BOOLEAN, linked' \in BOOLEAN, carried' \subseteq Stories,
         UNCHANGED <<round, got, lastNews, told, restarts>>
  PROVE  NewsInv'
  BY DEF NewsInv

LEMMA NextIInv == ASSUME IInv, [Next]_vars PROVE IInv'
  <1>0. BusInv /\ NewsInv
    BY DEF IInv
  <1>s. running \in BOOLEAN /\ linked \in BOOLEAN /\ carried \subseteq Stories
    BY <1>0 DEF NewsInv
  <1>1. CASE StartWorkers \/ StreamConnects \/ StreamBreaks \/ UNCHANGED vars
    <2>1. UNCHANGED bus /\ running' \in BOOLEAN /\ linked' \in BOOLEAN /\ UNCHANGED <<news, restarts>>
      BY <1>s, <1>1 DEF StartWorkers, StreamConnects, StreamBreaks, vars, stream
    <2> QED
      BY <1>0, <1>s, <2>1, SameBus, SameNews DEF IInv, news
  <1>2. CASE MarketTick
    <2>1. Publish /\ UNCHANGED <<stream, news, restarts>>
      BY <1>2 DEF MarketTick
    <2> QED
      BY <1>0, <1>s, <2>1, PublishKeeps, SameNews DEF IInv, news, stream
  <1>3. ASSUME NEW x \in Stories, StoryAppears(x) PROVE IInv'
    BY <1>0, <1>s, <1>3, SameBus, SameNews DEF IInv, StoryAppears, stream
  <1>4. CASE NewsLoop
    BY <1>4, NewsKeeps
  <1>5. ASSUME NEW c \in Clients,
               Connect(c) \/ AuthFails(c) \/ Subscribe(c) \/ Deliver(c) \/ Leave(c)
        PROVE  IInv'
    <2>1. BusInv'
      BY <1>0, <1>5, MoveKeeps, SubscribeKeeps, DeliverKeeps
    <2>2. running' \in BOOLEAN /\ linked' = linked /\ UNCHANGED <<news, restarts>>
      BY <1>s, <1>5 DEF Connect, AuthFails, Subscribe, Deliver, Leave, stream
    <2> QED
      BY <1>0, <1>s, <2>1, <2>2, SameNews DEF IInv, news
  <1>6. CASE Restart
    <2>1. BusInv'
      <3>1. <<>> \in Seq(Number) /\ Len(<<>>) = 0 /\ 0 <= QueueMax
        BY RealtimeAssumption
      <3>2. /\ seq' = 0 /\ subs' = {} /\ lost' = {} /\ queue' = [c \in Clients |-> <<>>]
            /\ heard' = [c \in Clients |-> 0] /\ client' = [c \in Clients |-> "out"]
        BY <1>6 DEF Restart
      <3> QED
        BY <3>1, <3>2, ZeroNumber DEF BusInv, Queues, QueueIsNewest, NoGap
    <2>2. NewsInv'
      <3>1. 0 \in 0..Len(Watchlist) /\ restarts' \in 0..MaxRestarts
        BY <1>0, <1>6, RealtimeAssumption DEF Restart, NewsInv
      <3>2. Cardinality(got') <= 1
        BY <1>6, EmptyCard DEF Restart
      <3> QED
        BY <1>0, <1>6, <3>1, <3>2 DEF Restart, NewsInv
    <2> QED
      BY <2>1, <2>2 DEF IInv
  <1> QED
    BY <1>1, <1>2, <1>3, <1>4, <1>5, <1>6 DEF Next

-----------------------------------------------------------------------------
\* The inductive invariant holds in every reachable state.
THEOREM Inductive == Spec => []IInv
  BY InitIInv, NextIInv, PTL DEF Spec

\* Every reachable state is well typed; above all, no queue outgrows its limit.
THEOREM TypeCorrect == Spec => []TypeOK
  <1>1. IInv => TypeOK
    BY DEF IInv, BusInv, NewsInv, Queues, TypeOK
  <1> QED
    BY <1>1, Inductive, PTL

\* A queue that overflows gives up its oldest events and nothing else: what it
\* holds ends with the newest event and has no hole.
THEOREM NewestStay == Spec => []QueueIsNewest
  <1>1. IInv => QueueIsNewest
    BY DEF IInv, BusInv
  <1> QED
    BY <1>1, Inductive, PTL

\* From its snapshot on a client misses no event, unless its queue overflows.
THEOREM NothingMissed == Spec => []NoGap
  <1>1. IInv => NoGap
    BY DEF IInv, BusInv
  <1> QED
    BY <1>1, Inductive, PTL
=============================================================================
