------------------------ MODULE RealtimeIntelligence ------------------------
(***************************************************************************)
(* monitoring/realtime.py and the WebSocket clients of realtime_routes.py: *)
(* a market stream and a news loop publish events to the bounded queue of  *)
(* every subscriber.  News comes from NewsEngine, which reads feeds that   *)
(* may be down.  Events are numbered in a circle.                          *)
(***************************************************************************)
EXTENDS Naturals, FiniteSets, Sequences

CONSTANTS
    Watchlist,      \* the symbols, in the order the news loop takes them
    Feeds,          \* RSS feeds
    Stories,        \* headlines the feeds may come to carry: numbers, newest largest
    FeedOf, About,  \* a story's feed, and the symbols it matches
    Severe,         \* stories of HIGH or CRITICAL impact
    Undated,        \* stories without a readable date
    Naive,          \* stories whose date has no time zone
    KeyLen,         \* items that make up the key of the newest news (5)
    Clients,
    QueueMax,       \* asyncio.Queue(maxsize=100)
    Circle,         \* bound: event numbers
    MaxRestarts     \* bound: process restarts

Symbols == {Watchlist[i] : i \in 1..Len(Watchlist)}

ASSUME RealtimeAssumption ==
    /\ Len(Watchlist) \in Nat \ {0}
    /\ IsFiniteSet(Stories) /\ Stories \subseteq Nat
    /\ Severe \cup Undated \cup Naive \subseteq Stories
    /\ FeedOf \in [Stories -> Feeds] /\ About \in [Stories -> SUBSET Symbols]
    /\ {KeyLen, QueueMax} \subseteq Nat \ {0} /\ MaxRestarts \in Nat
    /\ Circle \in Nat /\ Circle > QueueMax + 1

VARIABLES
    running,    \* RealtimeIntelligence.running
    linked,     \* the stream's WebSocket is connected
    seq,        \* number of the newest event
    subs,       \* clients with a queue in self.subscribers
    queue,      \* that queue
    client,     \* state of each client's connection
    heard,      \* the newest event of each client, while its queue has not overflowed
    lost,       \* clients whose queue has overflowed
    carried,    \* stories the feeds carry
    round,      \* place of the news loop in the watchlist, 0 between rounds
    got,        \* what collect returned for the symbol in hand, as {<<symbol, stories>>}
    lastNews,   \* the key last stored for each symbol
    told,       \* history: stories at hand when an alert was published
    restarts

stream == <<running, linked>>
bus    == <<seq, subs, queue, client, heard, lost>>
news   == <<carried, round, got, lastNews, told>>
vars   == <<stream, bus, news, restarts>>

Number == 0..(Circle - 1)
After(n, k) == (n + k) % Circle

TypeOK ==
    /\ running \in BOOLEAN /\ linked \in BOOLEAN
    /\ seq \in Number
    /\ subs \subseteq Clients
    /\ \A c \in Clients : Len(queue[c]) <= QueueMax /\ \A i \in 1..Len(queue[c]) : queue[c][i] \in Number
    /\ client \in [Clients -> {"out", "auth", "on", "gone"}]
    /\ heard \in [Clients -> Number] /\ lost \subseteq Clients
    /\ carried \subseteq Stories
    /\ round \in 0..Len(Watchlist)
    /\ got \subseteq Symbols \X SUBSET Stories /\ Cardinality(got) <= 1
    /\ lastNews \in [Symbols -> SUBSET Stories]
    /\ told \in [Symbols -> SUBSET Stories]
    /\ restarts \in 0..MaxRestarts

Init ==
    /\ running = FALSE /\ linked = FALSE
    /\ seq = 0
    /\ subs = {} /\ lost = {}
    /\ queue = [c \in Clients |-> <<>>] /\ heard = [c \in Clients |-> 0]
    /\ client = [c \in Clients |-> "out"]
    /\ carried = {} /\ round = 0 /\ got = {}
    /\ lastNews = [s \in Symbols |-> {}]
    /\ told = [s \in Symbols |-> {}]
    /\ restarts = 0

-----------------------------------------------------------------------------
(* _publish.                                                               *)

\* A slip: a full queue refuses the event.
PushOrSkip(q, e) == IF Len(q) < QueueMax THEN Append(q, e) ELSE q

\* A slip: the queue has no limit.
PushUnbounded(q, e) == Append(q, e)

\* put_nowait; a full queue first loses its oldest event.
Push(q, e) == Append(IF Len(q) < QueueMax THEN q ELSE Tail(q), e)

Publish ==
    /\ seq' = After(seq, 1)
    /\ queue' = [c \in Clients |-> IF c \in subs THEN Push(queue[c], seq') ELSE queue[c]]
    /\ lost' = lost \cup {c \in subs : Len(queue[c]) = QueueMax}
    /\ heard' = [c \in Clients |-> IF c \in lost' THEN 0 ELSE heard[c]]
    /\ UNCHANGED <<subs, client>>

-----------------------------------------------------------------------------
(* start, and the market stream.                                           *)

\* start(), by the process's startup or by the first client.
StartWorkers ==
    /\ ~running /\ running' = TRUE
    /\ UNCHANGED <<linked, bus, news, restarts>>

StreamConnects ==
    /\ running /\ ~linked /\ linked' = TRUE
    /\ UNCHANGED <<running, bus, news, restarts>>

\* The connection breaks, or a message cannot be read: back off, reconnect.
StreamBreaks ==
    /\ linked /\ linked' = FALSE
    /\ UNCHANGED <<running, bus, news, restarts>>

\* A bookTicker message of a symbol of the watchlist.
MarketTick ==
    /\ running /\ linked /\ Publish
    /\ UNCHANGED <<stream, news, restarts>>

-----------------------------------------------------------------------------
(* NewsEngine.                                                             *)

\* An item without a date is dated now, after everything else.
Newer(x, y) ==
    IF x \in Undated THEN y \notin Undated \/ x > y ELSE y \notin Undated /\ x > y

\* The first items of the list, newest first.
Newest(S) == {x \in S : Cardinality({y \in S : Newer(y, x)}) < KeyLen}

\* Dates with and without a time zone do not compare: sort() raises, and an
\* undated item's date has one.
Sortable(S) == S \subseteq Naive \/ S \cap Naive = {}

\* Feeds that are down, or whose XML does not parse, contribute nothing.
Collect(s, up) == {x \in carried : FeedOf[x] \in up /\ s \in About[x]}

\* The key changes with its items, and at every reading of an undated one.
KeyChanged(s, S) == Newest(S) # lastNews[s] \/ Newest(S) \cap Undated # {}

Alerting(s, S) == S # {} /\ KeyChanged(s, S) /\ S \cap Severe # {}

-----------------------------------------------------------------------------
(* _news_loop.                                                             *)

StoryAppears(x) ==
    /\ x \notin carried /\ carried' = carried \cup {x}
    /\ UNCHANGED <<stream, bus, round, got, lastNews, told, restarts>>

\* After the last symbol the loop sleeps.
Advance == round' = IF round = Len(Watchlist) THEN 0 ELSE round + 1

NewsRound ==
    /\ running /\ round = 0 /\ round' = 1
    /\ UNCHANGED <<stream, bus, carried, got, lastNews, told, restarts>>

\* collect and summarize, over several awaits; an exception skips the symbol.
NewsCollect(s, up) ==
    /\ round > 0 /\ Watchlist[round] = s /\ got = {}
    /\ \/ Sortable(Collect(s, up)) /\ got' = {<<s, Collect(s, up)>>} /\ UNCHANGED round
       \/ ~Sortable(Collect(s, up)) /\ Advance /\ UNCHANGED got
    /\ UNCHANGED <<stream, bus, carried, lastNews, told, restarts>>

\* A slip: the key is stored although the symbol fails.
NewsFailsLate ==
    /\ \E p \in got : lastNews' = [lastNews EXCEPT ![p[1]] = Newest(p[2])]
    /\ got' = {} /\ Advance
    /\ UNCHANGED <<stream, bus, carried, told, restarts>>

\* technical_analysis raises: nothing is stored, nothing published.
NewsFails ==
    /\ got # {} /\ got' = {} /\ Advance
    /\ UNCHANGED <<stream, bus, carried, lastNews, told, restarts>>

\* Store the key; publish an alert for severe news under a new one.
NewsStore ==
    /\ \E p \in got :
          /\ lastNews' = [lastNews EXCEPT ![p[1]] = Newest(p[2])]
          /\ \/ Alerting(p[1], p[2]) /\ Publish /\ told' = [told EXCEPT ![p[1]] = @ \cup p[2]]
             \/ ~Alerting(p[1], p[2]) /\ UNCHANGED <<bus, told>>
    /\ got' = {} /\ Advance
    /\ UNCHANGED <<stream, carried, restarts>>

-----------------------------------------------------------------------------
(* /api/realtime/stream.                                                   *)

Connect(c) ==
    /\ client[c] = "out" /\ client' = [client EXCEPT ![c] = "auth"]
    /\ UNCHANGED <<stream, seq, subs, queue, heard, lost, news, restarts>>

\* No token within ten seconds, or a bad one.
AuthFails(c) ==
    /\ client[c] = "auth" /\ client' = [client EXCEPT ![c] = "out"]
    /\ UNCHANGED <<stream, seq, subs, queue, heard, lost, news, restarts>>

\* A slip: the snapshot is taken some events before the subscription.
SubscribeLate(c) ==
    /\ client[c] = "auth" /\ client' = [client EXCEPT ![c] = "on"]
    /\ running' = TRUE
    /\ subs' = subs \cup {c} /\ queue' = [queue EXCEPT ![c] = <<>>] /\ lost' = lost \ {c}
    /\ \E n \in Number : heard' = [heard EXCEPT ![c] = n]
    /\ UNCHANGED <<linked, seq, news, restarts>>

\* Subscribe and take the snapshot, with no await in between.
Subscribe(c) ==
    /\ client[c] = "auth" /\ client' = [client EXCEPT ![c] = "on"]
    /\ running' = TRUE
    /\ subs' = subs \cup {c} /\ queue' = [queue EXCEPT ![c] = <<>>] /\ lost' = lost \ {c}
    /\ heard' = [heard EXCEPT ![c] = seq]
    /\ UNCHANGED <<linked, seq, news, restarts>>

\* A slip: no finally around the loop.
DeliverOrDie(c) ==
    /\ client[c] \in {"on", "gone"} /\ queue[c] # <<>>
    /\ queue' = [queue EXCEPT ![c] = Tail(@)]
    /\ client' = [client EXCEPT ![c] = IF @ = "on" THEN "on" ELSE "out"]
    /\ heard' = [heard EXCEPT ![c] = Head(queue[c])]
    /\ UNCHANGED <<stream, seq, subs, lost, news, restarts>>

\* One event from the queue to the client.  A client that has left is
\* noticed only now, and unsubscribed.
Deliver(c) ==
    /\ client[c] \in {"on", "gone"} /\ queue[c] # <<>>
    /\ IF client[c] = "on"
       THEN /\ heard' = [heard EXCEPT ![c] = IF c \in lost THEN 0 ELSE Head(queue[c])]
            /\ queue' = [queue EXCEPT ![c] = Tail(@)]
            /\ UNCHANGED <<subs, client, lost>>
       ELSE /\ subs' = subs \ {c} /\ client' = [client EXCEPT ![c] = "out"]
            /\ queue' = [queue EXCEPT ![c] = <<>>] /\ heard' = [heard EXCEPT ![c] = 0]
            /\ lost' = lost \ {c}
    /\ UNCHANGED <<stream, seq, news, restarts>>

Leave(c) ==
    /\ client[c] = "on" /\ client' = [client EXCEPT ![c] = "gone"]
    /\ UNCHANGED <<stream, seq, subs, queue, heard, lost, news, restarts>>

\* The process stops and starts: all of this was in memory.
Restart ==
    /\ restarts < MaxRestarts /\ restarts' = restarts + 1
    /\ running' = FALSE /\ linked' = FALSE /\ seq' = 0
    /\ subs' = {} /\ lost' = {}
    /\ queue' = [c \in Clients |-> <<>>] /\ heard' = [c \in Clients |-> 0]
    /\ client' = [c \in Clients |-> "out"]
    /\ round' = 0 /\ got' = {} /\ lastNews' = [s \in Symbols |-> {}]
    /\ UNCHANGED <<carried, told>>

-----------------------------------------------------------------------------
NewsLoop ==
    \/ NewsRound \/ NewsFails \/ NewsStore
    \/ \E s \in Symbols, up \in SUBSET Feeds : NewsCollect(s, up)

\* All feeds answer; a symbol with all its news gets through.
NewsAllUp(s) == NewsCollect(s, Feeds)
NewsStoreAll(s) == (\E p \in got : p[1] = s /\ Collect(s, Feeds) \subseteq p[2]) /\ NewsStore

Next ==
    \/ StartWorkers \/ StreamConnects \/ StreamBreaks \/ MarketTick
    \/ \E x \in Stories : StoryAppears(x)
    \/ NewsLoop
    \/ \E c \in Clients : Connect(c) \/ AuthFails(c) \/ Subscribe(c) \/ Deliver(c) \/ Leave(c)
    \/ Restart

Spec == Init /\ [][Next]_vars

\* Tasks run, the market moves, and feeds and market data are not down for
\* ever when asked over and over.
FairSpec ==
    /\ Spec
    /\ WF_vars(StartWorkers) /\ WF_vars(StreamConnects) /\ SF_vars(MarketTick)
    /\ \A c \in Clients : WF_vars(Deliver(c))
    /\ WF_vars(NewsLoop)
    /\ \A s \in Symbols : SF_vars(NewsAllUp(s)) /\ SF_vars(NewsStoreAll(s))

-----------------------------------------------------------------------------
(* Properties.                                                             *)

\* A subscriber's queue holds the newest events, in order and without a hole,
\* however slowly it is read.
QueueIsNewest ==
    \A c \in subs : \A i \in 1..Len(queue[c]) : After(queue[c][i], Len(queue[c]) - i) = seq

\* Unless its queue has overflowed, what a client has and what is queued for
\* it make up everything there is: no event falls between the snapshot and
\* the subscription.
NoGap ==
    \A c \in subs \ lost : client[c] = "on" => After(heard[c], Len(queue[c])) = seq

\* A client that has left does not keep its queue for ever.
GoneIsForgotten == \A c \in Clients : client[c] = "gone" ~> c \notin subs

\* A severe story among the newest of a symbol is told in an alert, whatever
\* fails in between, as long as the dates at hand compare.
SevereIsTold ==
    \A s \in Symbols : \A x \in Severe :
        x \in Newest(Collect(s, Feeds)) ~>
            \/ x \in told[s]
            \/ x \notin Newest(Collect(s, Feeds)) \/ ~Sortable(Collect(s, Feeds))
=============================================================================
