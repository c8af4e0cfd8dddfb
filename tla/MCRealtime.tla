----------------------------- MODULE MCRealtime -----------------------------
(* Instances of RealtimeIntelligence: two symbols, two feeds, three        *)
(* headlines of which the last concerns every symbol.                      *)
EXTENDS RealtimeIntelligence

TwoFeeds == [x \in Stories |-> IF x = 2 THEN "f2" ELSE "f1"]
OneFeed == [x \in Stories |-> "f1"]
Two == <<"btc", "eth">>
One == <<"btc">>
Topics == [x \in Stories |-> IF x = 1 THEN {Watchlist[1]} ELSE Symbols]
=============================================================================
