------------------------------ MODULE MCAdvice ------------------------------
(* An instance of Advice: readings at the corners of every vote.           *)
EXTENDS Advice

CONSTANTS s1, s2

MCOrder == <<"groq", "gemini", "openai">>

Object(d, c) == [kind |-> "object", decision |-> d, confidence |-> c]

MCAnswers ==
    {[kind |-> k, decision |-> "", confidence |-> 0] : k \in {"no_key", "raises", "not_json", "empty"}} \cup
    {Object(d, c) : d \in {"BUY", "SELL"}, c \in {0, 90}} \cup
    {Object("HOLD", 150), Object("NO_TRADE", 0)}

Reading(candles, up, vol, momentum) ==
    [candles |-> candles, aboveSma |-> up, fastAboveSlow |-> up, strong |-> vol < 20,
     vol |-> vol, meanReturn |-> IF up THEN 1 ELSE -1, momentum |-> momentum]

MCReadings ==
    {Reading(100, up, 10, m) : up \in BOOLEAN, m \in {20, 70}} \cup
    {Reading(20, TRUE, 0, 0), Reading(25, TRUE, 10, 70), Reading(100, TRUE, 130, 70)}

News(score, severity, direction, surprise) ==
    [any |-> TRUE, score |-> score, severity |-> severity, direction |-> direction,
     surprise |-> surprise, conviction |-> 95]

MCNews ==
    {[any |-> FALSE, score |-> 0, severity |-> "UNKNOWN", direction |-> "UNKNOWN",
      surprise |-> 0, conviction |-> 0],
     News(100, "LOW", "BULLISH", 50), News(200, "CRITICAL", "BULLISH", 90),
     News(-200, "HIGH", "BEARISH", -60)}

MCGemini ==
    {[status |-> "provider_error", impact |-> "", confidence |-> 0, grounded |-> FALSE]} \cup
    {[status |-> "parsed", impact |-> i, confidence |-> 90, grounded |-> g] :
        i \in {"POSITIVE", "NEGATIVE", "BULLISH"}, g \in BOOLEAN}

Model(trained, complete, up) == [trained |-> trained, complete |-> complete, up |-> up]

MCModels ==
    {Model(FALSE, FALSE, 0), Model(TRUE, FALSE, 0)} \cup {Model(TRUE, TRUE, n) : n \in {0, 30, 99}}

Book(read, bids, asks) == [read |-> read, bids |-> bids, asks |-> asks]

MCBooks == {Book(FALSE, 0, 0), Book(TRUE, 0, 0), Book(TRUE, 8, 2)}
=============================================================================
