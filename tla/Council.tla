------------------------------- MODULE Council -------------------------------
(***************************************************************************)
(* The council of agents and what is built on it: the orchestrator of      *)
(* /api/market and /analyze, and build_council of /api/intel and of the    *)
(* opportunity scanner.  Every agent turns one source into a vote; the     *)
(* weights of a direction are added up.  Scores, confidences, and ratios   *)
(* are per cent (of 1.0), volatility is per mille.                         *)
(***************************************************************************)
EXTENDS Integers, FiniteSets, Functions

Size(n) == IF n < 0 THEN -n ELSE n
Least(a, b) == IF a < b THEN a ELSE b
Most(a, b) == IF a > b THEN a ELSE b

Vote(action, weight) == [action |-> action, weight |-> weight]

\* Outside a band around zero a number has a direction.
Lean(n, band) == IF n > band THEN "BUY" ELSE IF n < -band THEN "SELL" ELSE "WAIT"
Toward(direction) ==
    CASE direction \in {"BULLISH", "POSITIVE"} -> "BUY"
      [] direction \in {"BEARISH", "NEGATIVE"} -> "SELL"
      [] OTHER -> "WAIT"
Bias(impact) == CASE Toward(impact) = "BUY" -> 1 [] Toward(impact) = "SELL" -> -1 [] OTHER -> 0

(***************************************************************************)
(* The sources.                                                            *)
(***************************************************************************)

\* The trend by the mean of twenty closes; with fewer the analysis raises.
TechnicalAnalysis(m) ==
    [trend    |-> IF m.aboveSma THEN "BULLISH" ELSE "BEARISH",
     momentum |-> m.momentum, closes |-> m.candles]

\* The seven-candle mean against the twenty-one-candle one names a trend, if
\* the slope is strong for its volatility.
DetectRegime(m) ==
    IF m.candles < 30 THEN [name |-> "UNKNOWN", vol |-> 0]
    ELSE [vol  |-> m.vol,
          name |-> IF m.vol > 20 THEN "HIGH_VOLATILITY"
                   ELSE IF m.strong THEN IF m.fastAboveSlow THEN "TREND_UP" ELSE "TREND_DOWN"
                   ELSE IF m.vol < 4 THEN "LOW_VOLATILITY_RANGE" ELSE "RANGE"]

\* analyze_historical_context over the returns between the closes.
HistoricalContext(m) ==
    LET returns == m.candles - 1
        horizon == Most(1, Least(20, returns))
    IN  IF returns < 20 THEN [direction |-> "NEUTRAL", confidence |-> 0]
        ELSE [direction  |-> IF m.meanReturn > 0 THEN "BULLISH"
                             ELSE IF m.meanReturn < 0 THEN "BEARISH" ELSE "NEUTRAL",
              confidence |-> Least(90, 40 + (3 * horizon) \div 2)]

\* MLPredictor: no model file, indicators that lack candles, or a probability.
Predict(ml) ==
    IF ~ml.trained THEN [status |-> "NOT_TRAINED"]
    ELSE IF ~ml.complete THEN [status |-> "INSUFFICIENT_DATA"]
    ELSE [status |-> "OK", probability_up |-> ml.up,
          direction |-> IF ml.up >= 50 THEN "UP" ELSE "DOWN",
          confidence |-> Most(ml.up, 100 - ml.up)]

\* depth: the imbalance of the notional value on the two sides of the book.
OrderFlow(book) ==
    LET total == book.bids + book.asks IN
    IF ~book.read THEN [status |-> "UNAVAILABLE"]
    ELSE [imbalance |-> IF total = 0 THEN 0 ELSE (100 * (book.bids - book.asks)) \div total]

\* Headlines: their mean score decides the impact.
Summarize(n) ==
    [score |-> n.score, severity |-> n.severity, direction |-> n.direction,
     surprise |-> n.surprise, conviction |-> n.conviction,
     impact |-> IF ~n.any THEN "UNKNOWN"
                ELSE IF n.score > 40 THEN "POSITIVE"
                ELSE IF n.score < -40 THEN "NEGATIVE" ELSE "NEUTRAL"]

\* Slip: the grounding metadata is not asked for.
ResearchUngrounded(g) ==
    [status |-> IF g.status = "parsed" THEN "ok" ELSE g.status,
     impact |-> IF g.impact \in {"POSITIVE", "NEGATIVE", "NEUTRAL", "UNKNOWN"}
                THEN g.impact ELSE "UNKNOWN",
     confidence |-> g.confidence]

\* Gemini's answer counts only with sources from its grounding metadata.
Research(g) ==
    IF g.status # "parsed" THEN [status |-> g.status, impact |-> "UNKNOWN", confidence |-> 0]
    ELSE [status |-> IF g.grounded THEN "ok" ELSE "no_grounding_evidence",
          impact |-> IF g.impact \in {"POSITIVE", "NEGATIVE", "NEUTRAL", "UNKNOWN"}
                     THEN g.impact ELSE "UNKNOWN",
          confidence |-> IF g.grounded THEN g.confidence ELSE 0]

\* Where there is research, its impact replaces that of the headlines.
NewsAnalysis(n, g) ==
    LET rss == Summarize(n)
        r == Research(g)
    IN  [f \in DOMAIN rss \cup {"research"} |->
            CASE f = "research" -> r
              [] f = "impact" /\ r.status = "ok" -> r.impact
              [] OTHER -> rss[f]]

\* Slip: the stub reports no risk.
RiskAnalysisGreen == [risk |-> "LOW", status |-> "OK"]

RiskAnalysis == [risk |-> "UNKNOWN", status |-> "risk_engine_baseline_only"]

\* assess_market_data: thirty candles and a positive price (closes are positive).
DataIsSafe(technical) == technical.closes >= 30

(***************************************************************************)
(* The votes.                                                              *)
(***************************************************************************)
TechnicalVote(technical) == Vote(Toward(technical.trend), 65)

NewsVote(news) ==
    LET own == IF Bias(news.impact) = 0 THEN news.score
               ELSE (news.score + 50 * Bias(news.impact)) \div 2
        score == IF "research" \in DOMAIN news /\ news.research.status = "ok"
                 THEN (own * 45 + Bias(news.research.impact) * news.research.confidence * 55) \div 100
                 ELSE own
    IN  Vote(Lean(score, 20), Least(95, 55 + (Size(score) * 35) \div 100))

\* probability_up; a probability of exactly 0 is falsy and read as one half.
MlVote(ml) ==
    LET p == IF ml.status = "OK" /\ ml.probability_up # 0 THEN ml.probability_up ELSE 50 IN
    Vote(IF p >= 57 THEN "BUY" ELSE IF p <= 43 THEN "SELL" ELSE "WAIT", 50 + 2 * Size(p - 50))

\* The words the vote looks for in a regime's name.
Named(name) == IF name \in {"BULL"} THEN "BUY" ELSE IF name \in {"BEAR"} THEN "SELL" ELSE "WAIT"
RegimeVeto(regime) == regime.vol > 120
RegimeVote(regime) ==
    IF RegimeVeto(regime) THEN Vote("WAIT", 90) ELSE Vote(Named(regime.name), 70)

\* An order book that could not be read has no imbalance, and still votes.
OrderflowVote(flow) ==
    LET imbalance == IF "imbalance" \in DOMAIN flow THEN flow.imbalance ELSE 0 IN
    Vote(Lean(imbalance, 12), Least(95, 55 + Size(imbalance)))

MacroRisk(news) == CASE news.severity = "CRITICAL" -> 100 [] news.severity = "HIGH" -> 80 [] OTHER -> 0
MacroVote(news) ==
    IF MacroRisk(news) >= 80 THEN Vote("WAIT", 80) ELSE Vote(Lean(news.surprise, 20), 60)

\* A confidence of zero is falsy and read as fifty.
Conviction(n) == IF n = 0 THEN 50 ELSE n

HistoricalVote(past) == Vote(Toward(past.direction), Conviction(past.confidence))

SentimentVote(news) == Vote(Toward(news.direction), Conviction(news.conviction))

(***************************************************************************)
(* The tally.                                                              *)
(***************************************************************************)
Weight(votes, a) ==
    SumFunctionOnSet([x \in DOMAIN votes |-> votes[x].weight],
                     {x \in DOMAIN votes : votes[x].action = a})

\* Slip: votes to wait are taken for abstentions.
DeliberateDirections(votes, veto) ==
    LET buy == Weight(votes, "BUY")
        sell == Weight(votes, "SELL")
    IN  [action |-> IF buy + sell = 0 THEN "WAIT" ELSE IF buy >= sell THEN "BUY" ELSE "SELL",
         confidence |-> (100 * Most(buy, sell)) \div Most(1, buy + sell),
         contradiction |-> {"BUY", "SELL"} \subseteq {votes[x].action : x \in DOMAIN votes},
         veto |-> veto]

Deliberate(votes, veto) ==
    LET buy == Weight(votes, "BUY")
        sell == Weight(votes, "SELL")
        wait == Weight(votes, "WAIT")
        top == Most(buy, Most(sell, wait))
    IN  [action |-> IF buy = top THEN "BUY" ELSE IF sell = top THEN "SELL" ELSE "WAIT",
         confidence |-> (100 * top) \div (buy + sell + wait),
         contradiction |-> {"BUY", "SELL"} \subseteq {votes[x].action : x \in DOMAIN votes},
         veto |-> veto]

\* The chief judge.
Judge(d) == IF d.veto \/ d.contradiction THEN "WAIT" ELSE d.action

(***************************************************************************)
(* The orchestrator.                                                       *)
(***************************************************************************)
Objections(confidence, risk, regime, safe) ==
    (IF risk.status \in {"BLOCK", "HIGH", "UNKNOWN"} \/ risk.risk \in {"HIGH", "UNKNOWN"}
     THEN {"risk"} ELSE {})
    \cup (IF regime.name = "UNKNOWN" THEN {"regime"} ELSE {})
    \cup (IF ~safe THEN {"data"} ELSE {})
    \cup (IF confidence < 65 THEN {"confidence"} ELSE {})

\* challenge_trade: an approval stands without any objection.
Approved(raw, confidence, risk, regime, safe) ==
    /\ raw \in {"BUY", "SELL"}
    /\ Objections(confidence, risk, regime, safe) = {}
    /\ confidence >= 60

\* orchestrator.analyze over one reading of the sources.
Orchestrate(in) ==
    LET technical == TechnicalAnalysis(in.market)
        regime == DetectRegime(in.market)
        votes == [technical |-> TechnicalVote(technical),
                  news |-> NewsVote(NewsAnalysis(in.news, in.gemini)),
                  ml |-> MlVote(Predict(in.ml)), regime |-> RegimeVote(regime)]
        d == Deliberate(votes, RegimeVeto(regime))
        safe == DataIsSafe(technical)
    IN  [decision |-> IF /\ safe /\ ~d.veto /\ ~d.contradiction
                         /\ Approved(Judge(d), d.confidence, RiskAnalysis, regime, safe)
                      THEN Judge(d) ELSE "NO_TRADE",
         confidence |-> d.confidence]

(***************************************************************************)
(* build_council.                                                          *)
(***************************************************************************)
ExecutionRisk == [status |-> "DEFER_TO_EXECUTION_RISK_ENGINE"]

\* TradingKnowledgeEngine.evaluate_setup; the analyser never marks news unverified.
Blockers(news, risk) ==
    (IF risk.status \notin {"OK", "PASS"} THEN {"risk_not_passed"} ELSE {})
    \cup (IF news.severity \in {"CRITICAL", "HIGH"} THEN {"market_moving_news"} ELSE {})

IntelVotes(in) ==
    LET news == Summarize(in.news) IN
    [technical |-> TechnicalVote(TechnicalAnalysis(in.market)), news |-> NewsVote(news),
     ml |-> MlVote(Predict(in.ml)),
     regime |-> RegimeVote(DetectRegime(in.market)),
     orderflow |-> OrderflowVote(OrderFlow(in.book)), macro |-> MacroVote(news),
     historical |-> HistoricalVote(HistoricalContext(in.market)), sentiment |-> SentimentVote(news)]

\* Slip: no veto on critical news.
BuildCouncilNoVeto(in) ==
    LET d == Deliberate(IntelVotes(in), RegimeVeto(DetectRegime(in.market))) IN
    [action |-> Judge(d), veto |-> d.veto, confidence |-> d.confidence, ready |-> FALSE]

BuildCouncil(in) ==
    LET d == Deliberate(IntelVotes(in), RegimeVeto(DetectRegime(in.market)))
        critical == in.news.severity = "CRITICAL"
        action == IF critical THEN "WAIT" ELSE Judge(d)
        veto == d.veto \/ critical
    IN  [action |-> action, veto |-> veto, confidence |-> d.confidence,
         ready |-> action \in {"BUY", "SELL"} /\ ~veto /\ Blockers(in.news, ExecutionRisk) = {}]

\* OpportunityEngine.rank; momentum is a change in per cent.
Rank(confidence, momentum) ==
    Most(0, Least(100, (confidence * 7 + momentum * 3 - (100 - confidence) * 2) \div 10))
=============================================================================
