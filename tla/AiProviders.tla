----------------------------- MODULE AiProviders -----------------------------
(***************************************************************************)
(* FallbackProviderChain and ChiefOperator: what becomes of the answers of *)
(* several language models.  raw[p] is what provider p does when it is     *)
(* asked: kind "no_key", "raises" (transport, HTTP status, missing         *)
(* fields), "not_json", "empty" (the object {}), or "object", of which the *)
(* decision and the confidence (per cent) matter.                          *)
(***************************************************************************)
EXTENDS Integers, FiniteSets, Sequences, Functions

Decisions == <<"BUY", "SELL", "NO_TRADE">>  \* the order in which votes are kept

\* The body of an HTTP answer, or why there is none.
Call(r) ==
    [status |-> CASE r.kind = "no_key" -> "not_configured"
                  [] r.kind = "raises" -> "provider_error"
                  [] r.kind = "not_json" -> "invalid_model_output"
                  [] OTHER -> "answered",
     decision |-> IF r.kind = "empty" THEN "NO_TRADE" ELSE r.decision,
     confidence |-> IF r.kind = "empty" THEN 0 ELSE r.confidence]

Clamp(n) == IF n < 0 THEN 0 ELSE IF n > 100 THEN 100 ELSE n

Normalize(a) == [a EXCEPT
    !.decision = IF @ \in Range(Decisions) THEN @ ELSE "NO_TRADE",
    !.confidence = Clamp(@)]

Usable(a) == a.status \notin {"not_configured", "provider_error", "invalid_model_output"}

NoTrade == [decision |-> "NO_TRADE", confidence |-> 0]

Reply(a) == [decision |-> a.decision, confidence |-> a.confidence]

\* The first provider of the configured order that answers; an empty object
\* is an answer here.
Fallback(order, raw) ==
    LET answered == {i \in DOMAIN order : Usable(Call(raw[order[i]]))} IN
    IF answered = {} THEN NoTrade
    ELSE LET first == CHOOSE i \in answered : \A j \in answered : i <= j
         IN  Reply(Normalize(Call(raw[order[first]])))

\* max(votes, key=votes.get): ties go to the entry that was put in first.
Heaviest(votes) == CHOOSE i \in 1..3 :
    /\ \A j \in 1..3 : votes[i] >= votes[j]
    /\ \A j \in 1..3 : votes[j] = votes[i] => i <= j

\* An empty object is dropped before anything is counted.
Counted(order, raw) == {p \in Range(order) : raw[p].kind # "empty" /\ Usable(Call(raw[p]))}

\* Slip: the loudest answer alone decides.
EnsembleLoudest(order, raw) ==
    LET said == [p \in Counted(order, raw) |-> Normalize(Call(raw[p]))] IN
    IF DOMAIN said = {} THEN NoTrade
    ELSE Reply(said[CHOOSE p \in DOMAIN said :
                        \A q \in DOMAIN said : said[p].confidence >= said[q].confidence])

\* Everybody is asked and the confidences of each decision are added up.
Ensemble(order, raw) ==
    LET valid == Counted(order, raw)
        said == [p \in valid |-> Normalize(Call(raw[p]))]
        For(d) == {p \in valid : said[p].decision = d}
        Sum(S) == SumFunctionOnSet([p \in valid |-> said[p].confidence], S)
        top == Decisions[Heaviest([i \in 1..3 |-> Sum(For(Decisions[i]))])]
        agreeing == Cardinality(For(top))
    IN  IF \/ valid = {}
           \/ agreeing < 2 /\ Cardinality(valid) > 1
        THEN NoTrade
        ELSE [decision |-> top,
              confidence |-> IF agreeing = 0 THEN 0 ELSE Sum(For(top)) \div agreeing]

Analyze(mode, order, raw) ==
    IF mode = "ensemble" THEN Ensemble(order, raw) ELSE Fallback(order, raw)

\* ChiefOperator.analyze checks decision and confidence once more.
ChiefOperator(mode, order, raw) ==
    Normalize(Analyze(mode, order, raw))
=============================================================================
