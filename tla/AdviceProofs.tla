---------------------------- MODULE AdviceProofs ----------------------------
(***************************************************************************)
(* Proofs about Advice, for any watchlist, any answers of the providers    *)
(* and any readings of the sources: no advice is a decision to act,        *)
(* nothing reaches a human while the news is critical, claims without      *)
(* sources move no vote, a decision to trade is backed by answers, and the *)
(* scanner with its own threshold waits for a surge.                       *)
(***************************************************************************)
EXTENDS Advice, FiniteSetTheorems, WellFoundedInduction, TLAPS

\* The queue is a sequence, and the queue's one sender waits for what is in it.
IInv == TypeOK /\ queue \in Seq(Symbols)

-----------------------------------------------------------------------------
(* What the analyses return.                                               *)

\* The risk agent is a stub that knows nothing, and the unknown is objected to.
LEMMA OrchestratorRefuses == ASSUME NEW in PROVE Orchestrate(in).decision = "NO_TRADE"
  <1>1. \A raw, confidence, regime, safe : ~Approved(raw, confidence, RiskAnalysis, regime, safe)
    <2>1. \A confidence, regime, safe : "risk" \in Objections(confidence, RiskAnalysis, regime, safe)
      BY DEF Objections, RiskAnalysis
    <2> QED
      BY <2>1 DEF Approved
  <1> QED
    BY <1>1, Zenon DEF Orchestrate

\* The execution risk that build_council reports is no status that passes.
LEMMA CouncilNotReady == ASSUME NEW in PROVE BuildCouncil(in).ready = FALSE
  <1>1. \A news : "risk_not_passed" \in Blockers(news, ExecutionRisk)
    BY DEF Blockers, ExecutionRisk
  <1> QED
    BY <1>1 DEF BuildCouncil

LEMMA CriticalIsVetoed ==
  ASSUME NEW in, in.news.severity = "CRITICAL"
  PROVE  BuildCouncil(in).veto = TRUE
  BY DEF BuildCouncil

\* What a symbol or the intel route asks for is a council.
LEMMA CouncilOutcome ==
  ASSUME NEW job, job.by \in CouncilJobs
  PROVE  Outcome(job) = BuildCouncil(job.in)
  <1>1. job.by \notin {"orchestrator", "brain"}
    BY AdviceAssumption DEF CouncilJobs
  <1> QED
    BY <1>1 DEF Outcome

-----------------------------------------------------------------------------
LEMMA EmptyLength == Len(<<>>) = 0 /\ <<>> \in Seq(Symbols) /\ Range(<<>>) \subseteq Symbols
  BY DEF Range

LEMMA SeqRange == ASSUME NEW q \in Seq(Symbols) PROVE Range(q) \subseteq Symbols
  BY DEF Range

LEMMA InitIInv == Init => IInv
  BY EmptyLength, AdviceAssumption DEF Init, IInv, TypeOK

\* Only the opportunity scanner's Consider makes the queue longer.
LEMMA NextIInv ==
  ASSUME IInv, [Next]_vars
  PROVE  /\ IInv'
         /\ Len(queue') > Len(queue) => Consider
  <1> USE DEF IInv, TypeOK
  <1>0. queue \in Seq(Symbols) /\ Len(queue) \in Nat
    OBVIOUS
  <1>1. CASE Ask
    BY <1>0, <1>1 DEF Ask, AskMarket, AskIntel, AskBrain, Job
  <1>2. CASE Respond \/ UNCHANGED vars
    BY <1>0, <1>2 DEF Respond, vars
  <1>3. CASE StartRound \/ EndRound \/ EvidenceFails
    BY <1>0, <1>3 DEF StartRound, EndRound, EvidenceFails
  <1>4. ASSUME NEW s \in Symbols, Evaluate(s)
        PROVE  IInv' /\ (Len(queue') > Len(queue) => Consider)
    BY <1>0, <1>4 DEF Evaluate, Job
  <1>5. CASE Consider
    <2>1. desk.by \in Symbols
      BY <1>5 DEF Consider, Awaiting
    <2>2. queue' \in Seq(Symbols) /\ Len(queue') <= MaxQueue
      <3>1. CASE UNCHANGED queue
        BY <3>1
      <3>2. CASE Len(queue) < MaxQueue /\ queue' = Append(queue, desk.by)
        BY <1>0, <2>1, <3>2, AdviceAssumption
      <3> QED
        BY <1>5, <3>1, <3>2 DEF Consider
    <2>3. UNCHANGED <<latest, round, last>> /\ desk' = None
      BY <1>5 DEF Consider
    <2>4. Range(queue') \subseteq Symbols
      BY <2>2, SeqRange
    <2>5. TypeOK'
      BY <2>2, <2>3, <2>4 DEF TypeOK
    <2> QED
      BY <1>5, <2>2, <2>5
  <1>6. CASE Notify
    <2>1. queue' = Tail(queue) /\ queue # <<>>
      BY <1>6 DEF Notify
    <2>2. queue' \in Seq(Symbols) /\ Len(queue') <= Len(queue) /\ ~(Len(queue') > Len(queue))
      BY <1>0, <2>1
    <2>3. Range(queue') \subseteq Symbols
      BY <2>2, SeqRange
    <2>4. Len(queue') <= MaxQueue
      BY <1>0, <2>2, AdviceAssumption
    <2>5. UNCHANGED <<latest, round, desk>> /\ last' \in {None, "MEDIUM"}
      BY <1>6 DEF Notify
    <2>6. TypeOK'
      BY <2>3, <2>4, <2>5 DEF TypeOK
    <2> QED
      BY <2>2, <2>6
  <1>7. ASSUME NEW s \in Symbols, ScanMarket(s)
        PROVE  IInv' /\ (Len(queue') > Len(queue) => Consider)
    BY <1>0, <1>7 DEF ScanMarket
  <1> QED
    BY <1>1, <1>2, <1>3, <1>4, <1>5, <1>6, <1>7 DEF Next, OpportunityScanner

LEMMA Inductive == Spec => []IInv
  <1>1. IInv /\ [Next]_vars => IInv'
    BY NextIInv
  <1> QED
    BY <1>1, InitIInv, PTL DEF Spec

-----------------------------------------------------------------------------
\* Every reachable state is well typed: a walk never names a symbol that the
\* market scanner has not read, and the queue keeps its bound.
THEOREM TypeCorrect == Spec => []TypeOK
  <1>1. IInv => TypeOK
    BY DEF IInv
  <1> QED
    BY <1>1, Inductive, PTL

\* Whatever the market, the news, the model, Gemini and the order book say, the
\* orchestrator decides NO_TRADE and build_council's setup is not ready.
THEOREM AdviceIsInert == Spec => []AdviceNeverActs
  <1>1. AdviceNeverActs
    BY OrchestratorRefuses, CouncilNotReady, CouncilOutcome, Zenon
       DEF AdviceNeverActs, Done, Outcome
  <1> QED
    BY <1>1, PTL

\* An opportunity is queued only by a council that did not see critical news.
THEOREM CriticalIsHeld == Spec => CriticalIsNeverQueued
  <1>1. ASSUME IInv, [Next]_vars, Len(queue') > Len(queue)
        PROVE  desk.in.news.severity # "CRITICAL"
    <2>1. Consider
      BY <1>1, NextIInv
    <2>2. desk.by \in CouncilJobs
      BY <2>1 DEF Consider, Awaiting, CouncilJobs
    <2>3. queue' # queue
      BY <1>1 DEF IInv
    <2>4. Outcome(desk).veto # TRUE
      BY <2>1, <2>3 DEF Consider, Surfaces
    <2> QED
      BY <2>2, <2>4, CouncilOutcome, CriticalIsVetoed
  <1>2. IInv /\ [Next]_vars => [Len(queue') > Len(queue) => desk.in.news.severity # "CRITICAL"]_vars
    BY <1>1
  <1> QED
    BY <1>2, Inductive, PTL DEF Spec, CriticalIsNeverQueued

-----------------------------------------------------------------------------
(* What is asked is what was read.                                         *)

DeskInv ==
    \/ desk = None
    \/ desk.by = "orchestrator" /\ desk.in \in OrchestratorInputs
    \/ desk.by = "brain" /\ desk.in \in BrainInputs
    \/ desk.by \in CouncilJobs /\ desk.in \in CouncilInputs

\* Who asks is told apart by name.
LEMMA Names ==
  "orchestrator" \notin CouncilJobs /\ "brain" \notin CouncilJobs
  BY AdviceAssumption DEF CouncilJobs

LEMMA DeskInductive == Spec => []DeskInv
  <1>1. Init => DeskInv
    BY DEF Init, DeskInv
  <1>2. DeskInv /\ [Next]_vars => DeskInv'
    <2> SUFFICES ASSUME DeskInv, [Next]_vars PROVE DeskInv'
      OBVIOUS
    <2>1. CASE Ask
      BY <2>1 DEF Ask, AskMarket, AskIntel, AskBrain, Job, DeskInv, CouncilJobs
    <2>2. ASSUME NEW s \in Symbols, Evaluate(s) PROVE DeskInv'
      BY <2>2 DEF Evaluate, Job, DeskInv, CouncilJobs
    <2>3. CASE Respond \/ EvidenceFails \/ Consider
      BY <2>3 DEF Respond, EvidenceFails, Consider, DeskInv
    <2>4. CASE \/ StartRound \/ EndRound \/ Notify \/ UNCHANGED vars
               \/ \E s \in Symbols : ScanMarket(s)
      BY <2>4 DEF StartRound, EndRound, Notify, ScanMarket, vars, DeskInv
    <2> QED
      BY <2>1, <2>2, <2>3, <2>4 DEF Next, OpportunityScanner
  <1> QED
    BY <1>1, <1>2, PTL DEF Spec

-----------------------------------------------------------------------------
(* Research without sources.                                               *)

LEMMA NoSourcesNoVote ==
  ASSUME NEW n \in NewsItems, NEW g \in GeminiAnswers, ~g.grounded
  PROVE  NewsVote(NewsAnalysis(n, g)) = NewsVote(Summarize(n))
  <1> DEFINE rss == Summarize(n)
             news == NewsAnalysis(n, g)
  <1>1. Research(g).status # "ok"
    <2>1. g.status # "ok"
      BY SourcesAssumption
    <2> QED
      BY <2>1 DEF Research
  <1>2. "research" \notin DOMAIN rss /\ {"impact", "score"} \subseteq DOMAIN rss
    BY DEF Summarize
  <1>3. /\ news.impact = rss.impact /\ news.score = rss.score
        /\ "research" \in DOMAIN news /\ news.research = Research(g)
    <2> HIDE DEF rss
    <2> QED
      BY <1>1, <1>2 DEF NewsAnalysis, rss
  <1> HIDE DEF rss, news
  <1>4. NewsVote(news) = NewsVote(rss)
    BY <1>1, <1>2, <1>3 DEF NewsVote
  <1> QED
    BY <1>4 DEF rss, news

\* Gemini's claims without sources from its grounding metadata never move the
\* news agent's vote, whatever they are and whatever the headlines say.
THEOREM UngroundedMovesNothing == Spec => []UngroundedIsIgnored
  <1>1. DeskInv => UngroundedIsIgnored
    <2> SUFFICES ASSUME DeskInv, Done({"orchestrator"}), ~desk.in.gemini.grounded
                 PROVE  NewsVote(NewsAnalysis(desk.in.news, desk.in.gemini))
                          = NewsVote(Summarize(desk.in.news))
      BY DEF UngroundedIsIgnored
    <2>1. desk.in \in OrchestratorInputs
      BY Names DEF DeskInv, Done
    <2>2. desk.in.news \in NewsItems /\ desk.in.gemini \in GeminiAnswers
      BY <2>1 DEF OrchestratorInputs
    <2> QED
      BY <2>2, NoSourcesNoVote
  <1> QED
    BY <1>1, DeskInductive, PTL

-----------------------------------------------------------------------------
(* Decisions and the answers behind them.                                  *)

\* Every nonempty set of naturals has a least element.
LEMMA Least1 ==
  ASSUME NEW S \in SUBSET Nat, S # {}
  PROVE  \E m \in S : \A k \in S : m <= k
  <1>1. PICK m \in S : \A k \in S : ~(<<k, m>> \in OpToRel(<, Nat))
    BY NatLessThanWellFounded, WFMin, Zenon
  <1>2. \A k \in S : ~(k < m)
    BY <1>1 DEF OpToRel
  <1> QED
    BY <1>2

LEMMA OrderFinite == IsFiniteSet(Range(Order))
  <1>1. Order \in [1..Len(Order) -> Range(Order)] /\ Len(Order) \in Nat
    BY SourcesAssumption DEF Range
  <1>2. Order \in Surjection(1..Len(Order), Range(Order))
    BY <1>1 DEF Surjection, Range
  <1>3. IsFiniteSet(1..Len(Order))
    BY <1>1, FS_Interval
  <1> QED
    BY <1>2, <1>3, FS_Surjection

\* What Normalize does to a reply: a decision that is none of Decisions becomes
\* NO_TRADE, a confidence stays within a hundred.
LEMMA Normalized ==
  ASSUME NEW d, NEW c
  PROVE  LET n == Normalize([decision |-> d, confidence |-> c]) IN
         /\ n.decision \in {d, "NO_TRADE"} /\ n.decision \in Range(Decisions)
         /\ n.confidence = Clamp(c)
  <1>1. "NO_TRADE" \in Range(Decisions)
    BY DEF Range, Decisions
  <1> QED
    BY <1>1 DEF Normalize

\* The same of a provider's answer.
LEMMA Unnormalized ==
  ASSUME NEW r
  PROVE  LET n == Normalize(Call(r)) IN
         /\ n.decision \in {r.decision, "NO_TRADE"}
         /\ n.decision # "NO_TRADE" => r.kind # "empty"
         /\ r.decision \in Range(Decisions) /\ r.kind # "empty" => n.decision = r.decision
  BY DEF Normalize, Call

LEMMA ValidFinite ==
  ASSUME NEW raw
  PROVE  IsFiniteSet(Valid(raw))
  BY OrderFinite, FS_Subset DEF Valid, Counted

\* Outside the ensemble the first usable answer decides.
LEMMA FirstAnswerIsBacked ==
  ASSUME NEW mode, mode # "ensemble", NEW raw,
         ChiefOperator(mode, Order, raw).decision # "NO_TRADE"
  PROVE  \E p \in Valid(raw) : raw[p].decision = ChiefOperator(mode, Order, raw).decision
  <1> DEFINE answered == {i \in DOMAIN Order : Usable(Call(raw[Order[i]]))}
             first == CHOOSE i \in answered : \A j \in answered : i <= j
             p == Order[first]
             out == ChiefOperator(mode, Order, raw)
  <1>1. out = Normalize(Fallback(Order, raw))
    BY DEF ChiefOperator, Analyze
  <1>2. answered # {}
    <2>1. CASE answered = {}
      <3>1. Fallback(Order, raw) = [decision |-> "NO_TRADE", confidence |-> 0]
        BY <2>1 DEF Fallback, NoTrade
      <3> QED
        BY <1>1, <3>1, Normalized
    <2> QED
      BY <2>1
  <1>3. first \in answered
    <2>1. answered \subseteq Nat
      BY SourcesAssumption
    <2> HIDE DEF answered
    <2>2. \E i \in answered : \A j \in answered : i <= j
      BY <1>2, <2>1, Least1
    <2> QED
      BY <2>2
  <1>4. p \in Range(Order) /\ Usable(Call(raw[p]))
    BY <1>3 DEF Range
  <1>5. Fallback(Order, raw) = Reply(Normalize(Call(raw[p])))
    BY <1>2 DEF Fallback
  <1>6. out.decision = Normalize(Call(raw[p])).decision
    <2> HIDE DEF p
    <2> DEFINE n == Normalize(Call(raw[p]))
    <2>1. Fallback(Order, raw) = [decision |-> n.decision, confidence |-> n.confidence]
      BY <1>5 DEF Reply
    <2> HIDE DEF n
    <2>2. out.decision \in {n.decision, "NO_TRADE"}
      BY <1>1, <2>1, Normalized
    <2> QED
      BY <2>2 DEF n
  <1> HIDE DEF p, out
  <1>7. out.decision = raw[p].decision /\ raw[p].kind # "empty"
    BY <1>6, Unnormalized DEF out
  <1>8. p \in Valid(raw)
    BY <1>4, <1>7 DEF Valid, Counted
  <1> QED
    BY <1>7, <1>8 DEF out

\* In the ensemble the answers that say what is decided are counted: one at
\* least where the decision has any confidence, two where several answered.
LEMMA AgreementIsBacked ==
  ASSUME NEW raw, NEW in, in.raw = raw, in.mode = "ensemble"
  PROVE  Backed(in, ChiefOperator("ensemble", Order, raw))
  <1> DEFINE valid == Valid(raw)
             said == [p \in valid |-> Normalize(Call(raw[p]))]
             For(d) == {p \in valid : said[p].decision = d}
             Sum(S) == SumFunctionOnSet([p \in valid |-> said[p].confidence], S)
             top == Decisions[Heaviest([i \in 1..3 |-> Sum(For(Decisions[i]))])]
             agreeing == Cardinality(For(top))
             sure == IF agreeing = 0 THEN 0 ELSE Sum(For(top)) \div agreeing
             out == ChiefOperator("ensemble", Order, raw)
             backing == {p \in valid : raw[p].decision = out.decision}
  <1> SUFFICES ASSUME out.decision # "NO_TRADE", out.confidence > 0
               PROVE  backing # {} /\ (Cardinality(valid) > 1 => Cardinality(backing) > 1)
    BY DEF Backed
  <1>1. out = Normalize(Ensemble(Order, raw))
    BY DEF ChiefOperator, Analyze
  <1>2. Ensemble(Order, raw) =
           IF valid = {} \/ (agreeing < 2 /\ Cardinality(valid) > 1)
           THEN [decision |-> "NO_TRADE", confidence |-> 0]
           ELSE [decision |-> top, confidence |-> sure]
    BY DEF Ensemble, Valid, NoTrade
  <1> HIDE DEF out, valid, top, sure, For, said
  <1>3. ~(valid = {} \/ (agreeing < 2 /\ Cardinality(valid) > 1))
    BY <1>1, <1>2, Normalized
  <1>4. out = Normalize([decision |-> top, confidence |-> sure])
    BY <1>1, <1>2, <1>3
  <1>5. out.decision = top /\ top \in Range(Decisions) /\ top # "NO_TRADE"
    BY <1>4, Normalized
  <1>6. sure # 0
    BY <1>4, Normalized DEF Clamp
  <1>7. agreeing # 0
    BY <1>6 DEF sure
  <1>8. For(top) = backing
    <2>1. \A p \in valid : raw[p].kind # "empty"
      BY DEF valid, Valid, Counted
    <2> QED
      BY <1>5, <2>1, Unnormalized DEF For, said
  <1>9. IsFiniteSet(For(top))
    BY ValidFinite, FS_Subset DEF For, valid
  <1>10. agreeing \in Nat /\ For(top) # {}
    BY <1>7, <1>9, FS_CardinalityType, FS_EmptySet
  <1> QED
    BY <1>3, <1>8, <1>10

\* No decision to trade comes out of the chain or of the ensemble that some
\* provider did not give, and with several answers the ensemble needs two.
THEOREM DecisionsAreBacked == Spec => []BackedByAnswers
  <1>1. DeskInv => BackedByAnswers
    <2> SUFFICES ASSUME DeskInv, Done({"brain"})
                 PROVE  Backed(desk.in, Outcome(desk))
      BY DEF BackedByAnswers
    <2>1. desk.by = "brain" /\ Outcome(desk) = ChiefOperator(desk.in.mode, Order, desk.in.raw)
      BY DEF Done, Outcome
    <2>2. CASE desk.in.mode = "ensemble"
      BY <2>1, <2>2, AgreementIsBacked, Zenon
    <2>3. CASE desk.in.mode # "ensemble"
      <3> DEFINE out == ChiefOperator(desk.in.mode, Order, desk.in.raw)
      <3>1. out.decision # "NO_TRADE" =>
               \E p \in Valid(desk.in.raw) : desk.in.raw[p].decision = out.decision
        BY <2>3, FirstAnswerIsBacked
      <3> QED
        BY <2>1, <2>3, <3>1 DEF Backed
    <2> QED
      BY <2>2, <2>3
  <1> QED
    BY <1>1, DeskInductive, PTL

-----------------------------------------------------------------------------
(* Sums of weights.  The sum of a weight over a set is the number of the   *)
(* units of weight its members hold, so that what is true of sums is true  *)
(* of the sizes of finite sets.                                            *)

\* No vote weighs more (the model's, when it is certain).
Heavy == 150
Units(f, S) == {u \in S \X (1..Heavy) : u[2] <= f[u[1]]}
Bulk(f, S) == Cardinality(Units(f, S))

LEMMA BulkIsNat ==
  ASSUME NEW S, IsFiniteSet(S), NEW f
  PROVE  IsFiniteSet(Units(f, S)) /\ Bulk(f, S) \in Nat
  <1>1. IsFiniteSet(1..Heavy)
    <2>1. 1 \in Int /\ Heavy \in Int
      BY DEF Heavy
    <2> QED
      BY <2>1, FS_Interval, Zenon
  <1>2. IsFiniteSet(S \X (1..Heavy))
    BY <1>1, FS_Product
  <1>3. Units(f, S) \subseteq S \X (1..Heavy)
    BY DEF Units
  <1> QED
    BY <1>2, <1>3, FS_Subset, FS_CardinalityType DEF Bulk

LEMMA BulkOfOne ==
  ASSUME NEW f, NEW x, f[x] \in 0..Heavy
  PROVE  Bulk(f, {x}) = f[x]
  <1>1. IsFiniteSet(1..f[x]) /\ Cardinality(1..f[x]) = f[x] /\ f[x] \in Nat
    <2>1. f[x] \in Nat
      BY DEF Heavy
    <2>2. IsFiniteSet(1..f[x]) /\ Cardinality(1..f[x]) = IF 1 > f[x] THEN 0 ELSE f[x] - 1 + 1
      BY <2>1, FS_Interval
    <2> QED
      BY <2>1, <2>2
  <1>2. IsFiniteSet({x}) /\ Cardinality({x}) = 1
    BY FS_Singleton
  <1>3. Cardinality({x} \X (1..f[x])) = Cardinality({x}) * Cardinality(1..f[x])
    BY <1>1, <1>2, FS_Product, Zenon
  <1>4. Units(f, {x}) = {x} \X (1..f[x])
    BY DEF Units, Heavy
  <1>5. Bulk(f, {x}) = Cardinality({x} \X (1..f[x]))
    BY <1>4 DEF Bulk
  <1> QED
    BY <1>1, <1>2, <1>3, <1>5

LEMMA BulkSplits ==
  ASSUME NEW A, IsFiniteSet(A), NEW B, IsFiniteSet(B), A \cap B = {}, NEW f
  PROVE  Bulk(f, A \cup B) = Bulk(f, A) + Bulk(f, B)
  <1>1. Units(f, A \cup B) = Units(f, A) \cup Units(f, B)
    BY DEF Units
  <1>2. Units(f, A) \cap Units(f, B) = {}
    BY DEF Units
  <1>3. Cardinality(Units(f, A) \cap Units(f, B)) = 0
    BY <1>2, FS_EmptySet, Zenon
  <1>4. Cardinality(Units(f, A) \cup Units(f, B)) =
          Bulk(f, A) + Bulk(f, B) - Cardinality(Units(f, A) \cap Units(f, B))
    BY BulkIsNat, FS_Union, Zenon DEF Bulk
  <1>5. Bulk(f, A \cup B) = Cardinality(Units(f, A) \cup Units(f, B))
    BY <1>1 DEF Bulk
  <1>6. Bulk(f, A) \in Nat /\ Bulk(f, B) \in Nat
    BY BulkIsNat
  <1> QED
    BY <1>3, <1>4, <1>5, <1>6

LEMMA BulkGrows ==
  ASSUME NEW B, IsFiniteSet(B), NEW A \in SUBSET B, NEW f
  PROVE  Bulk(f, A) <= Bulk(f, B)
  <1>1. Units(f, A) \subseteq Units(f, B)
    BY DEF Units
  <1> QED
    BY <1>1, BulkIsNat, FS_Subset DEF Bulk

\* The recursion behind SumFunctionOnSet: one member's weight and the rest's.
Added(f, s, g) ==
    IF s = {} THEN 0 ELSE LET x == CHOOSE x \in s : TRUE IN f[x] + g[s \ {x}]

LEMMA BulkAdded ==
  ASSUME NEW S, IsFiniteSet(S), NEW f, \A x \in S : f[x] \in 0..Heavy,
         NEW s \in SUBSET S, NEW g, s # {} => \A x \in s : g[s \ {x}] = Bulk(f, s \ {x})
  PROVE  Added(f, s, g) = Bulk(f, s)
  <1>1. CASE s = {}
    <2>1. Units(f, s) = {}
      BY <1>1 DEF Units
    <2> QED
      BY <1>1, <2>1, FS_EmptySet DEF Added, Bulk
  <1>2. CASE s # {}
    <2> DEFINE x == CHOOSE x \in s : TRUE
    <2>1. x \in s
      BY <1>2
    <2>2. Added(f, s, g) = f[x] + g[s \ {x}]
      BY <1>2 DEF Added
    <2> HIDE DEF x
    <2>3. IsFiniteSet(s \ {x}) /\ IsFiniteSet({x}) /\ (s \ {x}) \cap {x} = {} /\ s = (s \ {x}) \cup {x}
      BY <2>1, FS_Subset, FS_Singleton
    <2>4. Bulk(f, s) = Bulk(f, s \ {x}) + Bulk(f, {x})
      BY <2>3, BulkSplits
    <2>5. Bulk(f, {x}) = f[x] /\ f[x] \in Nat
      BY <2>1, BulkOfOne DEF Heavy
    <2>6. Bulk(f, s \ {x}) \in Nat
      BY <2>3, BulkIsNat
    <2> QED
      BY <1>2, <2>1, <2>2, <2>4, <2>5, <2>6
  <1> QED
    BY <1>1, <1>2

\* Weights add up to their bulk, in whatever order they are taken.
LEMMA SumIsBulk ==
  ASSUME NEW S, IsFiniteSet(S), NEW f, \A x \in S : f[x] \in 0..Heavy
  PROVE  SumFunctionOnSet(f, S) = Bulk(f, S)
  <1> DEFINE Solves(g) == g = [s \in SUBSET S |-> Added(f, s, g)]
             sum == CHOOSE g : Solves(g)
             wrong == {s \in SUBSET S : sum[s] # Bulk(f, s)}
  <1>1. SumFunctionOnSet(f, S) = sum[S]
    BY DEF SumFunctionOnSet, FoldFunctionOnSet, MapThenFoldSet, Added
  <1>2. Solves(sum)
    <2> DEFINE bulk == [s \in SUBSET S |-> Bulk(f, s)]
    <2>1. \A s \in SUBSET S : Added(f, s, bulk) = Bulk(f, s)
      <3>1. \A s \in SUBSET S : \A x \in s : bulk[s \ {x}] = Bulk(f, s \ {x})
        OBVIOUS
      <3> HIDE DEF bulk
      <3> QED
        BY <3>1, BulkAdded
    <2>2. Solves(bulk)
      BY <2>1, Zenon
    <2> HIDE DEF Solves
    <2> QED
      BY <2>2
  <1>3. \A s \in SUBSET S : sum[s] = Added(f, s, sum)
    <2> HIDE DEF sum
    <2> QED
      BY <1>2, Zenon
  <1> HIDE DEF sum
  <1>4. wrong = {}
    <2> SUFFICES ASSUME wrong # {} PROVE FALSE
      OBVIOUS
    <2> DEFINE sizes == {Cardinality(s) : s \in wrong}
    <2>1. \A s \in SUBSET S : IsFiniteSet(s) /\ Cardinality(s) \in Nat
      BY FS_Subset, FS_CardinalityType
    <2>2. sizes \in SUBSET Nat /\ sizes # {}
      BY <2>1
    <2>3. PICK s \in wrong : \A t \in wrong : Cardinality(s) <= Cardinality(t)
      <3> HIDE DEF wrong
      <3>1. PICK m \in sizes : \A k \in sizes : m <= k
        <4> HIDE DEF sizes
        <4> QED
          BY <2>2, Least1
      <3> QED
        BY <3>1
    <2>4. \A x \in s : sum[s \ {x}] = Bulk(f, s \ {x})
      <3> SUFFICES ASSUME NEW x \in s, s \ {x} \in wrong PROVE FALSE
        OBVIOUS
      <3>1. Cardinality(s \ {x}) = Cardinality(s) - 1
        BY <2>1, FS_RemoveElement
      <3> QED
        BY <2>1, <2>3, <3>1
    <2>5. Added(f, s, sum) = Bulk(f, s)
      BY <2>4, BulkAdded
    <2> QED
      BY <1>3, <2>5
  <1> QED
    BY <1>1, <1>4

-----------------------------------------------------------------------------
(* The council's confidence.                                               *)

\* A quotient of per cents.
LEMMA AtMostNinety ==
  ASSUME NEW a \in Nat, NEW b \in Nat, b > 0, 100 * a < 91 * b
  PROVE  (100 * a) \div b \in Int /\ (100 * a) \div b <= 90
  <1> DEFINE q == (100 * a) \div b
             r == (100 * a) % b
  <1>1. q \in Int /\ r \in 0..(b - 1) /\ 100 * a = b * q + r
    OBVIOUS
  <1> HIDE DEF q, r
  <1>2. ASSUME q > 90 PROVE FALSE
    <2>1. b * q >= b * 91
      BY <1>1, <1>2
    <2> QED
      BY <1>1, <2>1
  <1> QED
    BY <1>1, <1>2 DEF q

\* The weight of a direction is that of the agents who vote for it.
LEMMA WeightIsBulk ==
  ASSUME NEW votes, IsFiniteSet(DOMAIN votes), NEW a,
         \A x \in DOMAIN votes : votes[x].weight \in 0..Heavy
  PROVE  LET f == [x \in DOMAIN votes |-> votes[x].weight]
             cast == {x \in DOMAIN votes : votes[x].action = a}
         IN  IsFiniteSet(cast) /\ Weight(votes, a) = Bulk(f, cast)
  <1> DEFINE f == [x \in DOMAIN votes |-> votes[x].weight]
             cast == {x \in DOMAIN votes : votes[x].action = a}
  <1>1. \A x \in DOMAIN votes : f[x] \in 0..Heavy
    OBVIOUS
  <1>2. IsFiniteSet(cast)
    BY FS_Subset
  <1>3. SumFunctionOnSet(f, cast) = Bulk(f, cast)
    <2> HIDE DEF f
    <2> QED
      BY <1>1, <1>2, SumIsBulk
  <1> QED
    BY <1>2, <1>3 DEF Weight

\* One vote for WAIT that weighs seventy or more, and six hundred and seventy
\* at most among the others: a direction gets no more than ninety per cent.
LEMMA NinetyAgainstWait ==
  ASSUME NEW votes, IsFiniteSet(DOMAIN votes), NEW veto,
         \A x \in DOMAIN votes : votes[x].weight \in 0..Heavy,
         NEW w \in DOMAIN votes, votes[w].action = "WAIT", votes[w].weight >= 70,
         Bulk([x \in DOMAIN votes |-> votes[x].weight], DOMAIN votes \ {w}) <= 670
  PROVE  LET d == Deliberate(votes, veto) IN
         d.action = "WAIT" \/ (d.confidence \in Int /\ d.confidence <= 90)
  <1> DEFINE f == [x \in DOMAIN votes |-> votes[x].weight]
             cast(a) == {x \in DOMAIN votes : votes[x].action = a}
             buy == Weight(votes, "BUY")
             sell == Weight(votes, "SELL")
             wait == Weight(votes, "WAIT")
             d == Deliberate(votes, veto)
             top == Most(buy, Most(sell, wait))
  <1>2. \A a : Weight(votes, a) = Bulk(f, cast(a))
    BY WeightIsBulk
  <1>3. IsFiniteSet(DOMAIN votes \ {w})
    BY FS_Subset
  <1>4. Bulk(f, DOMAIN votes \ {w}) \in Nat
    BY <1>3, BulkIsNat
  <1>5. ASSUME NEW a, a # "WAIT"
        PROVE  Weight(votes, a) \in Nat /\ Weight(votes, a) <= 670
    <2>1. cast(a) \subseteq DOMAIN votes \ {w} /\ IsFiniteSet(cast(a))
      BY <1>3, <1>5, FS_Subset
    <2> HIDE DEF cast, f
    <2>2. Bulk(f, cast(a)) \in Nat
      BY <2>1, BulkIsNat
    <2>3. Bulk(f, cast(a)) <= Bulk(f, DOMAIN votes \ {w})
      BY <1>3, <2>1, BulkGrows
    <2> QED
      BY <1>2, <1>4, <2>2, <2>3 DEF f
  <1>6. wait \in Nat /\ wait >= 70
    <2>1. {w} \in SUBSET cast("WAIT") /\ IsFiniteSet(cast("WAIT")) /\ IsFiniteSet({w})
      BY FS_Subset, FS_Singleton
    <2>2. f[w] \in 0..Heavy /\ f[w] >= 70
      OBVIOUS
    <2> HIDE DEF cast, f
    <2>3. Bulk(f, {w}) <= Bulk(f, cast("WAIT")) /\ Bulk(f, cast("WAIT")) \in Nat
      BY <2>1, BulkGrows, BulkIsNat
    <2>4. Bulk(f, {w}) = f[w]
      BY <2>2, BulkOfOne
    <2> QED
      BY <1>2, <2>2, <2>3, <2>4 DEF Heavy
  <1>7. buy \in Nat /\ buy <= 670 /\ sell \in Nat /\ sell <= 670
    BY <1>5
  <1>8. /\ d.action = IF buy = top THEN "BUY" ELSE IF sell = top THEN "SELL" ELSE "WAIT"
        /\ d.confidence = (100 * top) \div (buy + sell + wait)
    BY DEF Deliberate
  <1> HIDE DEF buy, sell, wait, d
  <1>9. CASE top = buy \/ top = sell
    <2>1. top \in Nat /\ buy + sell + wait \in Nat /\ buy + sell + wait > 0
          /\ 100 * top < 91 * (buy + sell + wait)
      BY <1>6, <1>7, <1>9
    <2> HIDE DEF top
    <2> QED
      BY <1>8, <2>1, AtMostNinety DEF d
  <1> QED
    BY <1>8, <1>9 DEF d

\* One more member, at its heaviest.
LEMMA OneMore ==
  ASSUME NEW S, IsFiniteSet(S), NEW x, x \notin S, NEW f,
         NEW m \in Nat, NEW n \in 0..Heavy, Bulk(f, S) <= m, f[x] \in 0..n
  PROVE  IsFiniteSet(S \cup {x}) /\ Bulk(f, S \cup {x}) <= m + n
  <1>1. IsFiniteSet({x}) /\ S \cap {x} = {}
    BY FS_Singleton
  <1>2. Bulk(f, S \cup {x}) = Bulk(f, S) + Bulk(f, {x})
    BY <1>1, BulkSplits
  <1>3. IsFiniteSet(S \cup {x})
    BY <1>1, FS_Union
  <1>4. Bulk(f, {x}) = f[x]
    <2>1. f[x] \in 0..Heavy
      BY DEF Heavy
    <2> QED
      BY <2>1, BulkOfOne
  <1>5. Bulk(f, S) \in Nat
    BY BulkIsNat
  <1>6. n \in Nat /\ f[x] \in Nat /\ f[x] <= n
    BY DEF Heavy
  <1> QED
    BY <1>2, <1>3, <1>4, <1>5, <1>6

LEMMA LeastOf == ASSUME NEW a \in Nat, NEW b \in Nat PROVE Least(a, b) \in 0..a
  BY DEF Least

\* What the eight agents' votes weigh at most.
LEMMA VoteWeights ==
  ASSUME NEW in \in CouncilInputs
  PROVE  LET v == IntelVotes(in) IN
         /\ v.technical.weight = 65
         /\ v.news.weight \in 0..95
         /\ v.ml.weight \in 0..150
         /\ v.regime.weight \in 70..90 /\ v.regime.action = "WAIT"
         /\ v.orderflow.weight \in 0..95
         /\ v.macro.weight \in 0..80
         /\ v.historical.weight \in 0..90
         /\ v.sentiment.weight \in 0..95
  <1> DEFINE v == IntelVotes(in)
             n == Summarize(in.news)
  <1>1. /\ in.market \in Readings /\ in.news \in NewsItems
        /\ in.ml \in Models /\ in.book \in Books
    BY DEF CouncilInputs
  <1>2. in.market.candles \in Nat
    BY <1>1, SourcesAssumption
  <1>3. in.news.score \in Int /\ in.news.conviction \in 0..95
    BY <1>1, SourcesAssumption
  <1>4. in.ml.up \in 0..100
    BY <1>1, SourcesAssumption
  <1>5. in.book.bids \in Nat /\ in.book.asks \in Nat
    BY <1>1, SourcesAssumption
  <1>6. /\ v.technical = TechnicalVote(TechnicalAnalysis(in.market))
        /\ v.news = NewsVote(n) /\ v.ml = MlVote(Predict(in.ml))
        /\ v.regime = RegimeVote(DetectRegime(in.market))
        /\ v.orderflow = OrderflowVote(OrderFlow(in.book)) /\ v.macro = MacroVote(n)
        /\ v.historical = HistoricalVote(HistoricalContext(in.market))
        /\ v.sentiment = SentimentVote(n)
    BY DEF IntelVotes
  <1> HIDE DEF v
  <1>7. v.technical.weight = 65
    BY <1>6 DEF TechnicalVote, Vote
  <1>8. v.news.weight \in 0..95
    <2>1. n.score \in Int /\ "research" \notin DOMAIN n
      BY <1>3 DEF Summarize
    <2> HIDE DEF n
    <2>2. Bias(n.impact) \in {-1, 0, 1}
      BY DEF Bias
    <2> DEFINE s == IF Bias(n.impact) = 0 THEN n.score ELSE (n.score + 50 * Bias(n.impact)) \div 2
    <2>3. s \in Int
      BY <2>1, <2>2
    <2>4. NewsVote(n).weight = Least(95, 55 + (Size(s) * 35) \div 100)
      BY <2>1 DEF NewsVote, Vote
    <2> HIDE DEF s
    <2>5. Size(s) \in Nat
      BY <2>3 DEF Size
    <2> DEFINE k == Size(s)
    <2>6. k \in Nat
      BY <2>5
    <2> HIDE DEF k
    <2>7. (k * 35) \div 100 \in Nat
      BY <2>6
    <2>8. Least(95, 55 + (k * 35) \div 100) \in 0..95
      <3>1. 95 \in Nat /\ 55 + (k * 35) \div 100 \in Nat
        BY <2>7
      <3> QED
        BY <3>1, LeastOf, Zenon
    <2> QED
      BY <1>6, <2>4, <2>8 DEF k
  <1>9. v.ml.weight \in 0..150
    <2> DEFINE ml == Predict(in.ml)
               p == IF ml.status = "OK" /\ ml.probability_up # 0 THEN ml.probability_up ELSE 50
    <2>1. ml.status = "OK" => ml.probability_up = in.ml.up
      BY DEF Predict
    <2>2. MlVote(ml).weight = 50 + 2 * Size(p - 50)
      BY DEF MlVote, Vote
    <2> HIDE DEF ml
    <2>3. p \in {in.ml.up, 50}
      BY <2>1
    <2> HIDE DEF p
    <2>4. p \in 0..100
      BY <1>4, <2>3
    <2>5. 50 + 2 * Size(p - 50) \in 0..150
      BY <2>4 DEF Size
    <2> QED
      BY <1>6, <2>2, <2>5 DEF ml
  <1>10. v.regime.weight \in 70..90 /\ v.regime.action = "WAIT"
    <2>1. DetectRegime(in.market).name \notin {"BULL", "BEAR"}
      BY DEF DetectRegime
    <2> QED
      BY <1>6, <2>1 DEF RegimeVote, Named, Vote
  <1>11. v.orderflow.weight \in 0..95
    <2> DEFINE flow == OrderFlow(in.book)
               imbalance == IF "imbalance" \in DOMAIN flow THEN flow.imbalance ELSE 0
    <2>1. imbalance \in Int
      <3> DEFINE total == in.book.bids + in.book.asks
                 ratio == IF total = 0 THEN 0 ELSE (100 * (in.book.bids - in.book.asks)) \div total
      <3>1. ratio \in Int
        BY <1>5
      <3>2. flow = IF ~in.book.read THEN [status |-> "UNAVAILABLE"] ELSE [imbalance |-> ratio]
        BY DEF OrderFlow
      <3> HIDE DEF ratio, flow
      <3> QED
        BY <3>1, <3>2
    <2>2. OrderflowVote(flow).weight = Least(95, 55 + Size(imbalance))
      BY DEF OrderflowVote, Vote
    <2> HIDE DEF imbalance
    <2>3. Least(95, 55 + Size(imbalance)) \in 0..95
      BY <2>1 DEF Least, Size
    <2> QED
      BY <1>6, <2>2, <2>3
  <1>12. v.macro.weight \in 0..80
    BY <1>6 DEF MacroVote, Vote
  <1>13. v.historical.weight \in 0..90
    <2> DEFINE past == HistoricalContext(in.market)
    <2>1. past.confidence \in 0..90
      <3> DEFINE horizon == Most(1, Least(20, in.market.candles - 1))
      <3>1. past.confidence \in {0, Least(90, 40 + (3 * horizon) \div 2)}
        BY DEF HistoricalContext
      <3>2. horizon \in Nat
        BY <1>2 DEF Least, Most
      <3> HIDE DEF horizon, past
      <3>3. (3 * horizon) \div 2 \in Nat
        BY <3>2
      <3>4. 90 \in Nat /\ 40 + (3 * horizon) \div 2 \in Nat
        BY <3>3
      <3>5. Least(90, 40 + (3 * horizon) \div 2) \in 0..90
        BY <3>4, LeastOf, Zenon
      <3> QED
        BY <3>1, <3>5
    <2> HIDE DEF past
    <2> QED
      BY <1>6, <2>1 DEF HistoricalVote, Vote, Conviction, past
  <1>14. v.sentiment.weight \in 0..95
    BY <1>3, <1>6 DEF SentimentVote, Vote, Conviction, Summarize
  <1> QED
    BY <1>7, <1>8, <1>9, <1>10, <1>11, <1>12, <1>13, <1>14 DEF v

\* The regime agent waits with seventy or more; the other seven have no more
\* than 670 together.
LEMMA AgentWeights ==
  ASSUME NEW in \in CouncilInputs
  PROVE  LET v == IntelVotes(in)
             f == [x \in DOMAIN v |-> v[x].weight]
         IN  /\ IsFiniteSet(DOMAIN v) /\ "regime" \in DOMAIN v
             /\ v["regime"].action = "WAIT" /\ f["regime"] \in 70..90
             /\ \A x \in DOMAIN v : v[x].weight \in 0..Heavy
             /\ Bulk(f, DOMAIN v \ {"regime"}) <= 670
  <1> DEFINE v == IntelVotes(in)
             f == [x \in DOMAIN v |-> v[x].weight]
             rest == DOMAIN v \ {"regime"}
  <1>1. DOMAIN v = {"technical", "news", "ml", "regime", "orderflow", "macro",
                    "historical", "sentiment"}
    BY DEF IntelVotes
  <1> HIDE DEF v
  <1>2. /\ f["technical"] = 65 /\ f["news"] \in 0..95 /\ f["ml"] \in 0..150
        /\ f["regime"] \in 70..90 /\ v["regime"].action = "WAIT"
        /\ f["orderflow"] \in 0..95 /\ f["macro"] \in 0..80
        /\ f["historical"] \in 0..90 /\ f["sentiment"] \in 0..95
    BY <1>1, VoteWeights DEF v
  <1>3. \A x \in DOMAIN v : v[x].weight \in 0..Heavy
    <2>1. \A x \in DOMAIN v : f[x] \in 0..Heavy
      <3> HIDE DEF f
      <3> QED
        BY <1>1, <1>2 DEF Heavy
    <2> QED
      BY <2>1
  <1>4. IsFiniteSet(rest) /\ Bulk(f, rest) <= 670
    <2> HIDE DEF f
    <2> DEFINE r1 == {"technical"}
               r2 == r1 \cup {"news"}
               r3 == r2 \cup {"ml"}
               r4 == r3 \cup {"orderflow"}
               r5 == r4 \cup {"macro"}
               r6 == r5 \cup {"historical"}
               r7 == r6 \cup {"sentiment"}
    <2> DEFINE b1 == 65
               b2 == 160
               b3 == 310
               b4 == 405
               b5 == 485
               b6 == 575
               b7 == 670
    <2>1. IsFiniteSet(r1) /\ Bulk(f, r1) <= b1
      <3>1. f["technical"] \in 0..Heavy
        BY <1>2 DEF Heavy
      <3>2. Bulk(f, r1) = f["technical"]
        BY <3>1, BulkOfOne, Zenon
      <3>3. IsFiniteSet(r1)
        BY FS_Singleton, Zenon
      <3>4. f["technical"] <= b1
        BY <1>2
      <3> QED
        BY <3>2, <3>3, <3>4, Zenon
    <2>2. IsFiniteSet(r2) /\ Bulk(f, r2) <= b2
      <3> DEFINE w == 95
      <3>1. "news" \notin r1 /\ f["news"] \in 0..w
        BY <1>2
      <3>2. b1 \in Nat /\ w \in 0..Heavy /\ b2 = b1 + w
        BY DEF Heavy
      <3> HIDE DEF r1, b1, b2, w
      <3> QED
        BY <2>1, <3>1, <3>2, OneMore, Zenon
    <2>3. IsFiniteSet(r3) /\ Bulk(f, r3) <= b3
      <3> DEFINE w == 150
      <3>1. "ml" \notin r2 /\ f["ml"] \in 0..w
        BY <1>2
      <3>2. b2 \in Nat /\ w \in 0..Heavy /\ b3 = b2 + w
        BY DEF Heavy
      <3> HIDE DEF r2, b2, b3, w
      <3> QED
        BY <2>2, <3>1, <3>2, OneMore, Zenon
    <2>4. IsFiniteSet(r4) /\ Bulk(f, r4) <= b4
      <3> DEFINE w == 95
      <3>1. "orderflow" \notin r3 /\ f["orderflow"] \in 0..w
        BY <1>2
      <3>2. b3 \in Nat /\ w \in 0..Heavy /\ b4 = b3 + w
        BY DEF Heavy
      <3> HIDE DEF r3, b3, b4, w
      <3> QED
        BY <2>3, <3>1, <3>2, OneMore, Zenon
    <2>5. IsFiniteSet(r5) /\ Bulk(f, r5) <= b5
      <3> DEFINE w == 80
      <3>1. "macro" \notin r4 /\ f["macro"] \in 0..w
        BY <1>2
      <3>2. b4 \in Nat /\ w \in 0..Heavy /\ b5 = b4 + w
        BY DEF Heavy
      <3> HIDE DEF r4, b4, b5, w
      <3> QED
        BY <2>4, <3>1, <3>2, OneMore, Zenon
    <2>6. IsFiniteSet(r6) /\ Bulk(f, r6) <= b6
      <3> DEFINE w == 90
      <3>1. "historical" \notin r5 /\ f["historical"] \in 0..w
        BY <1>2
      <3>2. b5 \in Nat /\ w \in 0..Heavy /\ b6 = b5 + w
        BY DEF Heavy
      <3> HIDE DEF r5, b5, b6, w
      <3> QED
        BY <2>5, <3>1, <3>2, OneMore, Zenon
    <2>7. IsFiniteSet(r7) /\ Bulk(f, r7) <= b7
      <3> DEFINE w == 95
      <3>1. "sentiment" \notin r6 /\ f["sentiment"] \in 0..w
        BY <1>2
      <3>2. b6 \in Nat /\ w \in 0..Heavy /\ b7 = b6 + w
        BY DEF Heavy
      <3> HIDE DEF r6, b6, b7, w
      <3> QED
        BY <2>6, <3>1, <3>2, OneMore, Zenon
    <2>8. rest = r7
      BY <1>1
    <2> QED
      BY <2>7, <2>8
  <1>5. IsFiniteSet(DOMAIN v)
    <2>1. DOMAIN v = rest \cup {"regime"}
      BY <1>1
    <2> QED
      BY <1>4, <2>1, FS_AddElement
  <1>6. "regime" \in DOMAIN v
    BY <1>1
  <1> QED
    BY <1>2, <1>3, <1>4, <1>5, <1>6 DEF v

\* build_council is at most ninety per cent sure of a direction.
LEMMA NeverQuiteSure ==
  ASSUME NEW in \in CouncilInputs
  PROVE  LET out == BuildCouncil(in) IN
         out.action \in {"BUY", "SELL"} => out.confidence \in Int /\ out.confidence <= 90
  <1> DEFINE v == IntelVotes(in)
             f == [x \in DOMAIN v |-> v[x].weight]
             d == Deliberate(v, RegimeVeto(DetectRegime(in.market)))
  <1>0. /\ IsFiniteSet(DOMAIN v) /\ "regime" \in DOMAIN v
        /\ v["regime"].action = "WAIT" /\ f["regime"] \in 70..90
        /\ \A x \in DOMAIN v : v[x].weight \in 0..Heavy
        /\ Bulk(f, DOMAIN v \ {"regime"}) <= 670
    BY AgentWeights
  <1> HIDE DEF v
  <1>1. v["regime"].weight >= 70
    BY <1>0
  <1>2. d.action = "WAIT" \/ (d.confidence \in Int /\ d.confidence <= 90)
    BY <1>0, <1>1, NinetyAgainstWait
  <1>3. /\ BuildCouncil(in).action \in {"WAIT", Judge(d)}
        /\ BuildCouncil(in).confidence = d.confidence
    BY DEF BuildCouncil, v
  <1>4. Judge(d) \in {"WAIT", d.action}
    BY DEF Judge
  <1> QED
    BY <1>2, <1>3, <1>4

\* With the worker's own threshold (70; no default lowers it) an opportunity is
\* put before a human only where the price has just surged by more than a fifth:
\* the regime agent's WAIT keeps the council below what the scanner asks for.
THEOREM ScannerIsSilent == ASSUME Threshold >= 70 PROVE Spec => SilentScanner
  <1>1. ASSUME IInv, DeskInv, [Next]_vars, Len(queue') > Len(queue)
        PROVE  desk.in.market.momentum > 20
    <2> DEFINE out == BuildCouncil(desk.in)
               momentum == desk.in.market.momentum
    <2>1. Consider
      BY <1>1, NextIInv
    <2>2. desk.by \in CouncilJobs /\ desk.in \in CouncilInputs
      BY <1>1, <2>1, Names DEF Consider, Awaiting, CouncilJobs, DeskInv
    <2>3. queue' # queue
      BY <1>1 DEF IInv
    <2>4. Surfaces(out, momentum)
      BY <2>1, <2>2, <2>3, CouncilOutcome DEF Consider, TechnicalAnalysis
    <2>5. momentum \in Int
      BY <2>2, SourcesAssumption DEF CouncilInputs
    <2>6. out.action \in {"BUY", "SELL"} /\ Rank(out.confidence, momentum) >= Threshold
      BY <2>4 DEF Surfaces
    <2>7. out.confidence \in Int /\ out.confidence <= 90
      BY <2>2, <2>6, NeverQuiteSure
    <2> HIDE DEF out, momentum
    <2>8. ASSUME momentum <= 20 PROVE FALSE
      <3> DEFINE rank == (out.confidence * 7 + momentum * 3 - (100 - out.confidence) * 2) \div 10
      <3>1. rank \in Int /\ rank <= 67
        BY <2>5, <2>7, <2>8
      <3>2. Rank(out.confidence, momentum) = Most(0, Least(100, rank))
        BY DEF Rank
      <3> HIDE DEF rank
      <3> QED
        BY <2>6, <3>1, <3>2, AdviceAssumption DEF Most, Least
    <2>9. momentum > 20
      BY <2>5, <2>8
    <2> QED
      BY <2>9 DEF momentum
  <1>2. IInv /\ DeskInv /\ [Next]_vars => [Len(queue') > Len(queue) => desk.in.market.momentum > 20]_vars
    BY <1>1
  <1> QED
    BY <1>2, Inductive, DeskInductive, PTL DEF Spec, SilentScanner
-----------------------------------------------------------------------------
(* The tally against what it stands for.                                   *)

\* Every vote counts once: the three sums are the weight of all the votes.
LEMMA TallyIsWhole ==
  ASSUME NEW votes, IsFiniteSet(DOMAIN votes),
         \A x \in DOMAIN votes : /\ votes[x].weight \in 0..Heavy
                                 /\ votes[x].action \in {"BUY", "SELL", "WAIT"}
  PROVE  /\ \A a : Weight(votes, a) \in Nat
         /\ Weight(votes, "BUY") + Weight(votes, "SELL") + Weight(votes, "WAIT")
              = Bulk([x \in DOMAIN votes |-> votes[x].weight], DOMAIN votes)
  <1> DEFINE f == [x \in DOMAIN votes |-> votes[x].weight]
             cast(a) == {x \in DOMAIN votes : votes[x].action = a}
  <1>1. \A a : IsFiniteSet(cast(a)) /\ Weight(votes, a) = Bulk(f, cast(a))
    BY WeightIsBulk
  <1>2. DOMAIN votes = (cast("BUY") \cup cast("SELL")) \cup cast("WAIT")
    OBVIOUS
  <1>3. cast("BUY") \cap cast("SELL") = {} /\ (cast("BUY") \cup cast("SELL")) \cap cast("WAIT") = {}
    OBVIOUS
  <1> HIDE DEF f, cast
  <1>4. IsFiniteSet(cast("BUY") \cup cast("SELL"))
    BY <1>1, FS_Union
  <1>5. Bulk(f, cast("BUY") \cup cast("SELL")) = Bulk(f, cast("BUY")) + Bulk(f, cast("SELL"))
    BY <1>1, <1>3, BulkSplits
  <1>6. Bulk(f, DOMAIN votes) = Bulk(f, cast("BUY") \cup cast("SELL")) + Bulk(f, cast("WAIT"))
    BY <1>1, <1>2, <1>3, <1>4, BulkSplits
  <1>7. \A a : Bulk(f, cast(a)) \in Nat
    BY <1>1, BulkIsNat
  <1> QED
    BY <1>1, <1>5, <1>6, <1>7 DEF f

LEMMA ThirdToWhole ==
  ASSUME NEW a \in Nat, NEW b \in Nat, b > 0, a <= b, b <= 3 * a
  PROVE  (100 * a) \div b \in 33..100
  <1> DEFINE q == (100 * a) \div b
             r == (100 * a) % b
  <1>1. q \in Int /\ r \in 0..(b - 1) /\ 100 * a = b * q + r
    OBVIOUS
  <1> HIDE DEF q, r
  <1>2. ASSUME q > 100 PROVE FALSE
    <2>1. b * q >= b * 101
      BY <1>1, <1>2
    <2> QED
      BY <1>1, <2>1
  <1>3. ASSUME q < 33 PROVE FALSE
    <2>1. b * q <= b * 32
      BY <1>1, <1>3
    <2> QED
      BY <1>1, <2>1
  <1> QED
    BY <1>1, <1>2, <1>3 DEF q

\* The eight agents say BUY, SELL or WAIT, and nothing else.
LEMMA VoteActions ==
  ASSUME NEW in, NEW x \in DOMAIN IntelVotes(in)
  PROVE  IntelVotes(in)[x].action \in {"BUY", "SELL", "WAIT"}
  <1> DEFINE says(v) == v.action \in {"BUY", "SELL", "WAIT"}
  <1>1. \A n, band : Lean(n, band) \in {"BUY", "SELL", "WAIT"}
    BY DEF Lean
  <1>2. \A d : Toward(d) \in {"BUY", "SELL", "WAIT"}
    BY DEF Toward
  <1>3. \A t : says(TechnicalVote(t))
    BY <1>2 DEF TechnicalVote, Vote
  <1>4. \A n : says(NewsVote(n))
    BY <1>1 DEF NewsVote, Vote
  <1>5. \A m : says(MlVote(m))
    BY DEF MlVote, Vote
  <1>6. \A r : says(RegimeVote(r))
    BY DEF RegimeVote, Vote, Named
  <1>7. \A f : says(OrderflowVote(f))
    BY <1>1 DEF OrderflowVote, Vote
  <1>8. \A n : says(MacroVote(n))
    BY <1>1 DEF MacroVote, Vote
  <1>9. \A p : says(HistoricalVote(p))
    BY <1>2 DEF HistoricalVote, Vote
  <1>10. \A n : says(SentimentVote(n))
    BY <1>2 DEF SentimentVote, Vote
  <1> HIDE DEF says
  <1>11. says(IntelVotes(in)[x])
    BY <1>3, <1>4, <1>5, <1>6, <1>7, <1>8, <1>9, <1>10 DEF IntelVotes
  <1> QED
    BY <1>11 DEF says

\* Whatever the sources say, the council's confidence is a per cent, at least a
\* third of it: some agent always has weight, so the division is one, and the
\* heaviest of three sums is no less than a third of them all.
THEOREM ConfidenceIsPercent ==
  ASSUME NEW in \in CouncilInputs PROVE BuildCouncil(in).confidence \in 33..100
  <1> DEFINE v == IntelVotes(in)
             f == [x \in DOMAIN v |-> v[x].weight]
             buy == Weight(v, "BUY")
             sell == Weight(v, "SELL")
             wait == Weight(v, "WAIT")
             top == Most(buy, Most(sell, wait))
  <1>1. /\ IsFiniteSet(DOMAIN v) /\ "regime" \in DOMAIN v /\ f["regime"] \in 70..90
        /\ \A x \in DOMAIN v : v[x].weight \in 0..Heavy /\ v[x].action \in {"BUY", "SELL", "WAIT"}
    BY AgentWeights, VoteActions
  <1> HIDE DEF v
  <1>2. buy \in Nat /\ sell \in Nat /\ wait \in Nat /\ buy + sell + wait = Bulk(f, DOMAIN v)
    BY <1>1, TallyIsWhole
  <1>3. Bulk(f, DOMAIN v) >= 70
    <2> HIDE DEF f
    <2>1. Bulk(f, {"regime"}) = f["regime"]
      BY <1>1, BulkOfOne DEF Heavy
    <2>2. Bulk(f, {"regime"}) <= Bulk(f, DOMAIN v) /\ Bulk(f, DOMAIN v) \in Nat
      BY <1>1, BulkGrows, BulkIsNat
    <2> QED
      BY <1>1, <2>1, <2>2
  <1>4. BuildCouncil(in).confidence = (100 * top) \div (buy + sell + wait)
    BY DEF BuildCouncil, Deliberate, v
  <1> HIDE DEF buy, sell, wait
  <1>5. /\ top \in Nat /\ buy + sell + wait \in Nat /\ buy + sell + wait > 0
        /\ top <= buy + sell + wait /\ buy + sell + wait <= 3 * top
    BY <1>2, <1>3 DEF Most
  <1> HIDE DEF top
  <1> QED
    BY <1>4, <1>5, ThirdToWhole
=============================================================================
