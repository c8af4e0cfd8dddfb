------------------------------- MODULE Advice -------------------------------
(***************************************************************************)
(* Who asks the council and the providers, and what follows: the routes    *)
(* that answer a caller, the market scanner that fills latest, and the     *)
(* opportunity scanner that walks latest, asks for each symbol's evidence  *)
(* and queues what passes for the notification worker.                     *)
(*                                                                         *)
(* An analysis reads its sources and shares nothing with another, so one   *)
(* desk does them one at a time.  A reading of the sources is chosen when  *)
(* an analysis is asked for.                                               *)
(***************************************************************************)
EXTENDS Council, AiProviders

CONSTANTS
    Symbols,        \* the watchlist
    Order,          \* AI_PROVIDER_FALLBACKS
    Modes,          \* AI_PROVIDER_MODE
    Answers,        \* what a provider may do
    Readings,       \* of the market: see Council's sources
    NewsItems,      \* headlines: any, score, severity, direction, surprise, conviction
    GeminiAnswers,  \* status, impact, confidence, grounded
    Models,         \* of the predictor: trained, complete, up
    Books,          \* the order book: read, bids, asks
    AutoOpportunity,    \* settings.auto_opportunity_enabled
    Threshold,      \* score_threshold of the opportunity scanner
    MaxQueue,       \* bound: notifications waiting
    None

ASSUME AdviceAssumption ==
    /\ IsFiniteSet(Symbols) /\ AutoOpportunity \in BOOLEAN /\ Threshold \in Nat /\ MaxQueue \in Nat \ {0}
    /\ Symbols \cap {None, "orchestrator", "intel", "brain"} = {}

\* What a source can say.  With fewer than twenty candles technical_analysis
\* raises, as it does when the market cannot be read: Respond and
\* EvidenceFails stand for both, and no reading does.  An unparsed answer of Gemini never has status ok; a
\* headline's conviction is cut off at 95.
ASSUME SourcesAssumption ==
    /\ Readings \subseteq [candles : Nat, aboveSma : BOOLEAN, fastAboveSlow : BOOLEAN,
                           strong : BOOLEAN, vol : Nat, meanReturn : Int, momentum : Int]
    /\ \A m \in Readings : m.candles >= 20
    /\ NewsItems \subseteq [any : BOOLEAN, score : Int, severity : STRING,
                            direction : STRING, surprise : Int, conviction : 0..95]
    /\ GeminiAnswers \subseteq [status : STRING \ {"ok"}, impact : STRING,
                                confidence : 0..100, grounded : BOOLEAN]
    /\ Models \subseteq [trained : BOOLEAN, complete : BOOLEAN, up : 0..100]
    /\ Books \subseteq [read : BOOLEAN, bids : Nat, asks : Nat]
    /\ Answers \subseteq [kind : STRING, decision : STRING, confidence : Int]
    /\ Order \in Seq(STRING)

VARIABLES
    latest,     \* symbols market_scanner.latest has an entry for
    round,      \* the opportunity scanner's walk, or None
    desk,       \* the analysis under way, or None
    queue,      \* the notification worker's queue
    last        \* the last priority sent for opportunity_detected, or None

vars == <<latest, round, desk, queue, last>>

Init ==
    /\ latest = {} /\ round = None /\ desk = None
    /\ queue = <<>> /\ last = None

OrchestratorInputs ==
    [market : Readings, news : NewsItems, gemini : GeminiAnswers, ml : Models]
CouncilInputs ==
    [market : Readings, news : NewsItems, ml : Models, book : Books]
BrainInputs == [mode : Modes, raw : [Range(Order) -> Answers]]

(***************************************************************************)
(* The routes.  What full_intel does to the predictions table comes to     *)
(* nothing: ml_routes.predict stores a text in a column of times, so its   *)
(* insert raises, the table stays empty and no prediction is ever due.     *)
(***************************************************************************)
\* The opportunity scanner waits for a symbol's evidence.
Awaiting == desk # None /\ desk.by \in Symbols

Job(by, in) == [by |-> by, in |-> in]

AskMarket == \E in \in OrchestratorInputs : desk' = Job("orchestrator", in)
AskIntel  == \E in \in CouncilInputs : desk' = Job("intel", in)
AskBrain  == \E in \in BrainInputs : desk' = Job("brain", in)

Ask == desk = None /\ (AskMarket \/ AskIntel \/ AskBrain)
       /\ UNCHANGED <<latest, round, queue, last>>

\* What an analysis returns.
Outcome(job) ==
    CASE job.by = "orchestrator" -> Orchestrate(job.in)
      [] job.by = "brain" -> ChiefOperator(job.in.mode, Order, job.in.raw)
      [] OTHER -> BuildCouncil(job.in)

\* The caller has its answer; or a source raised and the route answers 502 or 503.
Respond ==
    /\ desk # None /\ ~Awaiting
    /\ desk' = None
    /\ UNCHANGED <<latest, round, queue, last>>

(***************************************************************************)
(* The scanners.                                                           *)
(***************************************************************************)

\* A failed reading is logged and leaves the older one.
ScanMarket(s) ==
    /\ latest' = latest \cup {s}
    /\ UNCHANGED <<round, desk, queue, last>>

\* Slip: the walk is over the watchlist, read or not.
StartRoundWatchlist ==
    /\ AutoOpportunity /\ round = None
    /\ round' = [todo |-> Symbols, size |-> Cardinality(latest)]
    /\ UNCHANGED <<latest, desk, queue, last>>

\* run_once walks only where the setting asks for it (it is off by default).
StartRound ==
    /\ AutoOpportunity /\ round = None
    /\ round' = [todo |-> latest, size |-> Cardinality(latest)]
    /\ UNCHANGED <<latest, desk, queue, last>>

\* The walk is over the dictionary itself: a key added meanwhile raises at
\* the next step, and the rest of the round is lost.
Torn == round # None /\ round.size # Cardinality(latest)

EndRound ==
    /\ round # None /\ ~Awaiting
    /\ ~Torn => round.todo = {}
    /\ round' = None
    /\ UNCHANGED <<latest, desk, queue, last>>

Evaluate(s) ==
    /\ desk = None /\ round # None /\ ~Torn
    /\ s \in round.todo
    /\ \E in \in CouncilInputs : desk' = Job(s, in)
    /\ round' = [round EXCEPT !.todo = @ \ {s}]
    /\ UNCHANGED <<latest, queue, last>>

\* Slip: the exception ends the round.
EvidenceFailsRound ==
    /\ Awaiting
    /\ desk' = None /\ round' = None
    /\ UNCHANGED <<latest, queue, last>>

\* An exception of one symbol's evidence is logged and the walk goes on.
EvidenceFails ==
    /\ Awaiting
    /\ desk' = None
    /\ UNCHANGED <<latest, round, queue, last>>

Surfaces(out, momentum) ==
    /\ ~out.veto /\ out.action \in {"BUY", "SELL"}
    /\ Rank(out.confidence, momentum) >= Threshold

Consider ==
    /\ Awaiting
    /\ IF Surfaces(Outcome(desk), TechnicalAnalysis(desk.in.market).momentum)
       THEN Len(queue) < MaxQueue /\ queue' = Append(queue, desk.by)
       ELSE UNCHANGED queue
    /\ desk' = None
    /\ UNCHANGED <<latest, round, last>>

(***************************************************************************)
(* The notification worker.                                                *)
(***************************************************************************)
Priority == [LOW |-> 1, MEDIUM |-> 2, HIGH |-> 3, CRITICAL |-> 4]

ShouldSend(priority, before) ==
    priority \in DOMAIN Priority /\ (before = None \/ Priority[priority] >= Priority[before])

\* The scanner files every opportunity as MEDIUM.
Notify ==
    /\ queue # <<>>
    /\ queue' = Tail(queue)
    /\ IF ShouldSend("MEDIUM", last)
       THEN last' = "MEDIUM"
       ELSE UNCHANGED last
    /\ UNCHANGED <<latest, round, desk>>

OpportunityScanner ==
    StartRound \/ EndRound \/ EvidenceFails \/ Consider \/ \E s \in Symbols : Evaluate(s)

Next == Ask \/ Respond \/ OpportunityScanner \/ Notify \/ \E s \in Symbols : ScanMarket(s)

Spec == Init /\ [][Next]_vars

(***************************************************************************)
(* The scanner's loop goes on for ever and every await of an analysis      *)
(* returns or raises.  The scanner shares the desk with the routes only in *)
(* this model, which is why its fairness is strong.                        *)
(***************************************************************************)
Fairness == SF_vars(OpportunityScanner) /\ WF_vars(Respond) /\ WF_vars(Notify)

FairSpec == Spec /\ Fairness

(***************************************************************************)
(* Properties.                                                             *)
(***************************************************************************)

\* Every variable keeps its type; the walk is over what latest held.
TypeOK ==
    /\ latest \subseteq Symbols
    /\ (round = None) \/ round.todo \subseteq latest
    /\ desk = None \/ desk.by \in Symbols \cup {"orchestrator", "intel", "brain"}
    /\ Len(queue) <= MaxQueue /\ Range(queue) \subseteq Symbols
    /\ last \in {None, "MEDIUM"}

Done(by) == desk # None /\ desk.by \in by
CouncilJobs == Symbols \cup {"intel"}

\* Whatever the sources say and the agents vote, the orchestrator answers
\* NO_TRADE and build_council calls no setup ready: the risk they ask about is
\* never known.
AdviceNeverActs ==
    /\ Done({"orchestrator"}) => Outcome(desk).decision = "NO_TRADE"
    /\ Done(CouncilJobs) => ~Outcome(desk).ready

\* A model's claims without grounding sources change nothing: the news agent
\* votes as it would without any research.
UngroundedIsIgnored ==
    Done({"orchestrator"}) =>
        (~desk.in.gemini.grounded =>
            NewsVote(NewsAnalysis(desk.in.news, desk.in.gemini)) = NewsVote(Summarize(desk.in.news)))

Valid(raw) == Counted(Order, raw)

\* A decision to trade with any confidence is some usable answer's, and when
\* several providers answered, that of two at least in an ensemble.
Backed(in, out) ==
    out.decision # "NO_TRADE" /\ out.confidence > 0 =>
        LET backing == {p \in Valid(in.raw) : in.raw[p].decision = out.decision} IN
        /\ backing # {}
        /\ in.mode = "ensemble" /\ Cardinality(Valid(in.raw)) > 1 => Cardinality(backing) > 1
BackedByAnswers == Done({"brain"}) => Backed(desk.in, Outcome(desk))

\* Nothing is put before a human while the news is critical, however the
\* council has voted.
CriticalIsNeverQueued ==
    [][Len(queue') > Len(queue) => desk.in.news.severity # "CRITICAL"]_vars

\* The regime agent never votes for a direction, so the council's confidence
\* stays below what the scanner asks for unless the price has just surged.
SilentScanner ==
    [][Len(queue') > Len(queue) => desk.in.market.momentum > 20]_vars

\* With the scanner on, a symbol the market scanner knows is evaluated again and again: neither a
\* torn round nor another symbol's missing evidence keeps it waiting for ever.
EverySymbolIsSeen ==
    AutoOpportunity => \A s \in Symbols : s \in latest ~> desk # None /\ desk.by = s
=============================================================================
