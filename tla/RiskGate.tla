------------------------------ MODULE RiskGate ------------------------------
(***************************************************************************)
(* The risk gate of one account: live orders (_binance_server_risk) and    *)
(* risk checks (PortfolioStateService) each read the account, the day's    *)
(* equity baseline and the open positions, one await after another, and    *)
(* only then decide.  What an allowed order does is one step here: its     *)
(* coin is bought and locked in an OCO with a position, or an unlocked     *)
(* coin is sold and the position closed (LiveTrading has the detail).      *)
(* Every order is for one coin of one symbol.                              *)
(***************************************************************************)
EXTENDS Integers, FiniteSets

CONSTANTS
    Orders,         \* calls of the live order route
    Checks,         \* calls of snapshot_and_risk_state
    Side,           \* order -> "BUY" or "SELL"
    None,
    Cash,           \* free USDT of the account at first
    Coins,          \* unlocked coins of the account at first
    Prices,         \* what a coin may be worth, in USDT, at any time
    MaxLossPct,     \* PortfolioRisk.max_daily_loss_pct
    MaxExposurePct, \* PortfolioRisk.max_exposure_pct
    MaxPositions,   \* PortfolioRisk.max_positions
    Days            \* bound: the days 1..Days

ASSUME OrdersAssumption ==
    /\ Orders \cap Checks = {}
    /\ IsFiniteSet(Orders)
    /\ Side \in [Orders -> {"BUY", "SELL"}]

ASSUME LimitsAssumption ==
    /\ MaxPositions \in Nat \ {0}
    /\ MaxLossPct \in 1..100 /\ MaxExposurePct \in Nat

ASSUME AccountAssumption ==
    /\ Cash \in Nat /\ Coins \in Nat /\ Days \in Nat \ {0}
    /\ Prices \subseteq Nat \ {0} /\ Prices # {}

ASSUME NoneAssumption == None \notin Int

Callers == Orders \cup Checks

VARIABLES
    day,        \* the UTC day
    baseline,   \* daily_equity_snapshots: day -> starting_equity_usdt
    cash,       \* free USDT
    coins,      \* coins not locked in an order
    locked,     \* coins locked in OCO lists
    positions,  \* OPEN rows of the positions table
    pc,         \* per caller: what it has done last
    seen,       \* per caller: the account as it was read
    since,      \* per caller: the date key of its SELECT or INSERT
    base,       \* per caller: the baseline it goes by
    peak        \* history: most BUYs ever past the gate and not yet filled

account == <<cash, coins, locked, positions>>
vars    == <<day, baseline, account, pc, seen, since, base, peak>>

Account == [cash : Nat, coins : Nat, locked : Nat, price : Prices]
Blank   == [cash |-> 0, coins |-> 0, locked |-> 0, price |-> CHOOSE p \in Prices : TRUE]

PcStates == {"start", "read", "absent", "judged", "passed", "loss", "limits", "failed", "done"}

TypeOK ==
    /\ day \in 1..Days
    /\ baseline \in [1..Days -> Nat \cup {None}]
    /\ cash \in Nat /\ coins \in Nat /\ locked \in Nat /\ positions \in Nat
    /\ pc \in [Callers -> PcStates]
    /\ seen \in [Callers -> Account]
    /\ since \in [Callers -> 1..Days]
    /\ base \in [Callers -> Nat]
    /\ peak \in Nat

Init ==
    /\ day = 1
    /\ baseline = [d \in 1..Days |-> None]
    /\ cash = Cash /\ coins = Coins /\ locked = 0 /\ positions = 0
    /\ pc = [c \in Callers |-> "start"]
    /\ seen = [c \in Callers |-> Blank]
    /\ since = [c \in Callers |-> 1]
    /\ base = [c \in Callers |-> 0]
    /\ peak = 0

Goto(c, from, to) == pc[c] = from /\ pc' = [pc EXCEPT ![c] = to]

-----------------------------------------------------------------------------
(* What the callers compute.                                               *)

\* The live route counts what is free.
LiveEquity(a) == a.cash + a.coins * a.price

\* equity_usdt counts what is free and what is locked.
Equity(a) == a.cash + (a.coins + a.locked) * a.price

EquitySeen(c) == IF c \in Orders THEN LiveEquity(seen[c]) ELSE Equity(seen[c])

\* daily_loss_pct >= max_daily_loss_pct; no baseline worth anything counts as
\* a loss of everything.
LossReached(start, equity) ==
    start = 0 \/ (start - equity) * 100 >= MaxLossPct * start

\* A slip: the limit itself is still allowed.
WithinLimitsOff(a, open) ==
    /\ open <= MaxPositions
    /\ (a.coins * a.price + a.price) * 100 <= MaxExposurePct * LiveEquity(a)

\* PortfolioRisk.validate for a BUY of one coin: exposure is what the free
\* coins are worth.
WithinLimits(a, open) ==
    /\ open < MaxPositions
    /\ (a.coins * a.price + a.price) * 100 <= MaxExposurePct * LiveEquity(a)

Verdict(o) ==
    CASE seen[o].cash = 0 -> "limits"
      [] seen[o].cash > 0 /\ LossReached(base[o], EquitySeen(o)) -> "loss"
      [] OTHER -> IF Side[o] = "BUY" /\ ~WithinLimits(seen[o], positions)
                  THEN "limits" ELSE "passed"

-----------------------------------------------------------------------------
(* The gate.                                                               *)

\* A SELL of more than the free balance is refused at once.
Lacking(c) == IF c \in Orders THEN Side[c] = "SELL" /\ coins = 0 ELSE FALSE

\* get_price, get_account, and the price of every asset.
ReadAccount(c) ==
    /\ Goto(c, "start", IF Lacking(c) THEN "limits" ELSE "read")
    /\ \E p \in Prices :
          seen' = [seen EXCEPT ![c] = [cash |-> cash, coins |-> coins, locked |-> locked, price |-> p]]
    /\ UNCHANGED <<day, baseline, account, since, base, peak>>

\* The SELECT of today's snapshot.
SelectBaseline(c) ==
    /\ Goto(c, "read", IF baseline[day] = None THEN "absent" ELSE "judged")
    /\ since' = [since EXCEPT ![c] = day]
    /\ base' = IF baseline[day] = None THEN base ELSE [base EXCEPT ![c] = baseline[day]]
    /\ UNCHANGED <<day, baseline, account, seen, peak>>

\* A slip: the account's own equity is used although another was committed.
InsertAnyway(c) ==
    LET d == IF c \in Orders THEN day ELSE since[c] IN
    /\ Goto(c, "absent", "judged")
    /\ baseline' = IF baseline[d] = None THEN [baseline EXCEPT ![d] = EquitySeen(c)] ELSE baseline
    /\ base' = [base EXCEPT ![c] = EquitySeen(c)]
    /\ since' = [since EXCEPT ![c] = d]
    /\ UNCHANGED <<day, account, seen, peak>>

\* A slip: the latest equity wins.
InsertOver(c) ==
    LET d == IF c \in Orders THEN day ELSE since[c] IN
    /\ Goto(c, "absent", "judged")
    /\ baseline' = [baseline EXCEPT ![d] = EquitySeen(c)]
    /\ base' = [base EXCEPT ![c] = EquitySeen(c)]
    /\ since' = [since EXCEPT ![c] = d]
    /\ UNCHANGED <<day, account, seen, peak>>

\* The INSERT and its unique constraint.  An order asks for the date once more
\* and answers 503 if the row is there by now; a check keeps its date, rolls
\* back and reads the winner's row.
InsertBaseline(c) ==
    LET d == IF c \in Orders THEN day ELSE since[c] IN
    /\ since' = [since EXCEPT ![c] = d]
    /\ \/ /\ baseline[d] = None
          /\ Goto(c, "absent", "judged")
          /\ baseline' = [baseline EXCEPT ![d] = EquitySeen(c)]
          /\ base' = [base EXCEPT ![c] = EquitySeen(c)]
       \/ /\ baseline[d] # None /\ c \in Checks
          /\ Goto(c, "absent", "judged")
          /\ base' = [base EXCEPT ![c] = baseline[d]]
          /\ UNCHANGED baseline
       \/ /\ baseline[d] # None /\ c \in Orders
          /\ Goto(c, "absent", "failed")
          /\ UNCHANGED <<baseline, base>>
    /\ UNCHANGED <<day, account, seen, peak>>

Waiting == {o \in Orders : pc[o] = "passed" /\ Side[o] = "BUY"}

\* What was read is of no use after the verdict; a refusal for the day's loss
\* keeps it for LossIsReal.
Forget(c) ==
    /\ seen' = [seen EXCEPT ![c] = Blank]
    /\ since' = [since EXCEPT ![c] = 1]
    /\ base' = [base EXCEPT ![c] = 0]

\* The count of open positions, and risk_engine.validate in the same step.
Decide(o) ==
    /\ o \in Orders
    /\ Goto(o, "judged", Verdict(o))
    /\ peak' = IF Cardinality(Waiting') > peak THEN Cardinality(Waiting') ELSE peak
    /\ IF Verdict(o) = "loss" THEN UNCHANGED <<seen, since, base>> ELSE Forget(o)
    /\ UNCHANGED <<day, baseline, account>>

\* A check only answers.
Report(c) ==
    /\ c \in Checks
    /\ Goto(c, "judged", "done")
    /\ Forget(c)
    /\ UNCHANGED <<day, baseline, account, peak>>

-----------------------------------------------------------------------------
(* What becomes of an order that passed.                                   *)

Fill(o, p) ==
    /\ Goto(o, "passed", "done")
    /\ \/ /\ Side[o] = "BUY" /\ cash >= p
          /\ cash' = cash - p
          /\ locked' = locked + 1
          /\ positions' = positions + 1
          /\ UNCHANGED coins
       \/ /\ Side[o] = "SELL" /\ coins >= 1 /\ positions >= 1
          /\ cash' = cash + p
          /\ positions' = positions - 1
          /\ \/ locked >= 1 /\ locked' = locked - 1 /\ UNCHANGED coins
             \/ locked < positions /\ coins' = coins - 1 /\ UNCHANGED locked
    /\ UNCHANGED <<day, baseline, seen, since, base, peak>>

\* A later gate, or the exchange, refuses it.
NotFilled(o) ==
    /\ Goto(o, "passed", "done")
    /\ UNCHANGED <<day, baseline, account, seen, since, base, peak>>

-----------------------------------------------------------------------------
(* The exchange and the clock.                                             *)

OcoExecutes(p) ==
    /\ locked > 0
    /\ locked' = locked - 1
    /\ cash' = cash + p
    /\ UNCHANGED <<day, baseline, coins, positions, pc, seen, since, base, peak>>

\* A slip: a position already closed by a SELL is closed again.
MonitorClosesAgain ==
    /\ positions' = positions - 1
    /\ UNCHANGED <<day, baseline, cash, coins, locked, pc, seen, since, base, peak>>

\* The monitor closes a position whose OCO has executed.
MonitorCloses ==
    /\ positions > locked
    /\ positions' = positions - 1
    /\ UNCHANGED <<day, baseline, cash, coins, locked, pc, seen, since, base, peak>>

Midnight ==
    /\ day < Days
    /\ day' = day + 1
    /\ UNCHANGED <<baseline, account, pc, seen, since, base, peak>>

-----------------------------------------------------------------------------
Next ==
    \/ \E c \in Callers : \/ ReadAccount(c) \/ SelectBaseline(c) \/ InsertBaseline(c)
                          \/ Report(c) \/ Decide(c)
    \/ \E o \in Orders : NotFilled(o) \/ \E p \in Prices : Fill(o, p)
    \/ \E p \in Prices : OcoExecutes(p)
    \/ MonitorCloses \/ Midnight

Spec == Init /\ [][Next]_vars

-----------------------------------------------------------------------------
\* The count is read before the order and grows after it, so the limit is no
\* limit for BUYs that overlap; but never more positions are open, or on their
\* way past the gate, than the limit and the other BUYs of one overlap.
PositionsBounded ==
    positions + Cardinality(Waiting) <=
        IF peak = 0 THEN 0 ELSE MaxPositions + peak - 1

\* The baseline of a day is written once, whoever races for it.
BaselineStands ==
    [][\A d \in 1..Days : baseline[d] # None => baseline'[d] = baseline[d]]_vars

\* Whatever was inserted, lost to a race or to midnight, every verdict of a day
\* is measured against that day's one baseline.
JudgedByTheDay ==
    \A c \in Callers :
        pc[c] \in {"judged", "loss"} => base[c] = baseline[since[c]]

\* "Reuse the authoritative daily-loss snapshot mechanism, but feed it the real
\* account equity": an order refused for the day's loss belongs to an account
\* that has lost something.
LossIsReal ==
    \A o \in Orders : pc[o] = "loss" => Equity(seen[o]) < base[o]
=============================================================================
