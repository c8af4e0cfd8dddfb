---------------------------- MODULE LiveTrading ----------------------------
(***************************************************************************)
(* The live order route and the position monitor, tasks of one process,    *)
(* over one account, one positions table and one kill switch.  The user    *)
(* may set and lift the kill switch, and the process may restart, at any   *)
(* point.                                                                  *)
(***************************************************************************)
EXTENDS LiveOrderRoute, PositionMonitor, Functions

CONSTANTS
    MaxRestarts,    \* bound: process restarts
    MaxSwitches     \* bound: operator's uses of the kill switch

ASSUME BoundsAssumption == MaxRestarts \in Nat /\ MaxSwitches \in Nat

VARIABLES restarts, switches

env  == <<restarts, switches>>
vars == <<shared, route, monitor, beyond, env>>

TypeOK ==
    /\ SharedTypeOK /\ RouteTypeOK /\ MonitorTypeOK
    /\ restarts \in 0..MaxRestarts
    /\ switches \in 0..MaxSwitches

Init == SharedInit /\ RouteInit /\ MonitorInit /\ restarts = 0 /\ switches = 0

MonitorStep ==
    \/ MonSelect \/ MonTickEnds
    \/ \E i \in todo : MonSkip(i) \/ MonRead(i)
    \/ \E i \in cur : \/ MonClose(i) \/ MonUnprotect(i, ProtectQty(i.pos))
                      \/ MonFile(i) \/ MonSell(i) \/ MonSellFails(i) \/ MonFreeze(i)

ExchangeStep ==
    \/ \E r \in Requests : RestFills(r)
    \/ \E b \in Buys : OcoFills(b)

SetKillSwitch ==
    /\ switches < MaxSwitches
    /\ switches' = switches + 1
    /\ kill' = ~kill
    /\ UNCHANGED <<market, table, route, monitor, beyond, restarts>>

Restart ==
    /\ restarts < MaxRestarts
    /\ restarts' = restarts + 1
    /\ RouteRestart /\ MonitorRestart
    /\ UNCHANGED <<shared, switches>>

RouteNext ==
    /\ (\E b \in Buys : BuyStep(b)) \/ (\E s \in Sells : SellStep(s))
    /\ UNCHANGED <<monitor, beyond, env>>

MonitorNext == MonitorStep /\ UNCHANGED <<route, env>>

ExchangeNext == ExchangeStep /\ UNCHANGED <<table, kill, route, monitor, beyond, env>>

Next ==
    \/ RouteNext
    \/ MonitorNext
    \/ ExchangeNext
    \/ PriceMoves /\ UNCHANGED <<route, env>>
    \/ SetKillSwitch
    \/ Restart

Spec == Init /\ [][Next]_vars

\* asyncio runs the monitor again and again while the process is up, and a
\* question put to the exchange over and over is answered in the end.
MonitorFairness ==
    /\ WF_vars(MonitorNext)
    /\ \A i \in Item : SF_vars(MonRead(i) /\ UNCHANGED <<route, env>>)

FairSpec == Spec /\ MonitorFairness

-----------------------------------------------------------------------------
(* Safety.                                                                 *)

\* A position is CLOSED only if its coins are gone: its OCO executed, the
\* monitor's exit was FILLED, or a user's SELL sold all the position had.
ClosedMeansSold ==
    \A b \in Buys : posStatus[b] = "CLOSED" =>
        \/ oco[b] = "filled"
        \/ exitTrade[b] = "FILLED"
        \/ \E s \in Sells : held[s] # None /\ held[s].pos = b /\ got[s] >= held[s].qty

\* Ticks, retries and restarts together place at most one order to get rid of
\* a BUY: the row protective_exit_position_N is claimed once for good.
OneExitPerPosition == \A b \in Buys : exits[b] <= 1

\* What the table says can be sold was really bought, in whole lot steps at
\* most, and an OCO stood behind it before the row did.
TrackedIsProtected ==
    \A b \in Buys : posStatus[b] # "none" =>
        /\ posQty[b] <= FloorStep(filled[b])
        /\ oco[b] # "none"

SellsOf(b) == {s \in Sells : held[s] # None /\ held[s].pos = b}
Sold(S) == FoldFunctionOnSet(+, 0, got, S)

\* SELLs of b that sold part of it and have returned.
Reduced(b) == {s \in SellsOf(b) : pc[s] = "returned" /\ 0 < got[s] /\ got[s] < held[s].qty}

\* Each SELL writes back what it read less what it sold, over whatever other
\* SELLs wrote in between.  The table forgets some of their sales that way, but
\* never all of them, and never takes off anything that was not sold.
TableCountsSales ==
    \A b \in Buys : posStatus[b] # "none" =>
        \E S \in SUBSET Reduced(b) :
            /\ Reduced(b) # {} /\ ~ExpiresPartly => S # {}
            /\ posQty[b] = ProtectQty(b) - Sold(S)

\* With one BUY and nothing in the account but its coins, a position is closed
\* with its OCO still active only if the BUY executed more than its handler
\* heard of.  The reservation sees to that: the code swallows a failed
\* cancel_order_list and closes all the same.
NoOrphanedProtection ==
    \A b \in Buys :
        posStatus[b] = "CLOSED" /\ oco[b] = "active" => filled[b] > got[b]

-----------------------------------------------------------------------------
(* Liveness.                                                               *)

\* A position whose OCO has executed is closed in the table in the end.
OcoFillReconciled ==
    \A b \in Buys :
        oco[b] = "filled" /\ posStatus[b] = "OPEN" ~> posStatus[b] = "CLOSED"

-----------------------------------------------------------------------------
(* What the documentation says and the code does not do.                   *)

\* "Cancel the OCO first so a worker-triggered emergency exit cannot race an
\* exchange-side stop/take-profit order."
NoRaceWithOco ==
    \A b \in Buys : oco[b] = "filled" /\ posStatus[b] # "none" => exitSold[b] = 0
=============================================================================
