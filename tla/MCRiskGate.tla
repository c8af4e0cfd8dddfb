----------------------------- MODULE MCRiskGate -----------------------------
(* Instances of RiskGate for TLC.                                          *)
EXTENDS RiskGate, TLC

CONSTANTS o1, o2, o3

TwoBuysAndASell == o1 :> "BUY" @@ o2 :> "BUY" @@ o3 :> "SELL"
TwoBuys         == o1 :> "BUY" @@ o2 :> "BUY"

BuysAlike == Permutations({o1, o2})
=============================================================================
