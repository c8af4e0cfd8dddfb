--------------------------- MODULE MCLiveTrading ---------------------------
(* Instances of LiveTrading: a BUY and one SELL or two of what it bought.  *)
EXTENDS LiveTrading, TLC

\* Interchangeable requests.
Symmetry == Permutations(Buys) \cup Permutations(Sells)
=============================================================================
