--------------------------- MODULE MCTestnetTrade ---------------------------
(* Instances of TestnetTrade: one operator's BUYs and SELL through the     *)
(* environment's account; two users with credentials of their own.         *)
EXTENDS TestnetTrade, TLC

CONSTANTS u1, u2, b1, b2, s1, a1, a2

NoIds == [o \in Orders |-> None]

\* Everybody is the operator.
OneUser == [o \in Orders |-> u1]

\* The second BUY and the SELL are another user's.
TwoUsers == [o \in Orders |-> IF o = b1 THEN u1 ELSE u2]

\* BUYs and amounts are interchangeable.
Symmetry == Permutations(Buys) \cup Permutations(Amounts)
=============================================================================
