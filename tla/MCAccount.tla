----------------------------- MODULE MCAccount ------------------------------
(* An instance of Account: two setups, a request of every other kind, and  *)
(* two orders under one id.                                                *)
EXTENDS Account, TLC

CONSTANTS setup1, setup2, enable, disable, set, clear, o1, o2, k

KindOf == [h \in Settings |->
    CASE h \in {setup1, setup2} -> "setup" [] h = enable -> "enable"
      [] h = disable -> "disable" [] h = set -> "set" [] OTHER -> "clear"]

OneKey == [o \in Orders |-> k]

\* The setups are alike, and so are the orders.
Symmetry == Permutations({setup1, setup2}) \cup Permutations(Orders)
=============================================================================
