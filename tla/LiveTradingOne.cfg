SPECIFICATION Spec

CONSTANTS
    None = None
    Buys = {b1}
    Sells = {s1, s2}
    BuyQty = 3
    Step = 2
    Outside = 1
    ExpiresPartly = FALSE
    MaxRestarts = 0
    MaxSwitches = 1

INVARIANT TypeOK
INVARIANT ClosedMeansSold
INVARIANT OneExitPerPosition
INVARIANT TrackedIsProtected
INVARIANT TableCountsSales
SYMMETRY Symmetry

CHECK_DEADLOCK FALSE
