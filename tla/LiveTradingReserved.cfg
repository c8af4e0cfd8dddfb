SPECIFICATION FairSpec

CONSTANTS
    None = None
    Buys = {b1}
    Sells = {s1}
    BuyQty = 4
    Step = 2
    Outside = 0
    ExpiresPartly = TRUE
    MaxRestarts = 1
    MaxSwitches = 0

INVARIANT OneExitPerPosition
INVARIANT NoOrphanedProtection
PROPERTY OcoFillReconciled

CHECK_DEADLOCK FALSE
