SPECIFICATION Spec

CONSTANTS
    None = None
    Buys = {b1}
    Sells = {s1}
    BuyQty = 3
    Step = 2
    Outside = 3
    ExpiresPartly = TRUE
    MaxRestarts = 0
    MaxSwitches = 0

INVARIANT NoRaceWithOco

CHECK_DEADLOCK FALSE
