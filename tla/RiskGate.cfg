SPECIFICATION Spec

CONSTANTS
    o1 = o1
    o2 = o2
    o3 = o3
    Orders = {o1, o2, o3}
    Checks = {check}
    Side <- TwoBuysAndASell
    None = None
    Cash = 30
    Coins = 1
    Prices = {1, 2}
    MaxLossPct = 5
    MaxExposurePct = 25
    MaxPositions = 1
    Days = 2

INVARIANT TypeOK
INVARIANT PositionsBounded
INVARIANT JudgedByTheDay
PROPERTY BaselineStands

SYMMETRY BuysAlike

CHECK_DEADLOCK FALSE
