SPECIFICATION Spec

CONSTANTS
    o1 = o1
    o2 = o2
    o3 = o3
    Orders = {o1, o2}
    Checks = {check}
    Side <- TwoBuys
    None = None
    Cash = 10
    Coins = 0
    Prices = {1}
    MaxLossPct = 5
    MaxExposurePct = 25
    MaxPositions = 5
    Days = 1

INVARIANT LossIsReal

CHECK_DEADLOCK FALSE
