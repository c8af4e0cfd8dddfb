SPECIFICATION Spec

CONSTANTS
    r1 = r1
    r2 = r2
    r3 = r3
    k1 = k1
    k2 = k2
    exitKey = exitKey
    exitSentAs = exitSentAs
    Worker = worker
    None = None
    Requests <- ThreeRequests
    Keys = {k1, k2}
    ClientOrderIds = {k1, k2}
    KeyOf <- MixedKeyOf
    SentAs <- SentAsIs2
    Operators = {}
    Working = {"PARTIALLY_FILLED"}
    CancelsResidual = TRUE
    SelectCanFail = TRUE
    MaxRestarts = 1

INVARIANT TypeOK
INVARIANT AtMostOneOrder
INVARIANT OrderHasRow
INVARIANT HonestFinal
PROPERTY KeepsPromise

CHECK_DEADLOCK FALSE
