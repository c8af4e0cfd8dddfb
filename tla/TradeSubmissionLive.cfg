SPECIFICATION FairSpec

CONSTANTS
    r1 = r1
    r2 = r2
    r3 = r3
    k1 = k1
    k2 = k2
    exitKey = exitKey
    exitSentAs = exitSentAs
    Worker = worker
    None = None
    Requests <- TwoRequests
    Keys = {k1}
    ClientOrderIds = {k1}
    KeyOf <- RetryKeyOf
    SentAs <- SentAsIs1
    Operators = {op}
    Working = {"PARTIALLY_FILLED"}
    CancelsResidual = TRUE
    SelectCanFail = FALSE
    MaxRestarts = 1

INVARIANT StillReconciled
PROPERTY ResolvedForGood
