\* Two symbols, three providers in either mode, readings at the corners.
SPECIFICATION FairSpec
CONSTANTS
    s1 = s1
    s2 = s2
    None = None
    Symbols = {s1, s2}
    Order <- MCOrder
    Modes = {"fallback", "ensemble"}
    Answers <- MCAnswers
    Readings <- MCReadings
    NewsItems <- MCNews
    GeminiAnswers <- MCGemini
    Models <- MCModels
    Books <- MCBooks
    AutoOpportunity = TRUE
    Threshold = 70
    MaxQueue = 2
INVARIANTS TypeOK AdviceNeverActs UngroundedIsIgnored BackedByAnswers
PROPERTIES CriticalIsNeverQueued SilentScanner EverySymbolIsSeen
CHECK_DEADLOCK FALSE
