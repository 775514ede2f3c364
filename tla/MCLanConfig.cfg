SPECIFICATION Spec
CONSTANTS
    Entry <- MCEntry
    Word = {"net", "key", "word"}
    Addr = {0, 1, 2}
    Rev <- MCRev
    MaxRequests = 2
    MaxCrashes = 1
INVARIANTS
    AnswerTrue
    TornOnlyAfterCrash
PROPERTIES
    SentBackOnlyWeakens
CHECK_DEADLOCK FALSE
