SPECIFICATION FairSpec
CONSTANTS
    d1 = d1
    Device <- OneDevice
    HalfRange = 1
    QueueCap = 1
    ReplyCap = 3
    ReadCap = 4
    Lookalike = TRUE
    MaxMade = 1
    MaxUpsets = 1
PROPERTIES
    CatchesUp
CHECK_DEADLOCK FALSE
