SPECIFICATION MCFairSpec
CONSTANTS
    d1 = d1
    Device <- OneDevice
    HalfRange = 2
    QueueCap = 1
    ReplyCap = 1
    ReadCap = 2
    Lookalike = FALSE
    MaxMade = 2
    MaxUpsets = 1
    SockCap = 1
    Transducers = 1
    FdLimit = 4
    MaxPosted = 10
    MaxFaults = 1
INVARIANTS
    MiddlewareNeverOvercounts
    WoViewCurrent
PROPERTIES
    ServerPart
    ReachesMiddleware
CONSTRAINT
    OneDisturbance
CHECK_DEADLOCK FALSE
