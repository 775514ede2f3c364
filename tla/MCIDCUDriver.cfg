SPECIFICATION Spec
CONSTANTS
    d1 = d1
    Device <- OneDevice
    HalfRange = 2
    QueueCap = 1
    ReplyCap = 2
    ReadCap = 2
    Lookalike = TRUE
    MaxMade = 2
    MaxUpsets = 2
INVARIANTS
    UnitsReportedOnce
    QuantityConserved
CHECK_DEADLOCK FALSE
