SPECIFICATION Spec
CONSTANTS
    Ports = 2
    HalfRange = 4
    LineCap = 2
    ReadCap = 2
    BoardWaits = FALSE
    Garbage <- ZeroOrLarge
    MaxTally = 2
    MaxRestarts = 2
    MaxAsks = 2
    MaxCrashes = 1
    MaxFaults = 1
INVARIANTS
    StoredUnlessRefused
PROPERTIES
    NeverGoesBack
    RestoredBetween
CONSTRAINT
    NoCause
CHECK_DEADLOCK FALSE
