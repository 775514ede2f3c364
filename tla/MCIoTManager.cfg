SPECIFICATION NetSpec
CONSTANTS
    Ports = 2
    HalfRange = 4
    LineCap = 1
    ReadCap = 1
    BoardWaits = FALSE
    Garbage <- Zero
    MaxTally = 1
    MaxToggles = 1
    MaxRestarts = 1
    MaxAsks = 0
    MaxCrashes = 0
    MaxFaults = 1
    MaxRequests = 2
    Kinds = {"io", "count", "clear"}
INVARIANTS
    WholeReplies
    OneRequestIsSafe
PROPERTIES
    InputsReal
CHECK_DEADLOCK FALSE
CONSTRAINT
    OneDisturbance
