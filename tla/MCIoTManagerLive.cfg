SPECIFICATION NetFairSpec
CONSTANTS
    Ports = 2
    HalfRange = 4
    LineCap = 2
    ReadCap = 2
    BoardWaits = TRUE
    Garbage <- Zero
    MaxTally = 1
    MaxToggles = 0
    MaxRestarts = 1
    MaxAsks = 1
    MaxCrashes = 1
    MaxFaults = 1
    MaxRequests = 1
    Kinds = {"io", "count", "clear"}
PROPERTIES
    NextClientServed
    BoardServed
    CountersArrive
CONSTRAINT
    FaultAlone
CHECK_DEADLOCK FALSE
