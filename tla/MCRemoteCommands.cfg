SPECIFICATION Spec
CONSTANTS
    Node = {1, 2}
    Manager = {"comm", "uart"}
    Ask <- MCAsk
    QueueCap = 1
    LineCap = 4
    MaxCommands = 2
    MaxQueries = 1
    MaxFaults = 1
INVARIANTS
    HandledOnceInOrder
    DeletedUnlessExplained
    HeardUnlessExplained
    CommandsTaken
PROPERTIES
    MuteForGood
CHECK_DEADLOCK FALSE
