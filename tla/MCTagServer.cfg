SPECIFICATION FairSpec
CONSTANTS
    Message <- MCMessage
    QueueCap = 2
    SockCap = 2
    Transducers = 1
    FdLimit = 4
    MaxPosted = 3
    MaxFaults = 4
INVARIANTS
    TypeOK
    EveryReportAccounted
    DeliveredInOrder
PROPERTIES
    RegisteredBeforeReport
    ImplementsChannel
    CutOffForGood
    EveryReportResolved
CHECK_DEADLOCK FALSE
