SPECIFICATION FairSpec
CONSTANTS
    Kind <- Drivers
    QueueCap = 1
    LineCap = 6
    ReadCap = 4
    BufferCap = 6
    MaxFrames = 4
    MaxUpsets = 2
INVARIANTS
    WholeFrames
    OnceInOrder
PROPERTIES
    FramesArrive
CHECK_DEADLOCK FALSE
