SPECIFICATION FairSpec
CONSTANTS
    Kind <- Programs
    QueueCap = 1
    LineCap = 6
    ReadCap = 5
    BufferCap = 6
    MaxFrames = 4
    MaxUpsets = 2
INVARIANTS
    SoundInOrder
    LostWereCrowdedOrSplit
PROPERTIES
    FramesHeard
CHECK_DEADLOCK FALSE
