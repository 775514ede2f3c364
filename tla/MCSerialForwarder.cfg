SPECIFICATION FairSpec
CONSTANTS
    c1 = c1
    c2 = c2
    Clients <- TwoClients
    None = None
    SeqMod = 4
    Mtu = 3
    LineCap = 6
    MaxPackets <- OnePacket
    MaxUpsets = 1
INVARIANTS
    AckMeansDelivered
    IntactFramesTaken
PROPERTIES
    PacketsForwarded
CHECK_DEADLOCK FALSE
