SPECIFICATION FairSpec
CONSTANTS
    Types <- MCTypes
    MaxPackets = 4
    MaxNest = 2
    Slirp = FALSE
INVARIANTS OnePacket AttachedLive EveryPacket
PROPERTIES PacketsRead
