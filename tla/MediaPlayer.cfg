CONSTANTS
    Video = Video
    Audio = Audio
    Streams = {Video, Audio}
    PacketBound = 1
    CommandBound = 1
    FrameBound = 2
SPECIFICATION FairMediaSpec
INVARIANTS
    PaintsKnown
    NoPacketUnseen
    
PROPERTIES
    EndIsReached
    DestructorReturns
CHECK_DEADLOCK FALSE
