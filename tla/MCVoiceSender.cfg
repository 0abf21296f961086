SPECIFICATION FairSpec
CONSTANTS
    Messages = {m1}
    DataChunks = 2
    MaxRetransmits = 3
    Frames = 2
    Permits = 1
    TaskIds = {1, 2, 3}
    MaxNacks = 4
INVARIANTS
    TypeOK
    EachChunkOnce
    DeferralHasWakeUp
    InflightCountsTasks
    
PROPERTIES
    EverySendEnds
CHECK_DEADLOCK FALSE
