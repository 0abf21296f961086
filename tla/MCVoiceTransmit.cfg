SPECIFICATION FairSpec
CONSTANTS
    Bursts = {"burst"}
    Relays = {"relay"}
    Count <- MCCount
    Pacing <- MCPacing
    Capacity = 1
    LowWater = 1
    WaitLimit = 1
    Slots = 2
    Unlimited = 9
    MaxConns = 2
    MaxReports = 1
INVARIANTS
    MarginHolds
    NoLostWakeUp
    BurstToldTruth
PROPERTY
    ImplementsPacedFifo
CHECK_DEADLOCK FALSE
