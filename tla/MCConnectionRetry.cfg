SPECIFICATION FairSpec
CONSTANTS
    Users = {u1}
    Watcher = w
    MaxAttempts = 1
    MaxCalls = 2
    MaxDrops = 2
PROPERTIES
    DeadLinkLeavesSlot
    LostLinkIsRetried
CHECK_DEADLOCK FALSE
