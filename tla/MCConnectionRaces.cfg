SPECIFICATION Spec
CONSTANTS
    Users = {u1, u2}
    Watcher = w
    MaxAttempts = 1
    MaxCalls = 2
    MaxDrops = 2
SYMMETRY UserSymmetry
INVARIANTS
    TypeOK
    SlotHasReader
    WatcherHonoursDisconnect
PROPERTIES
    HealthyKept
CHECK_DEADLOCK FALSE
