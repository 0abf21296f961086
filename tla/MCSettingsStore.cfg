SPECIFICATION Spec
CONSTANTS
    NoValue = NoValue
    Nobody = Nobody
    Procs = {gui}
    Threads = {t1, t2}
    Owner <- MCOwnerOne
    KeyOrder <- MCKeyOrder
    Values = {3, 9}
    ReloadMayOverlap = FALSE
    SameSecond = FALSE
    MaxCalls = 3
    MaxEdits = 1
    MaxFaults = 1
    MaxCrashes = 1
    MaxClock = 1
INVARIANTS
    BrokenKept
    SettledOnDisk
    ListenersCurrent
CHECK_DEADLOCK FALSE
