SPECIFICATION LinkSpec
CONSTANTS
    None = None
    Never = Never
    RADIO_QUEUE_LOW_WATER = 2
    RADIO_QUEUE_WAIT_TIMEOUT = 2
    QUEUE_RECHECK = 1
    Step = 1000
    Requests <- Clips
    Frees = {2, 3}
    MaxHeard = 3
    MaxBurst = 2
    MaxOnLine = 6
    MaxReadErrors = 2
    MaxNoise = 2
    MaxSilences = 2
    MaxStale = 1
INVARIANTS
    FramesSurvive
    LinkTruthful
    PartialsHeardInTime
PROPERTIES
    BurstEndsAndIsRead
CHECK_DEADLOCK FALSE
