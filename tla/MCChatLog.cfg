SPECIFICATION Spec
CONSTANTS
    None = None
    Everyone = everyone
    n1 = n1
    n2 = n2
    IdWidth = 3
    Texts = {t1, t2}
    Clips = {c1}
    Sounds <- TwoSounds
    Peers = {n1}
    MaxRows = 2
    LineCapacity = 2
    Seeds = {7}
    Budgets <- Mixed
INVARIANTS
    
    SlotsAwaitAnswers
PROPERTIES
    PlayableStays
CHECK_DEADLOCK FALSE
