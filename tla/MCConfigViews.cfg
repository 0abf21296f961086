SPECIFICATION Spec
CONSTANTS
    None = None
    BROADCAST_ADDR = everyone
    Sections = {"lora"}
    Chans <- OneChannel
    Values = {x, y}
    Radios = {r1, r2}
    Refreshers = {k1}
    Cards = {"lora"}
    Callbacks = {"nodes", "lora", "channels", "owner"}
    Clients = {"desktop", "android"}
    LineCapacity = 5
    MaxConns = 2
    MaxTroubles = 1
    MaxChanges = 1
    MaxEdits = 1
    MaxApplies = 1
    MaxHooks = 1
SYMMETRY Symmetry
INVARIANTS
    MirrorsAgree
    
    KotlinCurrent
CHECK_DEADLOCK FALSE
