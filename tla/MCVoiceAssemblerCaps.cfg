\* Several senders against the caps, the strikes and the blacklist.
SPECIFICATION Spec
CONSTANTS
    Senders = {s1, s2}
    MessageIds = {1, 2, 3}
    Dests = {"direct"}
    Codecs = {"amr"}
    Streams = {0}
    Headers <- CapHeaders
    Lens = {1}
    MinChunk = 1
    MaxBody = 1
    MaxShards = 2
    MaxGlobal = 2
    MaxPerSender = 2
    BlacklistMax = 2
    MaxStrikes = 1
    Configs <- CapConfigs
    Horizon = 2
    MaxTime = 3
VIEW TableView
SYMMETRY SenderSymmetry
INVARIANTS
    PerSenderCounts
    SettledIsClosed
PROPERTIES
    ImplementsSettledOnce
