SPECIFICATION RuntimeSpec
CONSTANTS
    None = None
    Unit = 30000
    Timeouts = {20, 130, 180}
    Startups <- Saved
    Presets = {"ShortFast", "VeryLongSlow"}
    KnownCodecs = {"amr"}
    MaxEdits = 1
    MaxReports = 1
    Senders = {s1}
    MessageIds = {1}
    Dests = {"direct", "broadcast"}
    Codecs = {"amr", "unknown"}
    Streams = {0}
    Headers <- RuntimeHeaders
    Lens = {1}
    MinChunk = 1
    MaxBody = 1
    MaxShards = 3
    MaxGlobal = 1
    MaxPerSender = 1
    BlacklistMax = 1
    MaxStrikes = 2
    Configs <- RuntimeConfigs
    Horizon = 1
    MaxTime = 8
PROPERTIES
    OffWaitsForTimeout
