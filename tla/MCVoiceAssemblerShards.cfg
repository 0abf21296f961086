\* One message, every order of shards, lengths and parity counts.
SPECIFICATION Spec
CONSTANTS
    Senders = {s1}
    MessageIds = {1}
    Dests = {"direct", "broadcast"}
    Codecs = {"amr"}
    Streams = {0}
    Headers <- ShardHeaders
    Lens = {1, 2}
    MinChunk = 1
    MaxBody = 2
    MaxShards = 4
    MaxGlobal = 1
    MaxPerSender = 1
    BlacklistMax = 1
    MaxStrikes = 2
    Configs <- ShardConfigs
    Horizon = 3
    MaxTime = 3
INVARIANTS
    TypeOK
    ShardsConsistent
    NothingRecoverableWaits
    FinalizedAudioAligned
