CONSTANTS
    None = None
    NStreams = 1
    NSel <- Sel1
    AllData <- NoAll1
    Stations <- A
    Covers <- CoversA
    MaxPackets = 2
    FaultKinds = {"drop", "refuse", "reject", "timeout", "stall", "idle", "streamerror", "garble"}
    MaxFaults = 2
    Peers <- V3V4
    MaxQueue = 2
    MaxInfo = 1
    Configs <- Collecting
    Calls = {"connect", "collect", "close"}
    MaxCalls = 2
    MaxPings = 1
SPECIFICATION FairSpec
PROPERTIES Recovers CallsReturn FeedAdvances
