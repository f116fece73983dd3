CONSTANTS
    None = None
    NStreams = 1
    NSel <- Sel1
    AllData <- NoAll1
    Stations <- A
    Covers <- CoversA
    MaxPackets = 2
    FaultKinds = {"drop", "refuse", "reject", "stall", "idle", "streamerror", "garble"}
    MaxFaults = 2
    Peers <- Servers
    MaxQueue = 2
    MaxInfo = 2
    Configs <- Clients
    Calls = {"connect", "negotiate", "reconnect", "ping", "info", "collect", "bye", "close"}
    MaxCalls = 4
    MaxPings = 1
SPECIFICATION AioFairSpec
INVARIANTS ReplyAligned
PROPERTIES AioReturns ResumesWhereItLeftOff
