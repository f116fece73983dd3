CONSTANTS
    None = None
    NStreams = 1
    NSel <- Sel1
    AllData <- NoAll1
    Stations <- AB
    Covers <- CoversAny
    MaxPackets = 2
    FaultKinds = {"drop", "refuse", "reject", "timeout", "stall", "idle", "streamerror", "garble"}
    MaxFaults = 2
    Peers <- Rings
    MaxQueue = 2
    MaxInfo = 1
    Configs <- Collecting
    Calls = {"connect", "collect", "close"}
    MaxCalls = 2
    MaxPings = 1
SPECIFICATION Spec
INVARIANTS FramingAgrees ResumePair
PROPERTIES EndsAsDocumented ResumesWhereItLeftOff
