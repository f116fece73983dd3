CONSTANTS
    None = None
    NStreams = 2
    NSel <- Sel2
    AllData <- NoAll2
    Stations <- AB
    Covers <- CoversTwo
    MaxPackets = 1
    FaultKinds = {"drop", "refuse", "reject", "timeout", "stall", "idle", "streamerror", "garble"}
    MaxFaults = 2
    Peers <- V3V4
    MaxQueue = 2
    MaxInfo = 2
    Configs <- Calling
    Calls = {"connect", "negotiate", "reconnect", "ping", "info", "collect", "bye", "close"}
    MaxCalls = 4
    MaxPings = 1
SPECIFICATION Spec
INVARIANTS TypeOK AlignedIfCareful BatchAgrees StreamingWasAsked OnItsStation
