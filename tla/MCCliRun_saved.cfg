CONSTANTS
    None = None
    Ids <- IdSet
    Any = "*"
    Stations <- OnlyA
    Matches <- MatchesA
    Unparsable = {2}
    MaxStreams = 1
    MaxPackets = 3
    Id = "A"
    St = "a"
    MaxRuns = 3
    Trouble = {"kill", "interrupt_setup", "interrupt", "interrupt_exit", "badwindow", "unreadable", "savefails", "printfails", "dumpfails"}
SPECIFICATION CliSpec
INVARIANTS DumpHoldsReceived DumpInOrder
PROPERTIES ProgressKeptOnceRecovered
