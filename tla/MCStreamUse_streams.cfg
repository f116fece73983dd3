CONSTANTS
    None = None
    Ids <- IdSet
    Any = "*"
    Stations <- AB
    Matches <- Matching2
    Unparsable = {2}
    MaxStreams = 2
    MaxPackets = 3
    Late = {"add"}
    Chars = {"B", "0", "?", "*", "!"}
    Wild = {"?", "*"}
    Odd = {"!"}
SPECIFICATION Spec
INVARIANTS CacheIsFresh RecoveredInAnyOrder SavedPair SelectsTheSame
PROPERTIES FileIsWhole
