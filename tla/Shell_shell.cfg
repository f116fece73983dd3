CONSTANTS
    Dialup = TRUE
    Timed = TRUE
    MaxLines = 4
    MaxItems = 1
    MaxFaults = 2
SPECIFICATION FairSpec
INVARIANTS PromptIsQuiet FramingAgrees
PROPERTIES ErrorsShown EnterStops
