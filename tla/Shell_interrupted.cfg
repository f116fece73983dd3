CONSTANTS
    Dialup = FALSE
    Timed = FALSE
    MaxLines = 2
    MaxItems = 1
    MaxFaults = 1
SPECIFICATION Spec
INVARIANTS LeavingCloses
