CONSTANTS
    Reconnects = {TRUE, FALSE}
    Acts = {"close", "cancel", "recollect", "reopen"}
    MaxActs = 2
    MaxBytes = 6
    MaxCuts = 1
SPECIFICATION Spec
INVARIANTS OneConnection FramesWhole NoCrashUnintruded
PROPERTIES Reconnected
