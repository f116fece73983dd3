CONSTANTS
    Reconnects = {TRUE}
    Acts = {"recollect"}
    MaxActs = 1
    MaxBytes = 5
    MaxCuts = 0
SPECIFICATION Spec
INVARIANTS NoCrash
