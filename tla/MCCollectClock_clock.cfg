CONSTANTS
    Confs <- Timed
    Poll = 2
    MaxQueue = 2
    MaxPieces = 1
    MaxTicks = 13
SPECIFICATION Spec
INVARIANTS SilentServerIsLeft LinkKeptAlive
PROPERTIES OnlySilenceIsIdle
