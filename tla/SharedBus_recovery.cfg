SPECIFICATION Spec
CONSTANTS
    Pipes = {p1}
    p1 = p1
    DebounceFrames = 2
    DebounceCap = 3
    RecoveryFrames = 2
    MaxDrops = 0
    ResetsDetached = FALSE
INVARIANT
    SofOnlyRecovery
