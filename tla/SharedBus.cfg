SPECIFICATION FairSpec
CONSTANTS
    Pipes = {p1, p2}
    p1 = p1
    p2 = p2
    DebounceFrames = 3
    DebounceCap = 5
    RecoveryFrames = 2
    MaxDrops = 1
    ResetsDetached = FALSE
INVARIANTS
    NoTransactionInReset
    AttachReal
    NoEventLost
    BusReleased
PROPERTIES
    EventuallyReleased
    EventuallyReported
    PipeProgress
