SPECIFICATION Spec
CONSTANTS
    Frame = 2
    ResetTicks = 3
    RecoveryFrames = 3
    FrameNumbers = 16
    MaxBusy = 2
    MaxAge = 4
    Wrap = 11
INVARIANTS
    NoSuspend
    RecoveryPaced
PROPERTIES
    SofAdvances
