SPECIFICATION Spec
CONSTANTS
    Mps = 2
    Lengths = {0, 1, 4}
    MaxPackets = 6
    MaxCancels = 2
    MaxHalts = 1
INVARIANTS
    TypeOK
    InOrder
    ExactlyOnce
    CancelCost
    Framing
PROPERTY
    ChannelSpec
CHECK_DEADLOCK FALSE
