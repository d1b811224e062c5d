SPECIFICATION FairSpec
CONSTANTS
    Sizes = {1, 2}
    Rooms = {1, 2}
    MaxPackets = 4
    MaxRefusals = 1
    MaxHalts = 1
INVARIANTS
    TypeOK
    InOrder
    RefusalCost
PROPERTIES
    Drains
    ChannelSpec
CHECK_DEADLOCK FALSE
