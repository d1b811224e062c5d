SPECIFICATION FairSpec
CONSTANTS
    Packets <- MCPackets
    Crc <- crc16_update
    Sums <- MCSums
    Gaps = {2, 7}
    Malformed = FALSE
    Room = 6
    FifoDepth = 2
    SopBits = 10
    DrainBits = 10
    MaxReceives = 2
    MaxDelay = 30
INVARIANTS
    AckedExact
    PidExact
    Received
PROPERTY
    Ends
