SPECIFICATION FairSpec
CONSTANTS
    Packets <- MCPackets
    Crc <- crc16_update
    Sums <- MCSums
    Gaps = {2}
    Malformed = TRUE
    Room = 6
    FifoDepth = 2
    SopBits = 10
    DrainBits = 10
    MaxReceives = 1
    MaxDelay = 0
PROPERTY
    Ends
