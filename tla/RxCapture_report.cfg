SPECIFICATION Spec
CONSTANTS
    Packets <- MCReports
    Crc <- crc16_update
    Sums <- MCReportSums
    Gaps = {2}
    Malformed = FALSE
    Room = 12
    FifoDepth = 8
    SopBits = 10
    DrainBits = 10
    MaxReceives = 1
    MaxDelay = 80
INVARIANT
    AckedExact
