SPECIFICATION FairSpec
CONSTANTS
    DevMps = 2
    HostMps = {1, 2, 3}
    Lengths = {0, 2, 3, 4}
    StallBudget = 2
    TotalCap = 5
    StatusAttempts = 3
    CrcBudget = 2
    MaxAttempts = 2
INVARIANTS
    TypeOK
    ReadInStep
    WriteInStep
    ReadComplete
    WriteComplete
PROPERTY
    Terminates
