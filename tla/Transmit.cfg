SPECIFICATION FairSpec
CONSTANTS
    FrameNumbers = {2047}
    Endpoints <- MCEndpoints
    Payloads <- MCPayloads
    Transactions <- HostTransactions
    Encoded <- HostEncoded
    Waveform <- StandardWaveform
    TxFifoDepth = 8
    WaitBits = 75
    SopBits = 10
    Gaps = {2, 7}
    Answers = {17}
    Delays = {6, 150}
    MaxInterrupts = 1
    MaxTransactions = 2
INVARIANTS
    EncodedExact
    WireExact
    OwnPacketOver
    NoCollision
    FitsExactly
PROPERTY
    Returns
