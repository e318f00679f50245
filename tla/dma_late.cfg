INIT MCInit
NEXT MCNext
SYMMETRY MCSymmetry
CHECK_DEADLOCK FALSE
CONSTANTS
    Parts = {"dma"}
    SegCount = 2
    Lanes = 2
    Lengths = {0, 2, 5}
    Senders = {s1, s2}
    SourceLimit = 1
    SinkLimit = 1
    MaxFrames = 4
    Callers = {c1, c2}
    Reads <- MCReads
    Rcb = 8
    MaxReadReq = 16
    MaxPayload = 8
    Page = 32
    TagCount = 2
    MaxErrors = 1
    MaxTimeouts = 1
    MaxOps = 3
    Transfers <- MCTransfers
    RegionSize = 32
    TargetPage = 16
    TargetOps = 3
    PfCount = 1
    HostTlps <- MCAll
    HostMax = 2
    UserKinds = {"rd"}
    RxCredits = 2
    TxCredits = 1
    BusCap = 1
    UserCap = 1
    UserRequests = 1
    SeqPorts = 2
INVARIANTS AssertionsHold
