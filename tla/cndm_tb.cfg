SPECIFICATION MCSpec
CHECK_DEADLOCK FALSE
CONSTANTS
    Callers = {a, b}
    Words = 3
    Locked = TRUE
    MaxTimeouts = 2
    MaxCmds = 4
    Size = 4
    EqSize = 2
    Refill = 2
    Burst = 2
    Senders = {s1, s2}
    MaxRx = 5
    MaxTx = 2
    MaxFrames = 6
INVARIANTS PoolExclusive FramesInOrder InterruptsServed MailboxInStep
PROPERTIES CallerReturns
