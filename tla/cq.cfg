INIT MCInit
NEXT MCNext
CONSTANTS
    NumQueues = 1
    PtrMod = 8
    Sizes = {1, 2, 4}
    Dqns = {0}
    Bases = {0}
    IS_CQ = TRUE
    IS_EQ = TRUE
    CQ_IRQ = TRUE
    QTYPE_EN = TRUE
INVARIANT RingBound
PROPERTIES GrantsUsableSlot NotificationKept
