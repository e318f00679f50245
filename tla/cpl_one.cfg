SPECIFICATION CSpec
CONSTANTS
    NumCqs = 1
    EqSize = 1
    CqSize = 4
    PtrMod = 8
    Limit = 3
    Budget = 1
    MaxCpl = 10
INVARIANTS NothingDropped WakeupsExclusive NoLostWakeup
PROPERTIES KeepsManagerContract ImplementsChannel
