SPECIFICATION CSpec
CONSTANTS
    NumCqs = 2
    EqSize = 2
    CqSize = 2
    PtrMod = 4
    Limit = 1
    Budget = 1
    MaxCpl = 2
INVARIANTS CInv
