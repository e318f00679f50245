INIT MCInit
NEXT MCNext
CHECK_DEADLOCK FALSE
CONSTANTS
    Segs = 2
    Lanes = 2
    Rows = 2
    Spans <- MCSpans
    MaxOps = 3
    Bits = 3
    Second = 10
    AltFrom = 7
    MsgGap = 57
    TdDelay = 3
    Periods <- MCPeriods
    Drifts <- MCDrifts
    Times <- MCTimes
    StartPeriod <- MCStartPeriod
    StartDrift <- MCStartDrift
    MaxChanges = 1
    ChangeWindow = 174
    MaxQuiet = 440
INVARIANTS WritesLand ReadsAreFresh TransfersEnd
PROPERTIES SinkFollows
