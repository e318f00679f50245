INIT MCInit
NEXT MCNext
CONSTANTS
  Parts = {"baser"}
  N = 5
  Taps <- MCTaps
  Configs <- MCDefault
  XConfigs <- MCXConfigs
  FrameLimit = 1
  MaxPending = 2
  SeqLen = 66
  SeqStall = {64, 65}
  PackCnt = 2
  Ids = 3
INVARIANTS OnlyIdlesReplaced
