INIT MCInit
NEXT MCNext
CONSTANTS
  Parts = {"scrambler", "baser", "basex", "gearbox"}
  N = 5
  Taps <- MCTaps
  Configs <- MCConfigs
  XConfigs <- MCXConfigs
  FrameLimit = 1
  MaxPending = 2
  SeqLen = 66
  SeqStall = {64, 65}
  PackCnt = 2
  Ids = 3
INVARIANTS SelfSynchronising FramesDelivered IfgHolds LineStateSeen GearboxInStep
