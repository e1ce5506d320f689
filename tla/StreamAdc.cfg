SPECIFICATION StreamSpec
CONSTANTS
  Channels = {c1, c2}
  NoCh = NoCh
  Depth = 2
  SyncLag = 2
  TShift = 1
  TDone = 3
  MaxNum = 1
  MaxSess = 3
  LoopGap = 13
  MaxStall = 7
  MaxResets = 1
INVARIANT OneReadingBehind
