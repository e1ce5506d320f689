SPECIFICATION PolledSpec
CONSTANTS
  Channels = {c1, c2}
  NoCh = NoCh
  Depth = 2
  SyncLag = 2
  TShift = 1
  TDone = 3
  MaxNum = 2
  MaxSess = 2
  nReadNum = 2
  BusGap = 1
  MaxResets = 1
INVARIANTS PolledTypeOK NoLostStart NoStaleDone RoundReadings
PROPERTIES RoundEnds
