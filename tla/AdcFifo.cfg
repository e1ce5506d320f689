SPECIFICATION Spec
CONSTANTS
  Channels = {c1}
  NoCh = NoCh
  Depth = 2
  SyncLag = 2
  TShift = 1
  TDone = 2
  MaxNum = 4
  MaxSess = 2
INVARIANTS TypeOK SessionWords WordsInOrder
PROPERTIES ReadReturnsPopped DoneCountsWords
