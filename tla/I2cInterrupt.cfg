SPECIFICATION Spec
CONSTANTS
  FifoDepth = 8
  MultiMaster = FALSE
  MaxStalls = 0
  Kinds = {"tx"}
  Modes = {TRUE}
  Size = 2
  Retry = 2
  MaxCalls = 1
INVARIANT InterruptSuccess
CHECK_DEADLOCK FALSE
