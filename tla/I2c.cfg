SPECIFICATION FairSpec
CONSTANTS
  FifoDepth = 2
  MultiMaster = TRUE
  MaxStalls = 1
  Kinds = {"tx", "rx", "tx_rx"}
  Modes = {TRUE, FALSE}
  Size = 3
  Retry = 2
  MaxCalls = 2
INVARIANTS TypeOK PolledSuccess WholeUnlessLapsed NothingLeft AddressFirst TimeoutFromBus
PROPERTIES CallsReturn InterruptSendEnds LinkKept
CHECK_DEADLOCK FALSE
