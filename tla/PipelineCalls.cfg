SPECIFICATION Spec
CONSTANTS
  ModDelay = 13
  AntiDelay = 14
  AvgDelay = 28
  ModStages = 12
  AntiStages = 12
  AvgStages = 26
  adc_pipe_len = 30
  reconstructed_pipe_len = 28
  CallCycles = {1}
  Starts = {TRUE}
  MinGap = 0
  MaxGap = 16
  MaxSamples = 80
INVARIANTS AveragesOnce ReconstructionAligned MeanOfWindowBefore
PROPERTIES DacInOrder
CHECK_DEADLOCK FALSE
