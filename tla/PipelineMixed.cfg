SPECIFICATION Spec
CONSTANTS
  ModDelay = 3
  AntiDelay = 4
  AvgDelay = 4
  ModStages = 2
  AntiStages = 2
  AvgStages = 2
  adc_pipe_len = 10
  reconstructed_pipe_len = 4
  CallCycles = {1, 2}
  Starts = {TRUE, FALSE}
  MinGap = 0
  MaxGap = 1
  MaxSamples = 3
INVARIANTS TypeOK ResidualAligned AccumulatesOnce
CHECK_DEADLOCK FALSE
