SPECIFICATION Spec
CONSTANTS
  ModDelay = 13
  AntiDelay = 14
  AvgDelay = 28
  ModStages = 12
  AntiStages = 12
  AvgStages = 26
  Max_N = 3
  adc_pipe_len = 150
  filter_pipe_len = 28
  first_two_delay = 16
  stage_delay = 44
  Orders = {1, 2, 3}
  CallCycles = {1, 157, 201}
  MaxGap = 1
  MaxSamples = 165
  MaxEnabled = 800
INVARIANTS TypeOK StagesOnce SumApart MeanApart LongCallAnswers
CHECK_DEADLOCK FALSE
