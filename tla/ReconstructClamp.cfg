SPECIFICATION Spec
CONSTANTS
  Half = 128
  SumHalf = 512
  Lambda = 5
  WINDOW_SIZE = 3
  AdcGain = 2
  AdcOffset = 6
  one_over_a = 3
  Fraction = 4
  DacShift = 2
  dac_offset = 2
  vref = 5
  dac_max_over_vref = 13
  DacFraction = 4
  MaxStep = 3
  MaxSignal = 20
INVARIANT ClampsLow
