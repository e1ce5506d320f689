SPECIFICATION HardwareSpec
CONSTANTS
  Programs = {"test_valid"}
  Orders = {2}
  lam = 5
  MA_WINDOW_SIZE = 5
  a = 1
  DAC_MAX_VALUE = 255
  V_REF = 8
  OFFSET = 2
  AdcBias = 6
  MaxRise = 1
  MaxVoltage = 9
INVARIANT MatchesCModel
