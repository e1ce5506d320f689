SPECIFICATION ModelSpec
CONSTANTS
  Programs = {"streaming_reconstruct", "test_valid"}
  Orders = {1, 2, 3}
  lam = 5
  MA_WINDOW_SIZE = 5
  a = 2
  DAC_MAX_VALUE = 255
  V_REF = 8
  OFFSET = 2
  AdcBias = 6
  MaxRise = 1
  MaxVoltage = 9
INVARIANTS ModelTypeOK StartForgotten
PROPERTY FollowsFolds
