SPECIFICATION LineSpec
CONSTANTS
  bs = 2
  MaxByte = 3
  Keys <- TestKeys
  MaxLength = 3
  None = None
INVARIANTS LineTypeOK LineRestored
CHECK_DEADLOCK FALSE
