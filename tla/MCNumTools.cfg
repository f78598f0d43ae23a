CONSTANTS
  IntBits = 8
  LongBits = 16
  Parts = 128
  Requests <- MCUnsigned

SPECIFICATION NumSpec
INVARIANT TextIsNumber
CHECK_DEADLOCK FALSE
