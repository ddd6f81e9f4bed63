SPECIFICATION Spec
CONSTANTS
  MaxBit = 4
  MaxRanges = 2
  Native = TRUE
INVARIANT SameBits
CHECK_DEADLOCK FALSE
