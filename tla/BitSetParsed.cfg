SPECIFICATION Spec
CONSTANTS
  MaxBit = 4
  MaxRanges = 4
  Native = FALSE
INVARIANTS
  TypeOK
  SameBits
  Separated
CHECK_DEADLOCK FALSE
