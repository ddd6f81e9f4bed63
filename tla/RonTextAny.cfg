SPECIFICATION Spec
CONSTANTS
  Char = {"a", "'", " ", "["}
  MaxAlone = 2
  MaxPaired = 1
  MaxInner = 0
INVARIANT
  OneValue
CHECK_DEADLOCK FALSE
