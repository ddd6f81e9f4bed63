SPECIFICATION SearchSpec
CONSTANTS
  v1 = v1
  v2 = v2
  v3 = v3
  v4 = v4
  v5 = v5
  Nil = Nil
  Item <- FractionItem
  X <- FractionX
  Y <- FractionY
  Region <- FractionRegion
  MaxItems = 3
  Point <- FractionPoint
  Filter <- FractionFilter
  MaxK = 1
  Distances = {}
  Window = {}
  Unit = 16
INVARIANT FindsClosest
CHECK_DEADLOCK FALSE
