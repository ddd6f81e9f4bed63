SPECIFICATION SpecEither
CONSTANTS
  v1 = v1
  v2 = v2
  v3 = v3
  v4 = v4
  v5 = v5
  Nil = Nil
  Item <- MCItem
  X <- MCX
  Y <- MCY
  Region <- MCRegion
  MaxItems = 4
  Point <- MCPoint
  Filter <- MCFilter
  MaxK = 3
  Distances <- MCDistances
  Window <- MCWindow
  Unit = 16
  Grid <- MCGrid
  Starts <- MCStarts
  Targets <- MCTargets
  TestPoints <- MCTestPoints
  Radii <- MCRadii
  Sine <- MCSine
  Cosine <- MCCosine
  Degree = 6
  HalfTurn = 4
  Pole = 6
  Paths <- MCPaths
  Divisions = 2
  MaxPoints = 2
  MaxEdits = 0
INVARIANT CenterContained
CHECK_DEADLOCK FALSE
