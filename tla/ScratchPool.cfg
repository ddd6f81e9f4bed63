SPECIFICATION Spec
CONSTANTS
  Goroutine = {g1, g2}
  MaxDepth = 2
  MaxPooled = 1
SYMMETRY Goroutines
INVARIANTS
  CollectedIntact
  PoolSound
