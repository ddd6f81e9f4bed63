SPECIFICATION Spec
CONSTANTS
  Programs <- MCCycles
  Heap <- MCHeap
  FloatRenderers = {"none"}
  MaxLimit = 1
  MaxCalls = 1
INVARIANT LimitEnds
CHECK_DEADLOCK FALSE
