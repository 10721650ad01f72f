SPECIFICATION Spec
SYMMETRY Symmetry
VIEW PoolView
CONSTANTS
  Record = {r1, r2, r3, r4, r5}
  Reward = {1, 2, 3}
  None = None
  Capacities = {2, 3, 5}
  LowNum = 1
  LowDen = 2
  MixedModes = {FALSE, TRUE}
  MaxBatch = 3
  MaxAdded = 7
INVARIANTS
  OnePlace
  Accounted
  PooledIndexed
PROPERTIES
  BoundaryKept
  ShrinkDropsHardest
  ColdIsFifo
  SampleWindow
  IsBoundedPool
CHECK_DEADLOCK FALSE
