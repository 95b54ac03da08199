SPECIFICATION PoolSpec
CONSTANTS
  u1 = u1
  u2 = u2
  u3 = u3
  v1 = v1
  v2 = v2
  Units <- ThreeUnits
  Visitors <- TwoVisitors
  MaxSize = 2
  MaxSizes = {1, 3}
  Counts = {1}
  All = All
SYMMETRY Symmetry
INVARIANT CapacityRespected
INVARIANT SizeExact
\* Once every unit has been built and cleaned up, the pool may have nothing left to do.
CHECK_DEADLOCK FALSE
