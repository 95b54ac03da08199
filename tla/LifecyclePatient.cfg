SPECIFICATION Spec
CONSTANTS
  u1 = u1
  Units <- OneUnit
  MaxOps = 3
  Netbird = TRUE
  Hasty = {}
  Faults = {"crash"}
INVARIANT TypeOK
INVARIANT NothingLeftBehind
INVARIANT ReadyMeansAllocated
INVARIANT PoolSizeExact
\* Once every operation has been used up, the unit may have nothing left to do.
CHECK_DEADLOCK FALSE
