SPECIFICATION FairSpec
CONSTANTS
  u1 = u1
  Units <- OneUnit
  MaxOps = 3
  Netbird = FALSE
  Hasty = {"restart", "cancel", "force"}
  Faults = {}
INVARIANT StagesRunInOrder
INVARIANT PoolSizeNeverOvercounts
INVARIANT QuietUnitIsSettled
PROPERTY LockedSandboxKept
PROPERTY RequestsSettle
\* Once every operation has been used up, the unit may have nothing left to do.
CHECK_DEADLOCK FALSE
