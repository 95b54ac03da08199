SPECIFICATION Spec
CONSTANTS
  u1 = u1
  u2 = u2
  u3 = u3
  Units <- ThreeUnits
  Faults = {"mail", "container", "cancel"}
SYMMETRY Symmetry
INVARIANT SummaryTrue
INVARIANT GroupOutlivesUnits
INVARIANT FailureMailed
\* Every unit reports at most twice: the system really stops.
CHECK_DEADLOCK FALSE
