SPECIFICATION Spec
CONSTANTS
  Entrypoints = {"e1"}
  Host <- HostOfEach
  Routes <- RoutesEach
  Dns = FALSE
  Faults = {}
INVARIANT RaceLeavesNothing
CHECK_DEADLOCK FALSE
