SPECIFICATION FairSpec
CONSTANTS
  Entrypoints = {"e1"}
  Host <- HostOfEach
  Routes <- RoutesEach
  Dns = TRUE
  Faults = {"refuse", "slow", "crash"}
 
INVARIANT NothingLeft
INVARIANT OverrunBounded
PROPERTY JobAndRequestEnd
\* In the end the sandbox is gone and nobody is left to do anything.
CHECK_DEADLOCK FALSE
