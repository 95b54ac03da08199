SPECIFICATION Spec
CONSTANTS
  MaxRuns = 2
  MaxLines = 1
  Backends = {"docker", "kubernetes"}
  Faults = {"refuse", "keep", "timeout", "crash", "early", "deaf"}
INVARIANT DoneMeansRan
INVARIANT OnePlaybook
INVARIANT NothingLeftRunning
\* A stage that is done, or has been restarted often enough, stays as it is.
CHECK_DEADLOCK FALSE
