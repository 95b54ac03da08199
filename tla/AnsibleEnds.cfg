SPECIFICATION FairSpec
CONSTANTS
  MaxRuns = 2
  MaxLines = 1
  Backends = {"docker", "kubernetes"}
  Faults = {"timeout"}
PROPERTY RunEnds
\* A stage that is done, or has been restarted often enough, stays as it is.
CHECK_DEADLOCK FALSE
