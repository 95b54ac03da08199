SPECIFICATION FairSpec
CONSTANTS
  Resources = {r1}
  Readers = {v1, v2}
  MaxBuilds = 2
  MaxCleanups = 2
  Faults = {"cloud", "timeout", "lost"}
INVARIANT OwnWorkspace
INVARIANT FailedBuildLeavesNothing
INVARIANT ReadersTrue
PROPERTY ImplementsPromise
PROPERTY JobsEnd
\* In the end the stack is gone, or nobody asks for anything more.
CHECK_DEADLOCK FALSE
