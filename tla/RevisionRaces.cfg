SPECIFICATION Spec
CONSTANTS
  MaxCommits = 3
  Loads <- MCLoads
  Matches <- MCMatches
  Modes = {"FRESH", "FRESH_IMPORT", "AGGRESSIVE"}
  Importers = {i1}
  Previews = {d1}
  MaxRebuilds = 1
  Faults = {"git", "cloud", "expire", "eager"}
INVARIANT CacheTrue
INVARIANT OneCommit
INVARIANT ValidatedIsUsed
INVARIANT RefusedIsGone
\* Every request and job has ended, and nothing more is pushed.
CHECK_DEADLOCK FALSE
