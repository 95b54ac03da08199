SPECIFICATION FairSpec
CONSTANTS
  r1 = r1
  r2 = r2
  r3 = r3
  r4 = r4
  alice = alice
  bob = bob
  carol = carol
  t1 = t1
  Sandboxes = {1, 2}
  Trainees = {r1, r2, r3}
  Organizers = {r4}
  User <- Everybody
  Parallel = FALSE
  Tokens = {t1}
  None = None
INVARIANT PickStaysFree
INVARIANT NoCircularWait
INVARIANT OneSandboxEach
PROPERTY Answered
\* Every request comes once: in the end nothing may be left to do.
CHECK_DEADLOCK FALSE
