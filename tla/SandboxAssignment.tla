-------------------------- MODULE SandboxAssignment --------------------------
(***************************************************************************)
(* How the sandboxes of a pool are given out.  A trainee asks for any free *)
(* sandbox of a pool that is locked for a training; an organizer locks a   *)
(* given one.  Both run in a transaction that takes row locks on sandboxes *)
(* one after the other, so that requests wait for each other; the database *)
(* gives each query the data committed when it starts.                     *)
(*                                                                         *)
(* Bounds: every request comes once, every sandbox is built once.          *)
(***************************************************************************)
EXTENDS Integers, FiniteSets

CONSTANTS
  Sandboxes,   \* their ids: numbers, as the rows are locked in the order of ids
  Trainees,    \* requests of SandboxGetAndLockView
  Organizers,  \* requests to lock one sandbox
  User,        \* who makes a request
  Parallel,    \* a user may make a request while another one is unanswered
  Tokens,      \* training access tokens
  None

Requests == Trainees \union Organizers

ASSUME ConstantsAssumption ==
  /\ IsFiniteSet(Sandboxes) /\ Sandboxes \subseteq Nat
  /\ IsFiniteSet(Requests)
  /\ Trainees \intersect Organizers = {}
  /\ Requests \subseteq DOMAIN User
  /\ Parallel \in BOOLEAN
  /\ None \notin Requests \union Sandboxes \union Tokens \union {User[r] : r \in Requests}

Users == {User[r] : r \in Requests}

VARIABLES
  poollock, \* the token in the PoolLock, None if the pool is not locked
  stage,    \* how far a sandbox is: its row exists until it is gone
  holder,   \* the user in the SandboxLock of a sandbox, None if it has none
  rowlock,  \* the request that holds the row lock of a sandbox
  pc,       \* where a request is
  todo,     \* rows found by the query of a request and not locked yet
  pick      \* the sandbox a request is about to lock

vars == <<poollock, stage, holder, rowlock, pc, todo, pick>>

Pc == {"coming", "admitted", "select", "locking", "insert", "given", "refused", "error"}
Answers == {"given", "refused", "error"}

TypeOK ==
  /\ poollock \in Tokens \union {None}
  /\ stage \in [Sandboxes -> {"building", "ready", "gone"}]
  /\ holder \in [Sandboxes -> Users \union {None}]
  /\ rowlock \in [Sandboxes -> Requests \union {None}]
  /\ pc \in [Requests -> Pc]
  /\ todo \in [Requests -> SUBSET Sandboxes]
  /\ pick \in [Requests -> Sandboxes \union {None}]
  /\ \A r \in Requests : pc[r] = "insert" => pick[r] \in Sandboxes

Init ==
  /\ poollock = None
  /\ stage \in [Sandboxes -> {"building", "ready"}]
  /\ holder = [s \in Sandboxes |-> None]
  /\ rowlock = [s \in Sandboxes |-> None]
  /\ pc = [r \in Requests |-> "coming"]
  /\ todo = [r \in Requests |-> {}]
  /\ pick = [r \in Requests |-> None]

-----------------------------------------------------------------------------
\* Mutant: the query has no order_by.
NextRowsUnordered(r) == todo[r]

\* SELECT ... ORDER BY id FOR UPDATE locks the row with the smallest id next.
NextRows(r) == {s \in todo[r] : \A t \in todo[r] : s <= t}

MyRows(r) == {s \in Sandboxes : rowlock[s] = r}

\* The transaction ends, and with it the row locks of the request.
Answer(r, how) ==
  /\ pc' = [pc EXCEPT ![r] = how]
  /\ rowlock' = [s \in Sandboxes |-> IF rowlock[s] = r THEN None ELSE rowlock[s]]
  /\ todo' = [todo EXCEPT ![r] = {}]

Idle(u) == \A r \in Requests : User[r] = u => pc[r] \in Answers \union {"coming"}

\* SandboxGetAndLockView.get: the pool must be locked with the trainee's token.
EnterTraining(r) ==
  /\ pc[r] = "coming" /\ (Parallel \/ Idle(User[r]))
  /\ \E token \in Tokens :
       pc' = [pc EXCEPT ![r] = IF poollock = token THEN "admitted" ELSE "refused"]
  /\ UNCHANGED <<poollock, stage, holder, rowlock, todo, pick>>

\* The sandboxes of the pool that _has_locked_sandbox asks for.
Owned(u) == {s \in Sandboxes : stage[s] = "ready" /\ holder[s] = u}

\* Mutant: the owner of the locks is not compared.
PassOwnersBy(r) ==
  /\ pc[r] = "admitted"
  /\ pc' = [pc EXCEPT ![r] = "select"]
  /\ UNCHANGED <<poollock, stage, holder, rowlock, todo, pick>>

\* _has_locked_sandbox: a query of its own; it waits for the rows it finds.
HasLockedSandbox(r) ==
  /\ pc[r] = "admitted"
  /\ \A s \in Owned(User[r]) : rowlock[s] = None
  /\ pc' = [pc EXCEPT ![r] = IF Owned(User[r]) = {} THEN "select" ELSE "refused"]
  /\ UNCHANGED <<poollock, stage, holder, rowlock, todo, pick>>

\* The query for the ready sandboxes finds what is committed when it starts.
SelectReady(r) ==
  /\ pc[r] = "select"
  /\ todo' = [todo EXCEPT ![r] = {s \in Sandboxes : stage[s] = "ready"}]
  /\ pc' = [pc EXCEPT ![r] = "locking"]
  /\ UNCHANGED <<poollock, stage, holder, rowlock, pick>>

\* lock_sandbox selects one row, ready or not.
SelectOne(r, s) ==
  /\ pc[r] = "coming" /\ (Parallel \/ Idle(User[r]))
  /\ stage[s] # "gone"
  /\ todo' = [todo EXCEPT ![r] = {s}]
  /\ pc' = [pc EXCEPT ![r] = "locking"]
  /\ UNCHANGED <<poollock, stage, holder, rowlock, pick>>

\* The row is locked, or skipped if it has been deleted in the meantime.
LockRow(r) ==
  /\ pc[r] = "locking"
  /\ \E s \in NextRows(r) :
       /\ rowlock[s] = None
       /\ todo' = [todo EXCEPT ![r] = @ \ {s}]
       /\ rowlock' = IF stage[s] = "gone" THEN rowlock ELSE [rowlock EXCEPT ![s] = r]
  /\ UNCHANGED <<poollock, stage, holder, pc, pick>>

\* Mutant: the rows are no longer locked when the lock is inserted.
ChooseUnprotected(r) ==
  LET free == {s \in MyRows(r) : holder[s] = None}
  IN /\ pc[r] = "locking" /\ todo[r] = {}
     /\ IF free = {}
          THEN Answer(r, "refused") /\ UNCHANGED pick
          ELSE /\ \E s \in free : (\A t \in free : s <= t) /\ pick' = [pick EXCEPT ![r] = s]
               /\ Answer(r, "insert")
     /\ UNCHANGED <<poollock, stage, holder>>

\* The first of the rows without a lock is the one, if there is any.
Choose(r) ==
  LET free == {s \in MyRows(r) : holder[s] = None}
  IN /\ pc[r] = "locking" /\ todo[r] = {}
     /\ IF free = {}
          THEN Answer(r, "refused") /\ UNCHANGED pick
          ELSE /\ \E s \in free : (\A t \in free : s <= t) /\ pick' = [pick EXCEPT ![r] = s]
               /\ pc' = [pc EXCEPT ![r] = "insert"]
               /\ UNCHANGED <<rowlock, todo>>
     /\ UNCHANGED <<poollock, stage, holder>>

\* SandboxLock.objects.create; the lock of a sandbox is unique.
CreateLock(r) ==
  /\ pc[r] = "insert"
  /\ IF holder[pick[r]] = None /\ stage[pick[r]] # "gone"
       THEN Answer(r, "given") /\ holder' = [holder EXCEPT ![pick[r]] = User[r]]
       ELSE Answer(r, "error") /\ UNCHANGED holder
  /\ UNCHANGED <<poollock, stage, pick>>

\* The web worker dies: the database rolls its transaction back.
WorkerDies(r) ==
  /\ pc[r] \in {"admitted", "select", "locking", "insert"}
  /\ Answer(r, "refused")
  /\ UNCHANGED <<poollock, stage, holder, pick>>

-----------------------------------------------------------------------------
\* Deletion of a SandboxLock; it does not touch the row of the sandbox.
UnlockSandbox(s) ==
  /\ holder[s] # None
  /\ holder' = [holder EXCEPT ![s] = None]
  /\ UNCHANGED <<poollock, stage, rowlock, pc, todo, pick>>

\* The finalizer of the allocation.
MarkSandboxAsReady(s) ==
  /\ stage[s] = "building" /\ rowlock[s] = None
  /\ stage' = [stage EXCEPT ![s] = "ready"]
  /\ UNCHANGED <<poollock, holder, rowlock, pc, todo, pick>>

\* Cleanup: a lock protects the sandbox, a row lock is waited for.
DeleteSandbox(s) ==
  /\ stage[s] # "gone" /\ rowlock[s] = None /\ holder[s] = None
  /\ stage' = [stage EXCEPT ![s] = "gone"]
  /\ UNCHANGED <<poollock, holder, rowlock, pc, todo, pick>>

\* pools.lock_pool, and the deletion of the PoolLock.
LockPool(t) ==
  /\ poollock = None
  /\ poollock' = t
  /\ UNCHANGED <<stage, holder, rowlock, pc, todo, pick>>

UnlockPool ==
  /\ poollock # None
  /\ poollock' = None
  /\ UNCHANGED <<stage, holder, rowlock, pc, todo, pick>>

Handle(r) == HasLockedSandbox(r) \/ SelectReady(r) \/ LockRow(r) \/ Choose(r) \/ CreateLock(r)

Next ==
  \/ \E r \in Trainees : EnterTraining(r)
  \/ \E r \in Organizers, s \in Sandboxes : SelectOne(r, s)
  \/ \E r \in Requests : Handle(r) \/ WorkerDies(r)
  \/ \E s \in Sandboxes : UnlockSandbox(s) \/ MarkSandboxAsReady(s) \/ DeleteSandbox(s)
  \/ \E t \in Tokens : LockPool(t)
  \/ UnlockPool

Spec == Init /\ [][Next]_vars

\* A request that has come is handled; nothing else is bound to happen.
FairSpec == Spec /\ \A r \in Requests : WF_vars(Handle(r))

-----------------------------------------------------------------------------
\* What a request has chosen is still free, there, and for a trainee ready, when
\* its lock is inserted: no two requests ever lock the same sandbox.
PickStaysFree ==
  \A r \in Requests : pc[r] = "insert" =>
    /\ holder[pick[r]] = None
    /\ stage[pick[r]] = "ready" \/ (r \in Organizers /\ stage[pick[r]] # "gone")

\* The holders of the rows that a request waits for.
WaitsFor(r) == IF pc[r] = "locking" THEN {rowlock[s] : s \in NextRows(r)} \ {None, r} ELSE {}

\* Requests never wait for each other in a circle.
NoCircularWait ==
  ~ \E R \in SUBSET Requests : R # {} /\ \A r \in R : WaitsFor(r) \intersect R # {}

\* "You already have a sandbox assigned. Use that one or ask your tutor for help.": no
\* trainee holds two.  This holds only of a trainee who waits for an answer before asking
\* again (Parallel = FALSE): the question is not asked again once the rows are locked.
OneSandboxEach ==
  \A r \in Trainees : Cardinality(Owned(User[r])) <= 1

\* Every request that has begun is answered.
Answered == \A r \in Requests : (pc[r] # "coming") ~> (pc[r] \in Answers)
=============================================================================
