---------------------------- MODULE PoolCapacity ----------------------------
(***************************************************************************)
(* The row of a pool, whose columns size and max_size decide how many      *)
(* sandboxes may be built: requests that build sandboxes, finalizers that  *)
(* count units out of the pool and delete them, visitors that read or edit *)
(* the pool, and the deletion of the pool.                                 *)
(*                                                                         *)
(* A transaction that holds the row locked is one step; an object read     *)
(* before is remembered by whoever read it.  Stages are not seen: a unit   *)
(* that is being cleaned up reaches its finalizer or it does not.          *)
(*                                                                         *)
(* Bounds: every unit is built once, every visitor comes once.             *)
(***************************************************************************)
EXTENDS Integers, FiniteSets

CONSTANTS
  Units,     \* units that may be built
  Visitors,  \* requests that read the pool or edit it
  MaxSize,   \* max_size of the new pool
  MaxSizes,  \* values of max_size an edit may ask for
  Counts,    \* values of the parameter count of a build
  All        \* no such parameter: "None to build maximum"

ASSUME PoolConstants ==
  /\ IsFiniteSet(Units)
  /\ MaxSize \in Nat \ {0}
  /\ MaxSizes \subseteq Nat \ {0}
  /\ Counts \subseteq Int
  /\ All \notin Int

VARIABLES
  pool,    \* the row: does it exist, size, max_size
  phase,   \* how far the life of a unit has come
  takes,   \* delete_pool: the unit's finalizer is to delete the pool as well
  after,   \* Pool.size as the unit's finalizer has left it
  visit,   \* what a visitor does, and the pool as it has read it
  wrote    \* what a visitor has done to the row

poolVars == <<pool, phase, takes, after, visit, wrote>>

Phase == {"unborn", "live", "cleanup", "counted", "last", "gone"}
Visit == [pc : {"coming", "edit", "answer", "left"}, size : Nat, max : Nat \ {0}]
Writes == {"nothing", "edit", "recount"}

PoolTypeOK ==
  /\ pool \in [live : BOOLEAN, size : Nat, max : Nat \ {0}]
  /\ phase \in [Units -> Phase]
  /\ takes \in [Units -> BOOLEAN]
  /\ after \in [Units -> Nat]
  /\ visit \in [Visitors -> Visit]
  /\ wrote \in [Visitors -> Writes]

\* create_pool
PoolInit ==
  /\ pool = [live |-> TRUE, size |-> 0, max |-> MaxSize]
  /\ phase = [u \in Units |-> "unborn"]
  /\ takes = [u \in Units |-> FALSE]
  /\ after = [u \in Units |-> 0]
  /\ visit = [v \in Visitors |-> [pc |-> "coming", size |-> 0, max |-> MaxSize]]
  /\ wrote = [v \in Visitors |-> "nothing"]

\* The allocation units of the pool, and those no finalizer has counted out.
InPhase(P) == {u \in Units : phase[u] \in P}
Rows == InPhase({"live", "cleanup", "counted"})
Held == InPhase({"live", "cleanup"})

-----------------------------------------------------------------------------
\* Mutant: the request is looked at alone, not with what the pool has.
FitsAlone(n) == n <= pool.max
Fits(n) == pool.size + n <= pool.max

\* create_sandboxes_in_pool: range(count) is empty for a negative count; the
\* column refuses a negative size, which undoes the transaction.
CreateSandboxesInPool(count) ==
  LET n == IF count = All THEN pool.max - pool.size ELSE count
  IN /\ pool.live
     /\ Fits(n)
     /\ pool.size + n >= 0
     /\ \E S \in SUBSET InPhase({"unborn"}) :
          /\ Cardinality(S) = IF n > 0 THEN n ELSE 0
          /\ phase' = [u \in Units |-> IF u \in S THEN "live" ELSE phase[u]]
     /\ pool' = [pool EXCEPT !.size = @ + n]
     /\ UNCHANGED <<takes, after, visit, wrote>>

\* A cleanup request for one unit, without the pool.
CreateCleanupRequest(u) ==
  /\ phase[u] = "live"
  /\ phase' = [phase EXCEPT ![u] = "cleanup"]
  /\ UNCHANGED <<pool, takes, after, visit, wrote>>

\* Some stage of the cleanup fails: the unit stays, and may be cleaned up again.
CleanupFails(u) ==
  /\ phase[u] = "cleanup"
  /\ phase' = [phase EXCEPT ![u] = "live"]
  /\ takes' = [takes EXCEPT ![u] = FALSE]
  /\ UNCHANGED <<pool, after, visit, wrote>>

\* Deletion of a pool with force: a cleanup request for each of its units, those
\* already being cleaned up left as they are, until one of them is refused.
ForcePoolDeletion ==
  /\ pool.live /\ pool.size > 0
  /\ \E S \in SUBSET InPhase({"live"}) :
       /\ phase' = [u \in Units |-> IF u \in S THEN "cleanup" ELSE phase[u]]
       /\ takes' = [u \in Units |-> takes[u] \/ u \in S]
  /\ UNCHANGED <<pool, after, visit, wrote>>

\* pools.delete_pool: the units of a pool protect it.
DeletedPool == IF Rows = {} THEN [pool EXCEPT !.live = FALSE] ELSE pool

DeletePool ==
  /\ pool.live
  /\ pool' = DeletedPool
  /\ UNCHANGED <<phase, takes, after, visit, wrote>>

\* Mutant: the size is reduced only when the unit has been deleted as well.
CountOutLater(u) ==
  /\ phase[u] = "cleanup" /\ pool.size > 0
  /\ after' = [after EXCEPT ![u] = pool.size - 1]
  /\ phase' = [phase EXCEPT ![u] = "counted"]
  /\ UNCHANGED <<pool, takes, visit, wrote>>

\* _delete_allocation_unit: the locked decrement; it fails at size 0, and ...
CountOut(u) ==
  /\ phase[u] = "cleanup" /\ pool.size > 0
  /\ pool' = [pool EXCEPT !.size = @ - 1]
  /\ after' = [after EXCEPT ![u] = pool.size - 1]
  /\ phase' = [phase EXCEPT ![u] = "counted"]
  /\ UNCHANGED <<takes, visit, wrote>>

\* ... the deletion of the unit.
DeleteAllocationUnit(u) ==
  /\ phase[u] = "counted"
  /\ phase' = [phase EXCEPT ![u] = IF after[u] = 0 /\ takes[u] THEN "last" ELSE "gone"]
  /\ UNCHANGED <<pool, takes, after, visit, wrote>>

DeletePoolLast(u) ==
  /\ phase[u] = "last"
  /\ phase' = [phase EXCEPT ![u] = "gone"]
  /\ pool' = DeletedPool
  /\ UNCHANGED <<takes, after, visit, wrote>>

-----------------------------------------------------------------------------
\* A visitor reads the pool, to look at it or to edit it.
ReadPool(v, pc) ==
  /\ visit[v].pc = "coming" /\ pool.live
  /\ visit' = [visit EXCEPT ![v] = [pc |-> pc, size |-> pool.size, max |-> pool.max]]
  /\ UNCHANGED <<pool, phase, takes, after, wrote>>

\* What was read is still true, and the maximum is not lowered.
Harmless(v, m) == pool.live /\ visit[v].size = pool.size /\ m >= pool.max

\* PoolSerializer.update saves every column of what was read; the row is inserted
\* again if the pool has been deleted.
UpdatePool(v) ==
  /\ visit[v].pc = "edit"
  /\ \E m \in MaxSizes \union {visit[v].max} :
       /\ pool' = [live |-> TRUE, size |-> visit[v].size, max |-> m]
       /\ visit' = [visit EXCEPT ![v].pc = "answer", ![v].max = m]
       /\ wrote' = [wrote EXCEPT ![v] = IF Harmless(v, m) THEN @ ELSE "edit"]
  /\ UNCHANGED <<phase, takes, after>>

\* PoolSerializer.get_size: a size that was read as 0 is counted anew.
GetSize(v) ==
  /\ visit[v].pc = "answer"
  /\ visit' = [visit EXCEPT ![v].pc = "left"]
  /\ IF visit[v].size = 0 /\ pool.live
       THEN /\ pool' = [pool EXCEPT !.size = Cardinality(Rows)]
            /\ wrote' = [wrote EXCEPT ![v] = IF @ = "edit" THEN @ ELSE "recount"]
       ELSE UNCHANGED <<pool, wrote>>
  /\ UNCHANGED <<phase, takes, after>>

-----------------------------------------------------------------------------
Finalizer(u) == CountOut(u) \/ DeleteAllocationUnit(u) \/ DeletePoolLast(u)

PoolNext ==
  \/ \E count \in Counts \union {All} : CreateSandboxesInPool(count)
  \/ ForcePoolDeletion
  \/ DeletePool
  \/ \E u \in Units : CreateCleanupRequest(u) \/ CleanupFails(u) \/ Finalizer(u)
  \/ \E v \in Visitors : \/ ReadPool(v, "answer")
                          \/ ReadPool(v, "edit")
                          \/ UpdatePool(v)
                          \/ GetSize(v)

PoolSpec == PoolInit /\ [][PoolNext]_poolVars

-----------------------------------------------------------------------------
Wrote(w) == \E v \in Visitors : wrote[v] = w

\* "Maximum amount of Allocation Units associated with this pool": the units that
\* are not on their way out never exceed it.  This does not hold: an edit writes back
\* the size it has read, and a build in between is forgotten.
MaximumRespected == Cardinality(Held) <= pool.max

\* However builds, finalizers, the recount of the size and the deletion of the pool
\* interleave, the maximum is respected, unless an edit has written back what was
\* no longer true or has lowered it.
CapacityRespected == Wrote("edit") \/ MaximumRespected

\* No finalizer, and nobody who has read the pool, is about to act on it.
Quiet ==
  /\ InPhase({"counted", "last"}) = {}
  /\ \A v \in Visitors : visit[v].pc \in {"coming", "left"}

\* "Current amount of Allocation Units associated with this pool": the size is
\* exact at rest, unless such an edit has been made or the size counted anew.
SizeExact ==
  /\ Quiet /\ pool.live
  /\ ~Wrote("edit") /\ ~Wrote("recount")
  => pool.size = Cardinality(Rows)
=============================================================================
