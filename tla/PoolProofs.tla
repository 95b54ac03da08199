----------------------------- MODULE PoolProofs -----------------------------
(***************************************************************************)
(* What is proved of a pool: of its capacity (PoolCapacity), and of how    *)
(* its sandboxes are given out (SandboxAssignment).  The two modules share *)
(* no variable, and no proof uses facts of both.                           *)
(***************************************************************************)
EXTENDS PoolCapacity, SandboxAssignment, FiniteSetTheorems, WellFoundedInduction, TLAPS

(***************************************************************************)
(* The capacity.  Unless an edit writes back what is no longer true or     *)
(* lowers the maximum, it is respected, whatever number of units, builds,  *)
(* finalizers, readers and harmless edits there is.                        *)
(*                                                                         *)
(* The size column is not exact: it is decremented before the unit goes,   *)
(* and a recount includes units that have been counted out.  The invariant *)
(* that carries the proof is that it never falls below the number of units *)
(* held, so that a build that fits the column fits the pool.               *)
(***************************************************************************)
\* A size column that is too small would admit too many units.
SizeCoversHeld == Cardinality(Held) <= pool.size

Fit == SizeCoversHeld /\ MaximumRespected

Capacity == PoolTypeOK /\ (Wrote("edit") \/ Fit)

LEMMA HeldFinite ==
  \A P : IsFiniteSet(InPhase(P)) /\ Cardinality(InPhase(P)) \in Nat
<1> TAKE P
<1>1. InPhase(P) \subseteq Units /\ IsFiniteSet(Units)
  BY PoolConstants DEF InPhase
<1>2. IsFiniteSet(InPhase(P))
  BY <1>1, FS_Subset
<1> QED BY <1>2, FS_CardinalityType

\* Units counted out, but not deleted, are among the rows.
LEMMA HeldAmongRows == Cardinality(Held) <= Cardinality(Rows)
<1>1. Held \subseteq Rows
  BY DEF Held, Rows, InPhase
<1>2. IsFiniteSet(Rows)
  BY HeldFinite DEF Rows
<1> QED BY <1>1, <1>2, FS_Subset

LEMMA InitCapacity == PoolInit => Capacity
<1> SUFFICES ASSUME PoolInit PROVE Capacity
  OBVIOUS
<1>1. PoolTypeOK
  BY PoolConstants DEF PoolInit, PoolTypeOK, Phase, Visit, Writes
<1>2. Held = {}
  BY DEF PoolInit, Held, InPhase
<1>3. Cardinality(Held) = 0
  BY <1>2, FS_EmptySet
<1> QED BY <1>1, <1>3 DEF Capacity, Fit, SizeCoversHeld, MaximumRespected, PoolTypeOK

-----------------------------------------------------------------------------
(* Types. *)

LEMMA BuildTyped ==
  ASSUME PoolTypeOK, NEW count \in Counts \union {All}, CreateSandboxesInPool(count)
  PROVE  PoolTypeOK'
<1> DEFINE n == IF count = All THEN pool.max - pool.size ELSE count
<1>1. /\ pool.size + n >= 0
      /\ \E S \in SUBSET InPhase({"unborn"}) :
           phase' = [u \in Units |-> IF u \in S THEN "live" ELSE phase[u]]
      /\ pool' = [pool EXCEPT !.size = @ + n]
      /\ takes' = takes /\ after' = after /\ visit' = visit /\ wrote' = wrote
  BY Zenon DEF CreateSandboxesInPool
<1>2. n \in Int
  BY PoolConstants DEF PoolTypeOK
<1>3. phase' \in [Units -> Phase]
  BY <1>1 DEF PoolTypeOK, Phase
<1> HIDE DEF n
<1>4. pool' \in [live : BOOLEAN, size : Nat, max : Nat \ {0}]
  BY <1>1, <1>2 DEF PoolTypeOK
<1> QED BY <1>1, <1>3, <1>4 DEF PoolTypeOK

LEMMA EditTyped ==
  ASSUME PoolTypeOK, NEW v \in Visitors, UpdatePool(v)
  PROVE  PoolTypeOK'
<1>1. PICK m \in MaxSizes \union {visit[v].max} :
        /\ pool' = [live |-> TRUE, size |-> visit[v].size, max |-> m]
        /\ visit' = [visit EXCEPT ![v].pc = "answer", ![v].max = m]
        /\ wrote' = [wrote EXCEPT ![v] = IF Harmless(v, m) THEN @ ELSE "edit"]
  BY Zenon DEF UpdatePool
<1>2. visit[v] \in Visit /\ m \in Nat \ {0}
  BY PoolConstants DEF PoolTypeOK, Visit
<1>3. pool' \in [live : BOOLEAN, size : Nat, max : Nat \ {0}]
  BY <1>1, <1>2 DEF Visit
<1>4. visit' \in [Visitors -> Visit] /\ wrote' \in [Visitors -> Writes]
  BY <1>1, <1>2 DEF PoolTypeOK, Visit, Writes
<1>5. phase' = phase /\ takes' = takes /\ after' = after
  BY DEF UpdatePool
<1> QED BY <1>3, <1>4, <1>5 DEF PoolTypeOK

LEMMA RecountTyped ==
  ASSUME PoolTypeOK, NEW v \in Visitors, GetSize(v)
  PROVE  PoolTypeOK'
<1>1. Cardinality(Rows) \in Nat
  BY HeldFinite DEF Rows
<1>2. phase' = phase /\ takes' = takes /\ after' = after
  BY DEF GetSize
<1>3. pool' = pool \/ pool' = [pool EXCEPT !.size = Cardinality(Rows)]
  BY DEF GetSize
<1>4. visit' \in [Visitors -> Visit] /\ wrote' \in [Visitors -> Writes]
  BY DEF GetSize, PoolTypeOK, Visit, Writes
<1> QED BY <1>1, <1>2, <1>3, <1>4 DEF PoolTypeOK

LEMMA TypeStep == ASSUME PoolTypeOK, [PoolNext]_poolVars PROVE PoolTypeOK'
<1>1. ASSUME NEW count \in Counts \union {All}, CreateSandboxesInPool(count)
      PROVE  PoolTypeOK'
  BY <1>1, BuildTyped
<1>2. CASE ForcePoolDeletion
  <2>1. PICK S \in SUBSET InPhase({"live"}) :
          /\ phase' = [u \in Units |-> IF u \in S THEN "cleanup" ELSE phase[u]]
          /\ takes' = [u \in Units |-> takes[u] \/ u \in S]
    BY <1>2, Zenon DEF ForcePoolDeletion
  <2>2. pool' = pool /\ after' = after /\ visit' = visit /\ wrote' = wrote
    BY <1>2 DEF ForcePoolDeletion
  <2>3. phase' \in [Units -> Phase]
    BY <2>1 DEF PoolTypeOK, Phase
  <2>4. takes' \in [Units -> BOOLEAN]
    BY <2>1, Zenon
  <2> QED BY <2>2, <2>3, <2>4 DEF PoolTypeOK
<1>3. CASE DeletePool
  BY <1>3 DEF DeletePool, DeletedPool, PoolTypeOK
<1>4. ASSUME NEW u \in Units, CreateCleanupRequest(u) \/ CleanupFails(u)
      PROVE  PoolTypeOK'
  BY <1>4 DEF CreateCleanupRequest, CleanupFails, PoolTypeOK, Phase
<1>5. ASSUME NEW u \in Units, CountOut(u)
      PROVE  PoolTypeOK'
  <2>1. pool.size - 1 \in Nat
    BY <1>5 DEF CountOut, PoolTypeOK
  <2> QED BY <1>5, <2>1 DEF CountOut, PoolTypeOK, Phase
<1>6. ASSUME NEW u \in Units, DeleteAllocationUnit(u) \/ DeletePoolLast(u)
      PROVE  PoolTypeOK'
  <2>1. /\ \/ phase' = [phase EXCEPT ![u] = "last"]
           \/ phase' = [phase EXCEPT ![u] = "gone"]
        /\ pool' = pool \/ pool' = [pool EXCEPT !.live = FALSE]
        /\ takes' = takes /\ after' = after /\ visit' = visit /\ wrote' = wrote
    BY <1>6 DEF DeleteAllocationUnit, DeletePoolLast, DeletedPool
  <2> QED BY <2>1 DEF PoolTypeOK, Phase
<1>7. ASSUME NEW v \in Visitors, ReadPool(v, "answer") \/ ReadPool(v, "edit")
      PROVE  PoolTypeOK'
  <2>1. PICK w \in {"answer", "edit"} :
          visit' = [visit EXCEPT ![v] = [pc |-> w, size |-> pool.size,
                                         max |-> pool.max]]
    BY <1>7 DEF ReadPool
  <2>2. UNCHANGED <<pool, phase, takes, after, wrote>>
    BY <1>7 DEF ReadPool
  <2> QED BY <2>1, <2>2 DEF PoolTypeOK, Visit
<1>8. ASSUME NEW v \in Visitors, UpdatePool(v)
      PROVE  PoolTypeOK'
  BY <1>8, EditTyped
<1>9. ASSUME NEW v \in Visitors, GetSize(v)
      PROVE  PoolTypeOK'
  BY <1>9, RecountTyped
<1>10. CASE UNCHANGED poolVars
  BY <1>10 DEF poolVars, PoolTypeOK
<1> QED
  BY <1>1, <1>2, <1>3, <1>4, <1>5, <1>6, <1>7, <1>8, <1>9, <1>10, Zenon
  DEF PoolNext, Finalizer

-----------------------------------------------------------------------------
(* An edit that was not harmless is remembered. *)

LEMMA EditRemembered ==
  ASSUME PoolTypeOK, [PoolNext]_poolVars, Wrote("edit")
  PROVE  Wrote("edit")'
<1>1. PICK w \in Visitors : wrote[w] = "edit"
  BY DEF Wrote
<1>2. SUFFICES wrote'[w] = "edit"
  BY DEF Wrote
<1>3. ASSUME NEW v \in Visitors, ReadPool(v, "answer") \/ ReadPool(v, "edit")
      PROVE  wrote'[w] = "edit"
  BY <1>1, <1>3 DEF ReadPool
<1>4. ASSUME NEW v \in Visitors, UpdatePool(v)
      PROVE  wrote'[w] = "edit"
  BY <1>1, <1>4 DEF UpdatePool, PoolTypeOK, Writes
<1>5. ASSUME NEW v \in Visitors, GetSize(v)
      PROVE  wrote'[w] = "edit"
  BY <1>1, <1>5 DEF GetSize, PoolTypeOK, Writes
<1>6. CASE wrote' = wrote
  BY <1>1, <1>6
<1>7. \/ wrote' = wrote
      \/ \E v \in Visitors : \/ ReadPool(v, "answer") \/ ReadPool(v, "edit")
                              \/ UpdatePool(v) \/ GetSize(v)
  BY DEF PoolNext, poolVars, CreateSandboxesInPool, ForcePoolDeletion, DeletePool,
         CreateCleanupRequest, CleanupFails, Finalizer, CountOut,
         DeleteAllocationUnit, DeletePoolLast
<1> QED BY <1>3, <1>4, <1>5, <1>6, <1>7

-----------------------------------------------------------------------------
(* The size covers what is held. *)

\* A build of n units holds n units more, none for a negative n.
LEMMA BuildFits ==
  ASSUME PoolTypeOK, Fit, Counts \subseteq Nat,
         NEW count \in Counts \union {All}, CreateSandboxesInPool(count)
  PROVE  Fit'
<1> DEFINE n == IF count = All THEN pool.max - pool.size ELSE count
<1>1. /\ Fits(n) /\ pool.size + n >= 0
      /\ \E S \in SUBSET InPhase({"unborn"}) :
           /\ Cardinality(S) = IF n > 0 THEN n ELSE 0
           /\ phase' = [u \in Units |-> IF u \in S THEN "live" ELSE phase[u]]
      /\ pool' = [pool EXCEPT !.size = @ + n]
      /\ takes' = takes /\ after' = after /\ visit' = visit /\ wrote' = wrote
  BY Zenon DEF CreateSandboxesInPool
<1>2. pool.size \in Nat /\ pool.max \in Nat
  BY DEF PoolTypeOK
<1>3. n \in Int /\ (n < 0 => count = All)
  BY <1>2, PoolConstants
<1>4. PICK S \in SUBSET InPhase({"unborn"}) :
         /\ Cardinality(S) = IF n > 0 THEN n ELSE 0
         /\ phase' = [u \in Units |-> IF u \in S THEN "live" ELSE phase[u]]
  BY <1>1, Zenon
<1>5. /\ IsFiniteSet(S) /\ IsFiniteSet(Held)
      /\ Cardinality(Held) \in Nat
  <2>1. IsFiniteSet(InPhase({"unborn"}))
    BY HeldFinite
  <2> QED BY <2>1, FS_Subset, HeldFinite DEF Held
<1>6. Held' = Held \union S
  <2>1. S \subseteq Units
    BY DEF InPhase
  <2> QED BY <1>4, <2>1 DEF Held, InPhase
<1>7. Held \intersect S = {}
  BY DEF Held, InPhase
<1>8. Cardinality(Held') = Cardinality(Held) + Cardinality(S)
  <2>1. Cardinality(Held \union S)
          = Cardinality(Held) + Cardinality(S) - Cardinality(Held \intersect S)
    BY <1>5, FS_Union
  <2>2. Cardinality(Held \intersect S) = 0
    BY <1>7, FS_EmptySet
  <2>3. Cardinality(S) \in Nat
    BY <1>5, FS_CardinalityType
  <2> QED BY <1>5, <1>6, <2>1, <2>2, <2>3
<1>9. pool'.size = pool.size + n /\ pool'.max = pool.max
  BY <1>1 DEF PoolTypeOK
<1>10. SizeCoversHeld' /\ MaximumRespected'
  <2>1. Cardinality(Held) <= pool.size /\ Cardinality(Held) <= pool.max
    BY DEF Fit, SizeCoversHeld, MaximumRespected
  <2>2. pool.size + n <= pool.max
    BY <1>1 DEF Fits
  <2>3. CASE n > 0
    <3>1. Cardinality(Held') = Cardinality(Held) + n
      BY <1>4, <1>8, <2>3
    <3> HIDE DEF n
    <3> QED BY <1>2, <1>3, <1>5, <1>9, <2>1, <2>2, <3>1
         DEF SizeCoversHeld, MaximumRespected
  <2>4. CASE ~(n > 0)
    <3>1. Cardinality(Held') = Cardinality(Held)
      BY <1>4, <1>5, <1>8, <2>4
    <3>2. n = 0 \/ pool.size + n = pool.max
      BY <1>2, <1>3, <2>4
    <3> HIDE DEF n
    <3> QED BY <1>2, <1>3, <1>5, <1>9, <2>1, <2>2, <3>1, <3>2
         DEF SizeCoversHeld, MaximumRespected
  <2> QED BY <2>3, <2>4
<1> QED BY <1>10 DEF Fit

\* A step that does not lower pool.max, does not reduce the size and adds no unit.
LEMMA NothingHeldMore ==
  ASSUME PoolTypeOK, PoolTypeOK', Fit, pool'.size >= pool.size, pool'.max >= pool.max,
         Held' \subseteq Held
  PROVE  Fit'
<1>1. IsFiniteSet(Held) /\ Cardinality(Held) \in Nat
  BY HeldFinite DEF Held
<1>2. Cardinality(Held') <= Cardinality(Held) /\ IsFiniteSet(Held')
  BY <1>1, FS_Subset
<1>3. Cardinality(Held') \in Nat
  BY <1>2, FS_CardinalityType
<1>4. pool.size \in Nat /\ pool.max \in Nat /\ pool'.size \in Nat /\ pool'.max \in Nat
  BY DEF PoolTypeOK
<1> QED BY <1>1, <1>2, <1>3, <1>4 DEF Fit, SizeCoversHeld, MaximumRespected

\* A recount cannot fall below the units held.
LEMMA RecountFits ==
  ASSUME PoolTypeOK, Fit, NEW v \in Visitors, GetSize(v)
  PROVE  Fit'
<1>1. /\ phase' = phase
      /\ pool' = pool \/ pool' = [pool EXCEPT !.size = Cardinality(Rows)]
  BY DEF GetSize
<1>2. Cardinality(Rows) \in Nat /\ Cardinality(Held) \in Nat
  BY HeldFinite DEF Rows, Held
<1>3. Held' = Held
  BY <1>1 DEF Held, InPhase
<1>4. pool'.max = pool.max /\ (pool'.size = pool.size \/ pool'.size = Cardinality(Rows))
  BY <1>1 DEF PoolTypeOK
<1>5. Cardinality(Held) <= pool'.size
  BY <1>4, HeldAmongRows DEF Fit, SizeCoversHeld
<1> QED BY <1>3, <1>4, <1>5 DEF Fit, SizeCoversHeld, MaximumRespected

\* A finalizer takes its unit out of those held when it takes it out of the size.
LEMMA CountOutFits ==
  ASSUME PoolTypeOK, Fit, NEW u \in Units, CountOut(u)
  PROVE  Fit'
<1>1. /\ phase[u] = "cleanup" /\ pool.size > 0
      /\ pool' = [pool EXCEPT !.size = @ - 1]
      /\ after' = [after EXCEPT ![u] = pool.size - 1]
      /\ phase' = [phase EXCEPT ![u] = "counted"]
      /\ takes' = takes /\ visit' = visit /\ wrote' = wrote
  BY DEF CountOut
<1>2. pool.size \in Nat /\ pool.size - 1 \in Nat /\ pool.max \in Nat
  BY <1>1 DEF PoolTypeOK
<1>3. u \in Held /\ Held' = Held \ {u}
  BY <1>1 DEF PoolTypeOK, Held, InPhase
<1>4. IsFiniteSet(Held) /\ Cardinality(Held) \in Nat
  BY HeldFinite DEF Held
<1>5. Cardinality(Held') = Cardinality(Held) - 1
  BY <1>3, <1>4, FS_RemoveElement
<1>6. pool'.size = pool.size - 1 /\ pool'.max = pool.max
  BY <1>1 DEF PoolTypeOK
<1> QED BY <1>2, <1>4, <1>5, <1>6 DEF Fit, SizeCoversHeld, MaximumRespected

\* An edit is harmless if it is not remembered as one.
LEMMA EditFits ==
  ASSUME PoolTypeOK, PoolTypeOK', Fit, NEW v \in Visitors, UpdatePool(v), ~Wrote("edit")'
  PROVE  Fit'
<1>1. PICK m \in MaxSizes \union {visit[v].max} :
        /\ pool' = [live |-> TRUE, size |-> visit[v].size, max |-> m]
        /\ visit' = [visit EXCEPT ![v].pc = "answer", ![v].max = m]
        /\ wrote' = [wrote EXCEPT ![v] = IF Harmless(v, m) THEN @ ELSE "edit"]
  BY Zenon DEF UpdatePool
<1>2. wrote'[v] # "edit"
  BY DEF Wrote
<1>3. Harmless(v, m)
  BY <1>1, <1>2 DEF PoolTypeOK
<1>4. pool.size \in Nat /\ pool.max \in Nat /\ m \in Nat
  BY PoolConstants DEF PoolTypeOK, Visit
<1>5. pool'.size >= pool.size /\ pool'.max >= pool.max
  BY <1>1, <1>3, <1>4 DEF Harmless
<1>6. Held' = Held
  BY DEF UpdatePool, Held, InPhase
<1> QED BY <1>5, <1>6, NothingHeldMore

LEMMA FitStep ==
  ASSUME PoolTypeOK, PoolTypeOK', Fit, Counts \subseteq Nat, [PoolNext]_poolVars, ~Wrote("edit")'
  PROVE  Fit'
<1> USE DEF PoolTypeOK
<1>1. ASSUME NEW count \in Counts \union {All}, CreateSandboxesInPool(count)
      PROVE  Fit'
  BY <1>1, BuildFits
<1>2. CASE ForcePoolDeletion
  <2>1. PICK S \in SUBSET InPhase({"live"}) :
          phase' = [u \in Units |-> IF u \in S THEN "cleanup" ELSE phase[u]]
    BY <1>2, Zenon DEF ForcePoolDeletion
  <2>2. pool' = pool
    BY <1>2 DEF ForcePoolDeletion
  <2>3. Held' \subseteq Held
    BY <2>1 DEF Held, InPhase
  <2> QED BY <2>2, <2>3, NothingHeldMore
<1>3. CASE DeletePool
  <2>1. (pool' = pool \/ pool' = [pool EXCEPT !.live = FALSE]) /\ phase' = phase
    BY <1>3 DEF DeletePool, DeletedPool
  <2>2. Held' = Held
    BY <2>1 DEF Held, InPhase
  <2> QED BY <2>1, <2>2, NothingHeldMore
<1>4. ASSUME NEW u \in Units, CreateCleanupRequest(u) \/ CleanupFails(u)
      PROVE  Fit'
  <2>1. /\ phase[u] \in {"live", "cleanup"} /\ pool' = pool
        /\ \/ phase' = [phase EXCEPT ![u] = "cleanup"]
           \/ phase' = [phase EXCEPT ![u] = "live"]
    BY <1>4 DEF CreateCleanupRequest, CleanupFails
  <2>2. Held' \subseteq Held
    BY <2>1 DEF Held, InPhase
  <2> QED BY <2>1, <2>2, NothingHeldMore
<1>5. ASSUME NEW u \in Units, CountOut(u)
      PROVE  Fit'
  BY <1>5, CountOutFits
<1>6. ASSUME NEW u \in Units, DeleteAllocationUnit(u) \/ DeletePoolLast(u)
      PROVE  Fit'
  <2>1. /\ pool' = pool \/ pool' = [pool EXCEPT !.live = FALSE]
        /\ \/ phase' = [phase EXCEPT ![u] = "last"]
           \/ phase' = [phase EXCEPT ![u] = "gone"]
    BY <1>6 DEF DeleteAllocationUnit, DeletePoolLast, DeletedPool
  <2>2. Held' \subseteq Held
    BY <2>1 DEF Held, InPhase
  <2> QED BY <2>1, <2>2, NothingHeldMore
<1>7. ASSUME NEW v \in Visitors, ReadPool(v, "answer") \/ ReadPool(v, "edit")
      PROVE  Fit'
  BY <1>7 DEF ReadPool, Fit, SizeCoversHeld, MaximumRespected, Held, InPhase
<1>8. ASSUME NEW v \in Visitors, UpdatePool(v)
      PROVE  Fit'
  BY <1>8, EditFits
<1>9. ASSUME NEW v \in Visitors, GetSize(v)
      PROVE  Fit'
  BY <1>9, RecountFits
<1>10. CASE UNCHANGED poolVars
  BY <1>10 DEF poolVars, Fit, SizeCoversHeld, MaximumRespected, Held, InPhase
<1> QED
  BY <1>1, <1>2, <1>3, <1>4, <1>5, <1>6, <1>7, <1>8, <1>9, <1>10, Zenon
  DEF PoolNext, Finalizer

-----------------------------------------------------------------------------
\* Pool.size is never negative, and every variable keeps its type, whatever counts
\* are asked and whatever edits are made.
THEOREM PoolTyped == PoolSpec => []PoolTypeOK
<1>1. PoolInit => PoolTypeOK
  BY InitCapacity DEF Capacity
<1>2. PoolTypeOK /\ [PoolNext]_poolVars => PoolTypeOK'
  BY TypeStep
<1> QED BY <1>1, <1>2, PTL DEF PoolSpec

\* Builds, cleanups, finalizers, readers and harmless edits of a pool never make it
\* hold more than max_size units, for any number of units, any counts asked that
\* are not negative and any max_size.
THEOREM CapacityCorrect ==
  ASSUME Counts \subseteq Nat
  PROVE  PoolSpec => []CapacityRespected
<1>1. Capacity /\ [PoolNext]_poolVars => Capacity'
  <2> SUFFICES ASSUME Capacity, [PoolNext]_poolVars PROVE Capacity'
    OBVIOUS
  <2>1. PoolTypeOK /\ PoolTypeOK'
    BY TypeStep DEF Capacity
  <2>2. CASE Wrote("edit")
    BY <2>1, <2>2, EditRemembered DEF Capacity
  <2>3. CASE ~Wrote("edit")
    BY <2>1, <2>3, FitStep DEF Capacity
  <2> QED BY <2>2, <2>3
<1>2. Capacity => CapacityRespected
  BY DEF Capacity, Fit, CapacityRespected
<1> QED BY InitCapacity, <1>1, <1>2, PTL DEF PoolSpec

-----------------------------------------------------------------------------
(* The size is exact. *)

\* Between its decrement and the deletion of the unit a finalizer leaves the size
\* smaller than the number of rows: it is that of the units held.
SizeIsHeld == pool.size = Cardinality(Held) /\ pool.size <= pool.max

Rewritten == Wrote("edit") \/ Wrote("recount")

Counted == PoolTypeOK /\ (Rewritten \/ SizeIsHeld)

LEMMA RewriteRemembered ==
  ASSUME PoolTypeOK, [PoolNext]_poolVars, Rewritten
  PROVE  Rewritten'
<1>1. PICK w \in Visitors : wrote[w] \in {"edit", "recount"}
  BY DEF Wrote, Rewritten
<1>2. SUFFICES wrote'[w] \in {"edit", "recount"}
  BY DEF Wrote, Rewritten
<1>3. ASSUME NEW v \in Visitors, UpdatePool(v)
      PROVE  wrote'[w] \in {"edit", "recount"}
  BY <1>1, <1>3 DEF UpdatePool, PoolTypeOK, Writes
<1>4. ASSUME NEW v \in Visitors, GetSize(v)
      PROVE  wrote'[w] \in {"edit", "recount"}
  BY <1>1, <1>4 DEF GetSize, PoolTypeOK, Writes
<1>5. wrote' = wrote \/ \E v \in Visitors : UpdatePool(v) \/ GetSize(v)
  BY DEF PoolNext, poolVars, CreateSandboxesInPool, ForcePoolDeletion, DeletePool, ReadPool,
         CreateCleanupRequest, CleanupFails, Finalizer, CountOut,
         DeleteAllocationUnit, DeletePoolLast
<1> QED BY <1>1, <1>3, <1>4, <1>5

\* A build adds as many units as it adds to the size: the maximum is not exceeded,
\* so that "all" is never negative.
LEMMA BuildExact ==
  ASSUME PoolTypeOK, SizeIsHeld, Counts \subseteq Nat,
         NEW count \in Counts \union {All}, CreateSandboxesInPool(count)
  PROVE  SizeIsHeld'
<1> DEFINE n == IF count = All THEN pool.max - pool.size ELSE count
<1>1. /\ Fits(n)
      /\ \E S \in SUBSET InPhase({"unborn"}) :
           /\ Cardinality(S) = IF n > 0 THEN n ELSE 0
           /\ phase' = [u \in Units |-> IF u \in S THEN "live" ELSE phase[u]]
      /\ pool' = [pool EXCEPT !.size = @ + n]
  BY Zenon DEF CreateSandboxesInPool
<1>2. pool.size \in Nat /\ pool.max \in Nat
  BY DEF PoolTypeOK
<1>3. n \in Nat
  BY <1>2, PoolConstants DEF SizeIsHeld
<1>4. PICK S \in SUBSET InPhase({"unborn"}) :
         /\ Cardinality(S) = IF n > 0 THEN n ELSE 0
         /\ phase' = [u \in Units |-> IF u \in S THEN "live" ELSE phase[u]]
  BY <1>1, Zenon
<1> HIDE DEF n
<1>5. Cardinality(S) = n
  BY <1>3, <1>4
<1>6. IsFiniteSet(S) /\ IsFiniteSet(Held) /\ Cardinality(Held) \in Nat
  <2>1. IsFiniteSet(InPhase({"unborn"}))
    BY HeldFinite
  <2> QED BY <2>1, FS_Subset, HeldFinite DEF Held
<1>7. Held' = Held \union S /\ Held \intersect S = {}
  <2>1. S \subseteq Units
    BY DEF InPhase
  <2> QED BY <1>4, <2>1 DEF Held, InPhase
<1>8. Cardinality(Held') = Cardinality(Held) + n
  <2>1. Cardinality(Held \union S)
          = Cardinality(Held) + Cardinality(S) - Cardinality(Held \intersect S)
    BY <1>6, FS_Union
  <2>2. Cardinality(Held \intersect S) = 0
    BY <1>7, FS_EmptySet
  <2> QED BY <1>3, <1>5, <1>6, <1>7, <2>1, <2>2
<1>9. pool'.size = pool.size + n /\ pool'.max = pool.max
  BY <1>1 DEF PoolTypeOK
<1> QED BY <1>1, <1>2, <1>3, <1>8, <1>9 DEF SizeIsHeld, Fits

LEMMA CountOutExact ==
  ASSUME PoolTypeOK, SizeIsHeld, NEW u \in Units, CountOut(u)
  PROVE  SizeIsHeld'
<1>1. /\ phase[u] = "cleanup" /\ pool.size > 0
      /\ pool' = [pool EXCEPT !.size = @ - 1]
      /\ phase' = [phase EXCEPT ![u] = "counted"]
  BY DEF CountOut
<1>2. u \in Held /\ Held' = Held \ {u}
  BY <1>1 DEF PoolTypeOK, Held, InPhase
<1>3. IsFiniteSet(Held) /\ Cardinality(Held) \in Nat
  BY HeldFinite DEF Held
<1>4. Cardinality(Held') = Cardinality(Held) - 1
  BY <1>2, <1>3, FS_RemoveElement
<1>5. pool'.size = pool.size - 1 /\ pool'.max = pool.max /\ pool.size \in Nat /\ pool.max \in Nat
  BY <1>1 DEF PoolTypeOK
<1> QED BY <1>3, <1>4, <1>5 DEF SizeIsHeld

\* What neither builds a unit nor counts one out.
LEMMA SameExact ==
  ASSUME PoolTypeOK, PoolTypeOK', SizeIsHeld, Held' = Held, pool'.size = pool.size, pool'.max >= pool.max
  PROVE  SizeIsHeld'
BY DEF SizeIsHeld, PoolTypeOK

LEMMA ExactStep ==
  ASSUME PoolTypeOK, PoolTypeOK', SizeIsHeld, Counts \subseteq Nat, [PoolNext]_poolVars, ~Rewritten'
  PROVE  SizeIsHeld'
<1>1. ASSUME NEW count \in Counts \union {All}, CreateSandboxesInPool(count)
      PROVE  SizeIsHeld'
  BY <1>1, BuildExact
<1>2. CASE ForcePoolDeletion
  <2>1. PICK S \in SUBSET InPhase({"live"}) :
          phase' = [u \in Units |-> IF u \in S THEN "cleanup" ELSE phase[u]]
    BY <1>2, Zenon DEF ForcePoolDeletion
  <2>2. pool' = pool
    BY <1>2 DEF ForcePoolDeletion
  <2>3. Held' = Held
    BY <2>1 DEF Held, InPhase
  <2> QED BY <2>2, <2>3, SameExact DEF PoolTypeOK
<1>3. CASE DeletePool
  <2>1. (pool' = pool \/ pool' = [pool EXCEPT !.live = FALSE]) /\ phase' = phase
    BY <1>3 DEF DeletePool, DeletedPool
  <2>2. Held' = Held
    BY <2>1 DEF Held, InPhase
  <2> QED BY <2>1, <2>2, SameExact DEF PoolTypeOK
<1>4. ASSUME NEW u \in Units, CreateCleanupRequest(u) \/ CleanupFails(u)
      PROVE  SizeIsHeld'
  <2>1. /\ phase[u] \in {"live", "cleanup"} /\ pool' = pool
        /\ \/ phase' = [phase EXCEPT ![u] = "cleanup"]
           \/ phase' = [phase EXCEPT ![u] = "live"]
    BY <1>4 DEF CreateCleanupRequest, CleanupFails
  <2>2. Held' = Held
    BY <2>1 DEF Held, InPhase, PoolTypeOK
  <2> QED BY <2>1, <2>2, SameExact DEF PoolTypeOK
<1>5. ASSUME NEW u \in Units, CountOut(u)
      PROVE  SizeIsHeld'
  BY <1>5, CountOutExact
<1>6. ASSUME NEW u \in Units, DeleteAllocationUnit(u) \/ DeletePoolLast(u)
      PROVE  SizeIsHeld'
  <2>1. /\ pool' = pool \/ pool' = [pool EXCEPT !.live = FALSE]
        /\ phase[u] \in {"counted", "last"}
        /\ \/ phase' = [phase EXCEPT ![u] = "last"]
           \/ phase' = [phase EXCEPT ![u] = "gone"]
    BY <1>6 DEF DeleteAllocationUnit, DeletePoolLast, DeletedPool
  <2>2. Held' = Held
    BY <2>1 DEF Held, InPhase, PoolTypeOK
  <2> QED BY <2>1, <2>2, SameExact DEF PoolTypeOK
<1>7. ASSUME NEW v \in Visitors, ReadPool(v, "answer") \/ ReadPool(v, "edit")
      PROVE  SizeIsHeld'
  BY <1>7 DEF ReadPool, SizeIsHeld, Held, InPhase
<1>8. ASSUME NEW v \in Visitors, UpdatePool(v)
      PROVE  SizeIsHeld'
  <2>1. PICK m \in MaxSizes \union {visit[v].max} :
          /\ pool' = [live |-> TRUE, size |-> visit[v].size, max |-> m]
          /\ wrote' = [wrote EXCEPT ![v] = IF Harmless(v, m) THEN @ ELSE "edit"]
    BY <1>8, Zenon DEF UpdatePool
  <2>2. wrote'[v] # "edit"
    BY DEF Wrote, Rewritten
  <2>3. Harmless(v, m)
    BY <2>1, <2>2 DEF PoolTypeOK
  <2>4. Held' = Held
    BY <1>8 DEF UpdatePool, Held, InPhase
  <2> QED BY <2>1, <2>3, <2>4, SameExact DEF Harmless
<1>9. ASSUME NEW v \in Visitors, GetSize(v)
      PROVE  SizeIsHeld'
  <2>1. wrote'[v] \notin {"edit", "recount"}
    BY DEF Wrote, Rewritten
  <2>2. pool' = pool /\ phase' = phase
    BY <1>9, <2>1 DEF GetSize, PoolTypeOK
  <2> QED BY <2>2 DEF SizeIsHeld, Held, InPhase
<1>10. CASE UNCHANGED poolVars
  BY <1>10 DEF poolVars, SizeIsHeld, Held, InPhase
<1> QED
  BY <1>1, <1>2, <1>3, <1>4, <1>5, <1>6, <1>7, <1>8, <1>9, <1>10, Zenon
  DEF PoolNext, Finalizer

\* At rest the size of a pool is the number of its units, for any number of units and
\* visitors, unless an edit has written back what was no longer true or a reader has
\* counted the size anew.
THEOREM SizeCorrect ==
  ASSUME Counts \subseteq Nat
  PROVE  PoolSpec => []SizeExact
<1>1. PoolInit => Counted
  <2> SUFFICES ASSUME PoolInit PROVE Counted
    OBVIOUS
  <2>1. PoolTypeOK
    BY InitCapacity DEF Capacity
  <2>2. Held = {}
    BY DEF PoolInit, Held, InPhase
  <2>3. Cardinality(Held) = 0
    BY <2>2, FS_EmptySet
  <2> QED BY <2>1, <2>3, PoolConstants DEF PoolInit, Counted, SizeIsHeld
<1>2. Counted /\ [PoolNext]_poolVars => Counted'
  <2> SUFFICES ASSUME Counted, [PoolNext]_poolVars PROVE Counted'
    OBVIOUS
  <2>1. PoolTypeOK /\ PoolTypeOK'
    BY TypeStep DEF Counted
  <2>2. CASE Rewritten
    BY <2>1, <2>2, RewriteRemembered DEF Counted
  <2>3. CASE ~Rewritten
    BY <2>1, <2>3, ExactStep DEF Counted
  <2> QED BY <2>2, <2>3
<1>3. Counted => SizeExact
  <2>1. Quiet => Rows = Held
    BY DEF Quiet, Rows, Held, InPhase
  <2> QED BY <2>1 DEF Counted, SizeIsHeld, SizeExact, Rewritten
<1> QED BY <1>1, <1>2, <1>3, PTL DEF PoolSpec

(***************************************************************************)
(* The assignment.  No sandbox is given out twice, however many requests   *)
(* there are.                                                              *)
(*                                                                         *)
(* The argument: a request inserts a lock for a row that it has locked and *)
(* has seen without a lock since; nobody else inserts one without holding  *)
(* the row, and nobody deletes the row or makes it unready.                *)
(***************************************************************************)
\* The rows a trainee's query has found were ready, and can only be deleted.
FoundReady ==
  \A r \in Trainees : \A s \in todo[r] : stage[s] \in {"ready", "gone"}

\* A locked row is there, and ready if a trainee holds it.
HeldRows ==
  \A s \in Sandboxes : rowlock[s] # None =>
    /\ stage[s] # "gone"
    /\ rowlock[s] \in Trainees => stage[s] = "ready"

\* Between its choice and the insertion, a request holds the row without a lock.
PickHeld ==
  \A r \in Requests : pc[r] = "insert" => rowlock[pick[r]] = r /\ holder[pick[r]] = None

Assigned == TypeOK /\ FoundReady /\ HeldRows /\ PickHeld

LEMMA NoneIsNobody == None \notin Requests /\ None \notin Sandboxes
BY ConstantsAssumption

LEMMA InitAssigned == Init => Assigned
<1> SUFFICES ASSUME Init PROVE Assigned
  OBVIOUS
<1>1. \A r \in Requests : pc[r] = "coming" /\ todo[r] = {}
  BY DEF Init
<1>2. \A s \in Sandboxes : rowlock[s] = None
  BY DEF Init
<1>3. pc \in [Requests -> Pc] /\ stage \in [Sandboxes -> {"building", "ready", "gone"}]
  BY DEF Init, Pc
<1>4. TypeOK
  BY <1>1, <1>3 DEF Init, TypeOK
<1>5. FoundReady /\ HeldRows /\ PickHeld
  BY <1>1, <1>2 DEF FoundReady, HeldRows, PickHeld, Requests
<1> QED BY <1>4, <1>5 DEF Assigned

LEMMA PickFollows == Assigned => PickStaysFree
<1> SUFFICES ASSUME Assigned, NEW r \in Requests, pc[r] = "insert"
             PROVE  /\ holder[pick[r]] = None
                    /\ stage[pick[r]] = "ready" \/ (r \in Organizers /\ stage[pick[r]] # "gone")
  BY DEF PickStaysFree
<1>1. pick[r] \in Sandboxes /\ rowlock[pick[r]] = r /\ holder[pick[r]] = None
  BY DEF Assigned, TypeOK, PickHeld
<1>2. r # None /\ (r \in Trainees \/ r \in Organizers)
  BY NoneIsNobody DEF Requests
<1> QED BY <1>1, <1>2 DEF Assigned, HeldRows

\* The end of a transaction: fewer row locks, fewer rows to lock, one request less.
LEMMA AnswerAssigned ==
  ASSUME Assigned, NEW r \in Requests, NEW how \in Answers, Answer(r, how),
         poollock' = poollock, stage' = stage, pick' = pick,
         holder' \in [Sandboxes -> Users \union {None}],
         \A s \in Sandboxes : rowlock[s] # r => holder'[s] = holder[s]
  PROVE  Assigned'
<1>1. /\ pc' = [pc EXCEPT ![r] = how]
      /\ rowlock' = [s \in Sandboxes |-> IF rowlock[s] = r THEN None ELSE rowlock[s]]
      /\ todo' = [todo EXCEPT ![r] = {}]
  BY DEF Answer
<1>2. how # "insert" /\ how \in Pc
  BY DEF Answers, Pc
<1>3. /\ pc' \in [Requests -> Pc]
      /\ rowlock' \in [Sandboxes -> Requests \union {None}]
      /\ todo' \in [Requests -> SUBSET Sandboxes]
  BY <1>1, <1>2 DEF Assigned, TypeOK
<1>4. \A q \in Requests : pc'[q] = "insert" => q # r /\ pc[q] = "insert"
  BY <1>1, <1>2 DEF Assigned, TypeOK
<1>5. TypeOK'
  BY <1>3, <1>4 DEF Assigned, TypeOK
<1>6. FoundReady'
  BY <1>1 DEF Assigned, TypeOK, FoundReady, Requests
<1>7. HeldRows'
  BY <1>1, NoneIsNobody DEF Assigned, TypeOK, HeldRows
<1>8. PickHeld'
  BY <1>1, <1>4 DEF Assigned, TypeOK, PickHeld
<1> QED BY <1>5, <1>6, <1>7, <1>8 DEF Assigned

\* A request goes on, taking no row and choosing none.
LEMMA GoOn ==
  ASSUME Assigned, NEW r \in Requests, NEW to \in Pc, to # "insert",
         pc' = [pc EXCEPT ![r] = to],
         UNCHANGED <<poollock, stage, holder, rowlock, pick>>,
         todo' \in [Requests -> SUBSET Sandboxes],
         \A q \in Trainees : \A s \in todo'[q] : stage[s] \in {"ready", "gone"}
  PROVE  Assigned'
<1>1. \A q \in Requests : pc'[q] = "insert" => pc[q] = "insert"
  BY DEF Assigned, TypeOK
<1>2. TypeOK'
  BY <1>1 DEF Assigned, TypeOK
<1>3. FoundReady' /\ HeldRows' /\ PickHeld'
  BY <1>1 DEF Assigned, FoundReady, HeldRows, PickHeld
<1> QED BY <1>2, <1>3 DEF Assigned

LEMMA EnterAssigned ==
  ASSUME Assigned, NEW r \in Trainees, EnterTraining(r)
  PROVE  Assigned'
<1>1. PICK t \in Tokens :
        pc' = [pc EXCEPT ![r] = IF poollock = t THEN "admitted" ELSE "refused"]
  BY Zenon DEF EnterTraining
<1>2. UNCHANGED <<poollock, stage, holder, rowlock, pick>> /\ todo' = todo
  BY DEF EnterTraining
<1>3. PICK to \in {"admitted", "refused"} : pc' = [pc EXCEPT ![r] = to]
  BY <1>1
<1>4. to \in Pc /\ to # "insert" /\ r \in Requests
  BY <1>3 DEF Pc, Requests
<1> QED BY <1>2, <1>3, <1>4, GoOn DEF Assigned, TypeOK, FoundReady

LEMMA SelectAssigned ==
  ASSUME Assigned, NEW r \in Requests,
         HasLockedSandbox(r) \/ SelectReady(r)
         \/ (r \in Organizers /\ \E s \in Sandboxes : SelectOne(r, s))
  PROVE  Assigned'
<1>1. CASE HasLockedSandbox(r)
  <2>1. PICK to \in {"select", "refused"} : pc' = [pc EXCEPT ![r] = to]
    BY <1>1 DEF HasLockedSandbox
  <2>2. to \in Pc /\ to # "insert"
    BY <2>1 DEF Pc
  <2> QED BY <1>1, <2>1, <2>2, GoOn
       DEF HasLockedSandbox, Assigned, TypeOK, FoundReady
<1>2. CASE SelectReady(r)
  <2>1. /\ todo' = [todo EXCEPT ![r] = {s \in Sandboxes : stage[s] = "ready"}]
        /\ pc' = [pc EXCEPT ![r] = "locking"]
        /\ UNCHANGED <<poollock, stage, holder, rowlock, pick>>
    BY <1>2 DEF SelectReady
  <2>2. todo' \in [Requests -> SUBSET Sandboxes]
    BY <2>1 DEF Assigned, TypeOK
  <2>3. \A q \in Trainees : \A s \in todo'[q] : stage[s] \in {"ready", "gone"}
    BY <2>1 DEF Assigned, TypeOK, FoundReady, Requests
  <2>4. "locking" \in Pc
    BY DEF Pc
  <2> QED BY <2>1, <2>2, <2>3, <2>4, GoOn DEF Assigned, TypeOK
<1>3. ASSUME r \in Organizers, NEW s \in Sandboxes, SelectOne(r, s)
      PROVE  Assigned'
  <2>1. /\ todo' = [todo EXCEPT ![r] = {s}]
        /\ pc' = [pc EXCEPT ![r] = "locking"]
        /\ UNCHANGED <<poollock, stage, holder, rowlock, pick>>
    BY <1>3 DEF SelectOne
  <2>2. todo' \in [Requests -> SUBSET Sandboxes]
    BY <2>1 DEF Assigned, TypeOK
  <2>3. \A q \in Trainees : q # r
    BY <1>3, ConstantsAssumption
  <2>4. \A q \in Trainees : \A i \in todo'[q] : stage[i] \in {"ready", "gone"}
    BY <2>1, <2>3 DEF Assigned, TypeOK, FoundReady, Requests
  <2>5. "locking" \in Pc
    BY DEF Pc
  <2> QED BY <2>1, <2>2, <2>4, <2>5, GoOn DEF Assigned, TypeOK
<1> QED BY <1>1, <1>2, <1>3

LEMMA LockRowAssigned ==
  ASSUME Assigned, NEW r \in Requests, LockRow(r)
  PROVE  Assigned'
<1>1. PICK s \in NextRows(r) :
        /\ rowlock[s] = None
        /\ todo' = [todo EXCEPT ![r] = @ \ {s}]
        /\ rowlock' = IF stage[s] = "gone" THEN rowlock ELSE [rowlock EXCEPT ![s] = r]
  BY Zenon DEF LockRow
<1>2. UNCHANGED <<poollock, stage, holder, pc, pick>>
  BY DEF LockRow
<1>3. s \in Sandboxes /\ s \in todo[r]
  BY DEF NextRows, Assigned, TypeOK
<1>4. todo' \in [Requests -> SUBSET Sandboxes]
      /\ \A q \in Requests : todo'[q] \subseteq todo[q]
  BY <1>1 DEF Assigned, TypeOK
<1>5. \/ rowlock' = rowlock
      \/ stage[s] # "gone" /\ rowlock' = [rowlock EXCEPT ![s] = r]
  BY <1>1
<1>6. rowlock' \in [Sandboxes -> Requests \union {None}]
  BY <1>5 DEF Assigned, TypeOK
<1>7. TypeOK'
  BY <1>2, <1>4, <1>6 DEF Assigned, TypeOK
<1>8. FoundReady'
  BY <1>2, <1>4 DEF Assigned, FoundReady, Requests
<1>9. HeldRows'
  <2>1. r \in Trainees => stage[s] \in {"ready", "gone"}
    BY <1>3 DEF Assigned, FoundReady
  <2> QED BY <1>2, <1>3, <1>5, <2>1 DEF Assigned, TypeOK, HeldRows
<1>10. PickHeld'
  <2>1. \A q \in Requests : pc[q] = "insert" => pick[q] # s
    BY <1>1, NoneIsNobody DEF Assigned, PickHeld
  <2>2. \A q \in Requests : pc[q] = "insert" => pick[q] \in Sandboxes
    BY DEF Assigned, TypeOK
  <2> QED BY <1>2, <1>3, <1>5, <2>1, <2>2 DEF Assigned, TypeOK, PickHeld
<1> QED BY <1>7, <1>8, <1>9, <1>10 DEF Assigned

LEMMA ChooseAssigned ==
  ASSUME Assigned, NEW r \in Requests, Choose(r)
  PROVE  Assigned'
<1> DEFINE free == {s \in MyRows(r) : holder[s] = None}
<1>1. CASE free = {}
  <2>1. Answer(r, "refused") /\ UNCHANGED <<poollock, stage, holder, pick>>
    BY <1>1 DEF Choose
  <2>2. "refused" \in Answers
    BY DEF Answers
  <2> QED BY <2>1, <2>2, AnswerAssigned DEF Assigned, TypeOK
<1>2. CASE free # {}
  <2>1. PICK s \in free : pick' = [pick EXCEPT ![r] = s]
    BY <1>2 DEF Choose
  <2>2. pc' = [pc EXCEPT ![r] = "insert"]
        /\ UNCHANGED <<poollock, stage, holder, rowlock, todo>>
    BY <1>2 DEF Choose
  <2>3. s \in Sandboxes /\ rowlock[s] = r /\ holder[s] = None
    BY <2>1 DEF MyRows
  <2>4. pc' \in [Requests -> Pc] /\ pick' \in [Requests -> Sandboxes \union {None}]
    BY <2>1, <2>2, <2>3 DEF Assigned, TypeOK, Pc
  <2>5. \A q \in Requests : pc'[q] = "insert" =>
          \/ q = r /\ pick'[q] = s
          \/ pc[q] = "insert" /\ pick'[q] = pick[q]
    BY <2>1, <2>2 DEF Assigned, TypeOK
  <2>6. TypeOK'
    BY <2>2, <2>3, <2>4, <2>5 DEF Assigned, TypeOK
  <2>7. FoundReady' /\ HeldRows'
    BY <2>2 DEF Assigned, FoundReady, HeldRows
  <2>8. PickHeld'
    BY <2>2, <2>3, <2>5 DEF Assigned, PickHeld
  <2> QED BY <2>6, <2>7, <2>8 DEF Assigned
<1> QED BY <1>1, <1>2

LEMMA CreateLockAssigned ==
  ASSUME Assigned, NEW r \in Requests, CreateLock(r)
  PROVE  Assigned'
<1>1. pc[r] = "insert" /\ UNCHANGED <<poollock, stage, pick>>
  BY DEF CreateLock
<1>2. pick[r] \in Sandboxes /\ rowlock[pick[r]] = r
  BY <1>1 DEF Assigned, TypeOK, PickHeld
<1>3. /\ Answer(r, "given") \/ Answer(r, "error")
      /\ holder' = holder \/ holder' = [holder EXCEPT ![pick[r]] = User[r]]
  BY DEF CreateLock
<1>4. holder' \in [Sandboxes -> Users \union {None}]
  BY <1>2, <1>3 DEF Assigned, TypeOK, Users
<1>5. \A s \in Sandboxes : rowlock[s] # r => holder'[s] = holder[s]
  BY <1>2, <1>3 DEF Assigned, TypeOK
<1>6. {"given", "error"} \subseteq Answers
  BY DEF Answers
<1> QED BY <1>1, <1>3, <1>4, <1>5, <1>6, AnswerAssigned

\* What happens to a sandbox whose row no request has locked, or to its lock.
LEMMA OutsideAssigned ==
  ASSUME Assigned, NEW s \in Sandboxes,
         UnlockSandbox(s) \/ MarkSandboxAsReady(s) \/ DeleteSandbox(s)
  PROVE  Assigned'
<1>1. CASE UnlockSandbox(s)
  <2>1. holder' = [holder EXCEPT ![s] = None]
        /\ UNCHANGED <<poollock, stage, rowlock, pc, todo, pick>>
    BY <1>1 DEF UnlockSandbox
  <2>2. TypeOK' /\ FoundReady' /\ HeldRows'
    BY <2>1 DEF Assigned, TypeOK, FoundReady, HeldRows
  <2>3. \A i \in Sandboxes : holder'[i] = holder[i] \/ holder'[i] = None
    BY <2>1 DEF Assigned, TypeOK
  <2>4. PickHeld'
    BY <2>1, <2>3 DEF Assigned, TypeOK, PickHeld
  <2> QED BY <2>2, <2>4 DEF Assigned
<1>2. CASE MarkSandboxAsReady(s) \/ DeleteSandbox(s)
  <2>1. /\ rowlock[s] = None
        /\ \/ stage[s] = "building" /\ stage' = [stage EXCEPT ![s] = "ready"]
           \/ stage' = [stage EXCEPT ![s] = "gone"]
        /\ UNCHANGED <<poollock, holder, rowlock, pc, todo, pick>>
    BY <1>2 DEF MarkSandboxAsReady, DeleteSandbox
  <2>2. TypeOK'
    BY <2>1 DEF Assigned, TypeOK
  <2>3. \A i \in Sandboxes : stage'[i] = stage[i] \/ (i = s /\ stage'[i] \in {"ready", "gone"})
    BY <2>1 DEF Assigned, TypeOK
  <2>4. FoundReady' /\ HeldRows' /\ PickHeld'
    BY <2>1, <2>3 DEF Assigned, TypeOK, FoundReady, HeldRows, PickHeld, Requests
  <2> QED BY <2>2, <2>4 DEF Assigned
<1> QED BY <1>1, <1>2

LEMMA AssignedStep == Assigned /\ [Next]_vars => Assigned'
<1> SUFFICES ASSUME Assigned, [Next]_vars PROVE Assigned'
  OBVIOUS
<1>1. ASSUME NEW r \in Requests, WorkerDies(r) PROVE Assigned'
  <2>1. "refused" \in Answers
    BY DEF Answers
  <2> QED BY <1>1, <2>1, AnswerAssigned DEF WorkerDies, Assigned, TypeOK
<1>2. ASSUME NEW r \in Requests, Handle(r) PROVE Assigned'
  BY <1>2, SelectAssigned, LockRowAssigned, ChooseAssigned, CreateLockAssigned DEF Handle
<1>3. ASSUME NEW r \in Organizers, NEW s \in Sandboxes, SelectOne(r, s) PROVE Assigned'
  <2>1. r \in Requests
    BY DEF Requests
  <2> QED BY <1>3, <2>1, SelectAssigned
<1>4. CASE (\E t \in Tokens : LockPool(t)) \/ UnlockPool
  BY <1>4 DEF LockPool, UnlockPool, Assigned, TypeOK, FoundReady, HeldRows, PickHeld
<1>5. CASE UNCHANGED vars
  BY <1>5 DEF vars, Assigned, TypeOK, FoundReady, HeldRows, PickHeld
<1> QED
  BY <1>1, <1>2, <1>3, <1>4, <1>5, EnterAssigned, OutsideAssigned, Zenon DEF Next

\* Of any number of requests for any number of sandboxes, no two lock the same
\* sandbox: what a request has chosen stays free until it has inserted its lock.
THEOREM AssignmentCorrect == Spec => []PickStaysFree
BY InitAssigned, AssignedStep, PickFollows, PTL DEF Spec

\* Every variable keeps its type, and a request that inserts a lock has a sandbox
\* to insert it for.
THEOREM AssignmentTyped == Spec => []TypeOK
<1>1. Assigned => TypeOK
  BY DEF Assigned
<1> QED BY InitAssigned, AssignedStep, <1>1, PTL DEF Spec

-----------------------------------------------------------------------------
(***************************************************************************)
(* No circle of requests: a request asks for the rows in the order of      *)
(* their ids, so whoever waits for the greatest of the awaited rows waits  *)
(* for a request that can only wait for a greater one.                     *)
(***************************************************************************)

\* Only a request that is locking rows, or has chosen one of them, holds any.
RowsOfLockers ==
  \A s \in Sandboxes : rowlock[s] # None => pc[rowlock[s]] \in {"locking", "insert"}

\* What a request has still to lock comes after all it has locked.
RowsInOrder ==
  \A s \in Sandboxes : rowlock[s] # None => \A t \in todo[rowlock[s]] : s < t

Ordered == RowsOfLockers /\ RowsInOrder

\* A finite set of numbers that is not empty has a greatest element: of the sets
\* of greater ones, a smallest is empty.
LEMMA GreatestOfFinite ==
  ASSUME NEW S \in SUBSET Nat, IsFiniteSet(S), S # {}
  PROVE  \E m \in S : \A n \in S : n <= m
<1> DEFINE Above(m) == {n \in S : m < n}
           Aboves == {Above(m) : m \in S}
<1>1. Aboves \subseteq FiniteSubsetsOf(S) /\ Aboves # {}
  <2>1. Aboves \subseteq SUBSET S
    OBVIOUS
  <2>2. Aboves # {}
    OBVIOUS
  <2> HIDE DEF Aboves
  <2> QED BY <2>1, <2>2, FS_FiniteSubsetsOfFinite
<1>2. PICK A \in Aboves : \A B \in Aboves : <<B, A>> \notin StrictSubsetOrdering(S)
  <2> HIDE DEF Aboves
  <2> QED BY <1>1, FS_StrictSubsetOrderingWellFounded, WFMin
<1>3. PICK m \in S : A = Above(m)
  OBVIOUS
<1>4. ASSUME NEW n \in S, ~(n <= m) PROVE FALSE
  <2>1. n \in Above(m) /\ n \notin Above(n) /\ Above(n) \subseteq Above(m)
    <3>1. m \in Nat /\ n \in Nat /\ m < n
      BY <1>4
    <3>2. n \in Above(m) /\ n \notin Above(n)
      BY <3>1
    <3>3. ASSUME NEW i \in S, n < i PROVE m < i
      BY <3>1, <3>3
    <3>4. Above(n) \subseteq Above(m)
      BY <3>3
    <3> QED BY <3>2, <3>4
  <2>2. Above(n) \in Aboves /\ Above(n) \subseteq S /\ Above(m) \subseteq S
    OBVIOUS
  <2> HIDE DEF Above, Aboves
  <2>3. <<Above(n), Above(m)>> \in StrictSubsetOrdering(S)
    BY <2>1, <2>2 DEF StrictSubsetOrdering
  <2> QED BY <1>2, <1>3, <2>2, <2>3
<1> QED BY <1>4

LEMMA InitOrdered == Init => Ordered
BY DEF Init, Ordered, RowsOfLockers, RowsInOrder

\* The end of a transaction, whose rows are given back.
LEMMA AnswerOrdered ==
  ASSUME Assigned, Ordered, NEW r \in Requests, NEW how, Answer(r, how)
  PROVE  Ordered'
<1>1. \A s \in Sandboxes : rowlock'[s] # None => rowlock'[s] = rowlock[s] /\ rowlock[s] # r
  BY DEF Answer
<1>2. \A q \in Requests : q # r => pc'[q] = pc[q] /\ todo'[q] = todo[q]
  BY DEF Answer, Assigned, TypeOK
<1>3. \A s \in Sandboxes : rowlock[s] # None => rowlock[s] \in Requests
  BY DEF Assigned, TypeOK
<1> QED BY <1>1, <1>2, <1>3 DEF Ordered, RowsOfLockers, RowsInOrder

\* A request that holds no row goes on to any place.
LEMMA NewcomerOrdered ==
  ASSUME Assigned, Ordered, NEW r \in Requests, pc[r] \notin {"locking", "insert"},
         rowlock' = rowlock,
         \A q \in Requests : q # r => pc'[q] = pc[q] /\ todo'[q] = todo[q]
  PROVE  Ordered'
<1>1. \A s \in Sandboxes : rowlock[s] # None => rowlock[s] \in Requests /\ rowlock[s] # r
  BY DEF Ordered, RowsOfLockers, Assigned, TypeOK
<1> QED BY <1>1 DEF Ordered, RowsOfLockers, RowsInOrder

\* The smallest row that is left is the next: it comes after those locked before.
LEMMA LockRowOrdered ==
  ASSUME Assigned, Ordered, NEW r \in Requests, LockRow(r)
  PROVE  Ordered'
<1>1. PICK s \in NextRows(r) :
        /\ rowlock[s] = None
        /\ todo' = [todo EXCEPT ![r] = @ \ {s}]
        /\ rowlock' = IF stage[s] = "gone" THEN rowlock ELSE [rowlock EXCEPT ![s] = r]
  BY Zenon DEF LockRow
<1>2. pc[r] = "locking" /\ pc' = pc
  BY DEF LockRow
<1>3. s \in Sandboxes /\ \A t \in todo[r] : t \in Nat /\ s <= t
  BY ConstantsAssumption DEF NextRows, Assigned, TypeOK
<1>4. \A q \in Requests : todo'[q] \subseteq todo[q]
  BY <1>1 DEF Assigned, TypeOK
<1>5. \A t \in todo'[r] : s < t
  <2>1. todo'[r] = todo[r] \ {s} /\ s \in Nat
    BY <1>1, <1>3, ConstantsAssumption DEF Assigned, TypeOK
  <2> QED BY <1>3, <2>1
<1>6. \A i \in Sandboxes : rowlock'[i] = rowlock[i] \/ (i = s /\ rowlock'[i] = r)
  BY <1>1, <1>3 DEF Assigned, TypeOK
<1>7. \A i \in Sandboxes : rowlock[i] # None => rowlock[i] \in Requests
  BY DEF Assigned, TypeOK
<1>8. RowsOfLockers'
  BY <1>2, <1>6 DEF Ordered, RowsOfLockers
<1>9. RowsInOrder'
  BY <1>4, <1>5, <1>6, <1>7 DEF Ordered, RowsInOrder
<1> QED BY <1>8, <1>9 DEF Ordered

LEMMA HandleOrdered ==
  ASSUME Assigned, Ordered, NEW r \in Requests, Handle(r)
  PROVE  Ordered'
<1>1. CASE HasLockedSandbox(r) \/ SelectReady(r)
  <2>1. pc[r] \notin {"locking", "insert"} /\ rowlock' = rowlock
    BY <1>1 DEF HasLockedSandbox, SelectReady
  <2>2. \A q \in Requests : q # r => pc'[q] = pc[q] /\ todo'[q] = todo[q]
    BY <1>1 DEF HasLockedSandbox, SelectReady, Assigned, TypeOK
  <2> QED BY <2>1, <2>2, NewcomerOrdered
<1>2. CASE LockRow(r)
  BY <1>2, LockRowOrdered
<1>3. CASE Choose(r)
  <2>1. CASE Answer(r, "refused")
    BY <2>1, AnswerOrdered
  <2>2. CASE pc' = [pc EXCEPT ![r] = "insert"] /\ UNCHANGED <<rowlock, todo>>
    <3>1. \A q \in Requests : pc'[q] = pc[q] \/ pc'[q] = "insert"
      BY <2>2 DEF Assigned, TypeOK
    <3>2. \A s \in Sandboxes : rowlock[s] # None => rowlock[s] \in Requests
      BY DEF Assigned, TypeOK
    <3> QED BY <2>2, <3>1, <3>2 DEF Ordered, RowsOfLockers, RowsInOrder
  <2> QED BY <1>3, <2>1, <2>2 DEF Choose
<1>4. CASE CreateLock(r)
  BY <1>4, AnswerOrdered DEF CreateLock
<1> QED BY <1>1, <1>2, <1>3, <1>4 DEF Handle

LEMMA OrderedStep == Assigned /\ Ordered /\ [Next]_vars => Ordered'
<1> SUFFICES ASSUME Assigned, Ordered, [Next]_vars PROVE Ordered'
  OBVIOUS
<1>1. ASSUME NEW r \in Trainees, EnterTraining(r) PROVE Ordered'
  <2>1. r \in Requests /\ pc[r] = "coming" /\ UNCHANGED <<rowlock, todo>>
    BY <1>1 DEF EnterTraining, Requests
  <2>2. \A q \in Requests : q # r => pc'[q] = pc[q]
    BY <1>1 DEF EnterTraining, Assigned, TypeOK
  <2> QED BY <2>1, <2>2, NewcomerOrdered
<1>2. ASSUME NEW r \in Organizers, NEW s \in Sandboxes, SelectOne(r, s) PROVE Ordered'
  <2>1. r \in Requests /\ pc[r] = "coming" /\ UNCHANGED rowlock
    BY <1>2 DEF SelectOne, Requests
  <2>2. \A q \in Requests : q # r => pc'[q] = pc[q] /\ todo'[q] = todo[q]
    BY <1>2 DEF SelectOne, Assigned, TypeOK
  <2> QED BY <2>1, <2>2, NewcomerOrdered
<1>3. ASSUME NEW r \in Requests, WorkerDies(r) PROVE Ordered'
  BY <1>3, AnswerOrdered DEF WorkerDies
<1>4. CASE UNCHANGED <<rowlock, pc, todo>>
  BY <1>4 DEF Ordered, RowsOfLockers, RowsInOrder
<1>5. ASSUME NEW s \in Sandboxes, UnlockSandbox(s) \/ MarkSandboxAsReady(s) \/ DeleteSandbox(s)
      PROVE  UNCHANGED <<rowlock, pc, todo>>
  BY <1>5 DEF UnlockSandbox, MarkSandboxAsReady, DeleteSandbox
<1>6. (\E t \in Tokens : LockPool(t)) \/ UnlockPool \/ UNCHANGED vars => UNCHANGED <<rowlock, pc, todo>>
  BY DEF LockPool, UnlockPool, vars
<1> QED BY <1>1, <1>2, <1>3, <1>4, <1>5, <1>6, HandleOrdered, Zenon DEF Next

LEMMA OrderedFollows == Assigned /\ Ordered => NoCircularWait
<1> SUFFICES ASSUME Assigned, Ordered, NEW R \in SUBSET Requests, R # {},
                    \A r \in R : WaitsFor(r) \intersect R # {}
             PROVE  FALSE
  BY DEF NoCircularWait
<1> DEFINE Awaited == {s \in Sandboxes : rowlock[s] \in R /\ \E r \in R : s \in NextRows(r)}
<1>1. ASSUME NEW r \in R
      PROVE  pc[r] = "locking" /\ \E s \in Awaited : s \in NextRows(r)
  <2>1. PICK q \in R : q \in WaitsFor(r)
    BY <1>1
  <2>2. pc[r] = "locking" /\ \E s \in NextRows(r) : q = rowlock[s]
    BY <2>1 DEF WaitsFor
  <2>3. PICK s \in NextRows(r) : q = rowlock[s]
    BY <2>2
  <2>4. s \in Sandboxes
    BY <2>3, <1>1 DEF NextRows, Assigned, TypeOK
  <2> QED BY <1>1, <2>2, <2>3, <2>4
<1>2. Awaited # {}
  BY <1>1
<1>3. Awaited \in SUBSET Nat /\ IsFiniteSet(Awaited)
  BY ConstantsAssumption, FS_Subset
<1>4. PICK m \in Awaited : \A n \in Awaited : n <= m
  <2> HIDE DEF Awaited
  <2> QED BY <1>2, <1>3, GreatestOfFinite
<1>5. m \in Sandboxes /\ rowlock[m] \in R /\ rowlock[m] # None
  BY <1>4, NoneIsNobody
<1>6. PICK n \in Awaited : n \in NextRows(rowlock[m])
  BY <1>1, <1>5
<1>7. n \in todo[rowlock[m]]
  BY <1>6 DEF NextRows
<1>8. m < n
  BY <1>5, <1>7 DEF Ordered, RowsInOrder
<1>9. n <= m /\ n \in Nat /\ m \in Nat
  BY <1>3, <1>4, <1>6
<1> QED BY <1>8, <1>9

\* However many requests lock however many rows, they never wait for each other
\* in a circle: there is no deadlock between the requests for sandboxes.
THEOREM AssignmentNeverDeadlocks == Spec => []NoCircularWait
BY InitAssigned, AssignedStep, InitOrdered, OrderedStep, OrderedFollows, PTL DEF Spec
=============================================================================
