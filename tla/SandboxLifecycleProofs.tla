----------------------- MODULE SandboxLifecycleProofs -----------------------
(***************************************************************************)
(* Theorems about SandboxLifecycle, for any finite set of units, any       *)
(* number of operations, any haste of the operators and any faults, and,   *)
(* in the second half, about operators that are patient.                   *)
(***************************************************************************)
EXTENDS SandboxLifecycle, FiniteSetTheorems, TLAPS

-----------------------------------------------------------------------------
(* The types of what the queue and the handlers compute. *)

\* The queue operators map job statuses to job statuses.
LEMMA QueueTypes ==
  ASSUME NEW js \in [Jobs -> JobStatus], NEW deps, NEW j \in Jobs
  PROVE  /\ EnqueuedJob(js, deps, j) \in [Jobs -> JobStatus]
         /\ FinishedJob(js, deps, j) \in [Jobs -> JobStatus]
         /\ DeletedJob(js, deps, j) \in [Jobs -> JobStatus]
  <1>1. {"deferred", "queued", "finished", "deleted"} \subseteq JobStatus
    BY DEF JobStatus
  <1>2. EnqueuedJob(js, deps, j) \in [Jobs -> JobStatus]
    BY <1>1 DEF EnqueuedJob
  <1>3. FinishedJob(js, deps, j) \in [Jobs -> JobStatus]
    BY <1>1 DEF FinishedJob
  <1>4. DeletedJob(js, deps, j) \in [Jobs -> JobStatus]
    BY <1>1 DEF DeletedJob
  <1> QED BY <1>2, <1>3, <1>4

\* An update of the chain of one operation, or of one of its jobs.
LEMMA JobTypes ==
  ASSUME job \in [Units -> [Ops -> [Jobs -> JobStatus]]],
         NEW u \in Units, NEW o \in Ops, NEW j \in Jobs, NEW st \in JobStatus,
         NEW deps
  PROVE  /\ [job EXCEPT ![u][o] = EnqueuedJob(@, deps, j)]
              \in [Units -> [Ops -> [Jobs -> JobStatus]]]
         /\ [job EXCEPT ![u][o] = FinishedJob(@, deps, j)]
              \in [Units -> [Ops -> [Jobs -> JobStatus]]]
         /\ [job EXCEPT ![u][o] = DeletedJob(@, deps, j)]
              \in [Units -> [Ops -> [Jobs -> JobStatus]]]
         /\ [job EXCEPT ![u][o][j] = st]
              \in [Units -> [Ops -> [Jobs -> JobStatus]]]
  <1>1. job[u][o] \in [Jobs -> JobStatus]
    OBVIOUS
  <1>2. /\ EnqueuedJob(job[u][o], deps, j) \in [Jobs -> JobStatus]
        /\ FinishedJob(job[u][o], deps, j) \in [Jobs -> JobStatus]
        /\ DeletedJob(job[u][o], deps, j) \in [Jobs -> JobStatus]
    BY <1>1, QueueTypes
  <1>3. [job[u][o] EXCEPT ![j] = st] \in [Jobs -> JobStatus]
    BY <1>1
  <1> QED BY <1>2, <1>3

\* An update of one stage row.
LEMMA RowRecords ==
  ASSUME NEW r \in Row, NEW st \in RowState
  PROVE  [r EXCEPT !.st = st] \in Row /\ [r EXCEPT !.rq = TRUE] \in Row
  BY DEF Row

LEMMA RowTypes ==
  ASSUME row \in [Units -> [Kinds -> Row]],
         NEW u \in Units, NEW k \in Kinds, NEW st \in RowState
  PROVE  /\ [row EXCEPT ![u][k].st = st] \in [Units -> [Kinds -> Row]]
         /\ [row EXCEPT ![u][k].rq = TRUE] \in [Units -> [Kinds -> Row]]
  <1>1. ASSUME NEW r \in Row PROVE [row EXCEPT ![u][k] = r] \in [Units -> [Kinds -> Row]]
    OBVIOUS
  <1>2. row[u][k] \in Row
    OBVIOUS
  <1> QED BY <1>1, <1>2, RowRecords

\* The rows of a unit rewritten: new or deleted stages.
LEMMA NewRows ==
  /\ NoRow \in Row
  /\ \A o \in Ops : NewRow(o) \in Row
  BY DEF Row, NewRow, NoRow, RowState

LEMMA RewriteTypes ==
  ASSUME row \in [Units -> [Kinds -> Row]], NEW u \in Units, NEW r \in Row, NEW S
  PROVE  [row EXCEPT ![u] = [k \in Kinds |-> IF k \in S THEN r ELSE @[k]]]
            \in [Units -> [Kinds -> Row]]
  OBVIOUS

\* An update of one operation: all of it, its pc, its chain, what is left of it.
LEMMA OpRecords ==
  ASSUME NEW r \in Op, NEW pc \in OpPc, NEW S \in SUBSET Kinds, NEW T \in SUBSET Kinds
  PROVE  /\ [r EXCEPT !.pc = pc] \in Op
         /\ [r EXCEPT !.pc = pc, !.todo = T] \in Op
         /\ [r EXCEPT !.pc = pc, !.plan = S, !.todo = T] \in Op
  BY DEF Op

LEMMA OpTypes ==
  ASSUME op \in [Units -> [Ops -> Op]], NEW u \in Units, NEW o \in Ops, NEW r \in Op
  PROVE  [op EXCEPT ![u][o] = r] \in [Units -> [Ops -> Op]]
  OBVIOUS

LEMMA OpPcTypes ==
  ASSUME op \in [Units -> [Ops -> Op]], NEW u \in Units, NEW o \in Ops, NEW pc \in OpPc
  PROVE  [op EXCEPT ![u][o].pc = pc] \in [Units -> [Ops -> Op]]
  <1>1. op[u][o] \in Op
    OBVIOUS
  <1>2. [op[u][o] EXCEPT !.pc = pc] \in Op
    BY <1>1, OpRecords
  <1> QED BY <1>2, OpTypes

LEMMA OpChainTypes ==
  ASSUME op \in [Units -> [Ops -> Op]], NEW u \in Units, NEW o \in Ops, NEW pc \in OpPc,
         NEW S \in SUBSET Kinds, NEW T \in SUBSET Kinds
  PROVE  [op EXCEPT ![u][o] = [@ EXCEPT !.pc = pc, !.plan = S, !.todo = T]]
              \in [Units -> [Ops -> Op]]
  <1>1. op[u][o] \in Op
    OBVIOUS
  <1>2. [op[u][o] EXCEPT !.pc = pc, !.plan = S, !.todo = T] \in Op
    BY <1>1, OpRecords
  <1> QED BY <1>2, OpTypes

LEMMA OpTodoTypes ==
  ASSUME op \in [Units -> [Ops -> Op]], NEW u \in Units, NEW o \in Ops, NEW pc \in OpPc,
         NEW T
  PROVE  [op EXCEPT ![u][o] = [@ EXCEPT !.pc = pc, !.todo = op[u][o].todo \ T]]
              \in [Units -> [Ops -> Op]]
  <1>1. op[u][o] \in Op
    OBVIOUS
  <1>2. op[u][o].todo \ T \in SUBSET Kinds
    BY <1>1 DEF Op
  <1>3. [op[u][o] EXCEPT !.pc = pc, !.todo = op[u][o].todo \ T] \in Op
    <2> DEFINE rest == op[u][o].todo \ T
    <2> HIDE DEF rest
    <2>1. rest \in SUBSET Kinds
      BY <1>2 DEF rest
    <2>2. [op[u][o] EXCEPT !.pc = pc, !.todo = rest] \in Op
      BY <1>1, <2>1, OpRecords
    <2> QED BY <2>2 DEF rest
  <1> QED BY <1>3, OpTypes

\* What a cancel_request reads of the stages of a request.
LEMMA SnapshotTypes ==
  ASSUME TypeOK, NEW u \in Units, NEW S \in SUBSET Kinds
  PROVE  Snapshot(u, S) \in SUBSET (Kinds \X Ops)
  <1> SUFFICES ASSUME NEW k \in S, row[u][k].run # 0
               PROVE  <<k, row[u][k].run>> \in Kinds \X Ops
    BY DEF Snapshot, Unfinished, Rows
  <1>1. row[u][k] \in Row
    BY DEF TypeOK
  <1> QED BY <1>1 DEF Row

LEMMA LeftTypes ==
  ASSUME TypeOK, NEW u \in Units, NEW c \in Cancellers,
         NEW S \in SUBSET (Kinds \X Ops)
  PROVE  [left EXCEPT ![u][c] = S] \in [Units -> [Cancellers -> SUBSET (Kinds \X Ops)]]
  BY DEF TypeOK

\* The values of the small sets the actions write.
LEMMA PcValues ==
  {"idle", "cancel", "delete", "queued", "restage", "enqueue", "setid", "done", "failed"}
     \subseteq OpPc
  BY DEF OpPc

LEMMA StatusValues ==
  /\ {"queued", "started", "failed"} \subseteq JobStatus
  /\ {"new", "running", "done", "failed"} \subseteq RowState
  /\ {"picked", "busy", "exc", "decremented", "succeeded", "ended", "dead"}
       \subseteq WorkState
  BY DEF JobStatus, RowState, WorkState

LEMMA KindValues ==
  /\ "netbird" \in Jobs /\ "final" \in Jobs /\ Kinds \subseteq Jobs
  /\ AllocKinds \in SUBSET Kinds /\ CleanupKinds \in SUBSET Kinds
  BY DEF Jobs, Kinds, AllocKinds, CleanupKinds

LEMMA CancellerValues ==
  \A o \in Ops : \A k \in Kinds \union {"web"} : <<o, k>> \in Cancellers
  BY DEF Cancellers

\* The operations the web requests record.
LEMMA NewOps ==
  ASSUME NEW kind \in OpKinds, NEW pc \in OpPc,
         NEW sb \in {0} \union Ops, NEW req \in {0} \union Ops
  PROVE  /\ [NoOp EXCEPT !.kind = kind, !.pc = pc] \in Op
         /\ [NoOp EXCEPT !.kind = kind, !.pc = pc, !.sb = sb] \in Op
         /\ [NoOp EXCEPT !.kind = kind, !.sb = sb, !.req = req, !.pc = pc] \in Op
  BY DEF NoOp, Op, OpPc

-----------------------------------------------------------------------------
(* TypeOK is inductive. *)

LEMMA TypeInit == Init => TypeOK
  <1> SUFFICES ASSUME Init PROVE TypeOK
    OBVIOUS
  <1>1. row \in [Units -> [Kinds -> Row]]
    BY DEF Init, Row, NoRow, RowState
  <1>2. op \in [Units -> [Ops -> Op]]
    BY DEF Init, Op, NoOp, OpPc
  <1>3. job \in [Units -> [Ops -> [Jobs -> JobStatus]]]
    BY DEF Init, JobStatus
  <1>4. work \in [Units -> [Ops -> [Jobs -> WorkState]]]
    BY DEF Init, WorkState
  <1> QED BY <1>1, <1>2, <1>3, <1>4 DEF Init, TypeOK

LEMMA TypeWeb ==
  ASSUME TypeOK, NEW u \in Units, WebRequest(u) PROVE TypeOK'
  <1>1. CASE CreateAllocationsRequests(u)
    <2>1. 1 \in Ops /\ "create" \in OpKinds /\ "queued" \in OpPc
      BY ConstantsAssumption DEF Ops, OpKinds, OpPc
    <2>2. [NoOp EXCEPT !.kind = "create", !.pc = "queued"] \in Op
      BY <2>1, NewOps DEF TypeOK
    <2>3. op' \in [Units -> [Ops -> Op]]
      BY <1>1, <2>1, <2>2, OpTypes DEF CreateAllocationsRequests, TypeOK
    <2>4. units' = units \union {u} /\ size' = size + 1
      BY <1>1 DEF CreateAllocationsRequests
    <2>5. units' \in SUBSET Units /\ size' \in Nat
      BY <2>4 DEF TypeOK
    <2> QED BY <1>1, <2>3, <2>5 DEF CreateAllocationsRequests, TypeOK
  <1>2. CASE DeleteCleanupRequest(u)
    <2>1. row' \in [Units -> [Kinds -> Row]]
      <3>1. [row EXCEPT ![u] = [k \in Kinds |-> IF k \in CleanupKinds THEN NoRow ELSE @[k]]]
              \in [Units -> [Kinds -> Row]]
        BY RewriteTypes, NewRows DEF TypeOK
      <3> QED BY <1>2, <3>1 DEF DeleteCleanupRequest
    <2> QED BY <1>2, <2>1 DEF DeleteCleanupRequest, TypeOK
  <1>3. CASE LockSandbox(u)
    BY <1>3 DEF LockSandbox, TypeOK
  <1>4. CASE UnlockSandbox(u)
    BY <1>4 DEF UnlockSandbox, TypeOK
  <1>5. ASSUME NEW o \in Ops, RestartRequest(u, o) PROVE TypeOK'
    <2>1. op' \in [Units -> [Ops -> Op]]
      BY <1>5, NewOps, OpTypes, PcValues DEF RestartRequest, TypeOK, OpKinds
    <2> QED BY <1>5, <2>1 DEF RestartRequest, TypeOK
  <1>6. ASSUME NEW o \in Ops, NEW kind \in OpKinds, NEW S \in SUBSET Kinds,
               CancelRequest(u, o, kind, S)
        PROVE  TypeOK'
    <2>1. op' \in [Units -> [Ops -> Op]]
      BY <1>6, NewOps, OpTypes, PcValues DEF CancelRequest, TypeOK
    <2>2. left' \in [Units -> [Cancellers -> SUBSET (Kinds \X Ops)]]
      BY <1>6, SnapshotTypes, LeftTypes, CancellerValues DEF CancelRequest
    <2> QED BY <1>6, <2>1, <2>2 DEF CancelRequest, TypeOK
  <1>7. ASSUME NEW o \in Ops, CreateCleanupRequest(u, o) PROVE TypeOK'
    <2>1. sandbox[u] \in {0} \union Ops
      BY DEF TypeOK
    <2>2. op' \in [Units -> [Ops -> Op]]
      BY <1>7, <2>1, NewOps, OpTypes, PcValues DEF CreateCleanupRequest, TypeOK, OpKinds
    <2> QED BY <1>7, <2>2 DEF CreateCleanupRequest, TypeOK
  <1>8. ASSUME NEW o \in Ops, CreateCleanupRequestForce(u, o) PROVE TypeOK'
    <2> DEFINE pc == IF IsFinished(u, AllocKinds) THEN "delete" ELSE "cancel"
               refused == [NoOp EXCEPT !.kind = "force", !.pc = "failed"]
               accepted == [NoOp EXCEPT !.kind = "force", !.sb = sandbox[u],
                                        !.req = creq[u], !.pc = pc]
               snapshot == Snapshot(u, AllocKinds)
    <2>1. sandbox[u] \in {0} \union Ops /\ creq[u] \in {0} \union Ops
      BY DEF TypeOK
    <2>2. pc \in OpPc /\ "failed" \in OpPc /\ "force" \in OpKinds
      BY PcValues DEF OpKinds
    <2>3. refused \in Op /\ accepted \in Op
      <3> HIDE DEF pc
      <3> QED BY <2>1, <2>2, NewOps
    <2>4. snapshot \in SUBSET (Kinds \X Ops)
      BY SnapshotTypes, KindValues
    <2>5. <<o, "web">> \in Cancellers
      BY DEF Cancellers
    <2>6. \/ op' = [op EXCEPT ![u][o] = refused] /\ left' = left
          \/ /\ op' = [op EXCEPT ![u][o] = accepted]
             /\ left' = [left EXCEPT ![u][<<o, "web">>] = snapshot]
      BY <1>8 DEF CreateCleanupRequestForce
    <2> HIDE DEF refused, accepted, snapshot
    <2>7. op' \in [Units -> [Ops -> Op]]
      <3>1. /\ [op EXCEPT ![u][o] = refused] \in [Units -> [Ops -> Op]]
            /\ [op EXCEPT ![u][o] = accepted] \in [Units -> [Ops -> Op]]
        BY <2>3, OpTypes DEF TypeOK
      <3> QED BY <2>6, <3>1
    <2>8. left' \in [Units -> [Cancellers -> SUBSET (Kinds \X Ops)]]
      <3>1. [left EXCEPT ![u][<<o, "web">>] = snapshot]
              \in [Units -> [Cancellers -> SUBSET (Kinds \X Ops)]]
        BY <2>4, <2>5, LeftTypes
      <3>2. left \in [Units -> [Cancellers -> SUBSET (Kinds \X Ops)]]
        BY DEF TypeOK
      <3> QED BY <2>6, <3>1, <3>2
    <2> QED BY <1>8, <2>7, <2>8 DEF CreateCleanupRequestForce, TypeOK
  <1> QED BY <1>1, <1>2, <1>3, <1>4, <1>5, <1>6, <1>7, <1>8, KindValues
       DEF WebRequest, CancelAllocationRequest, CancelCleanupRequest, OpKinds

LEMMA TypeWebContinues ==
  ASSUME TypeOK, NEW u \in Units, NEW o \in Ops, WebContinues(u, o) PROVE TypeOK'
  <1>1. CASE CancelDone(u, o)
    <2>1. op' \in [Units -> [Ops -> Op]]
      BY <1>1, OpPcTypes, PcValues DEF CancelDone, SetPc, TypeOK
    <2> QED BY <1>1, <2>1 DEF CancelDone, TypeOK
  <1>2. CASE DeleteSandbox(u, o)
    <2>1. \/ /\ op' = [op EXCEPT ![u][o].pc = "failed"]
             /\ UNCHANGED <<sandbox, ready>>
          \/ /\ op' = [op EXCEPT ![u][o].pc = "queued"]
             /\ \E s \in {0, sandbox[u]} : sandbox' = [sandbox EXCEPT ![u] = s]
             /\ \E r \in {FALSE, ready[u]} : ready' = [ready EXCEPT ![u] = r]
      BY <1>2 DEF DeleteSandbox, SetPc
    <2>2. op' \in [Units -> [Ops -> Op]]
      <3>1. op \in [Units -> [Ops -> Op]] /\ "failed" \in OpPc /\ "queued" \in OpPc
        BY PcValues DEF TypeOK
      <3>2. /\ [op EXCEPT ![u][o].pc = "failed"] \in [Units -> [Ops -> Op]]
            /\ [op EXCEPT ![u][o].pc = "queued"] \in [Units -> [Ops -> Op]]
        BY <3>1, OpPcTypes
      <3> QED BY <2>1, <3>2
    <2>3. sandbox' \in [Units -> {0} \union Ops] /\ ready' \in [Units -> BOOLEAN]
      <3>1. CASE UNCHANGED <<sandbox, ready>>
        BY <3>1 DEF TypeOK
      <3>2. ASSUME NEW s \in {0, sandbox[u]}, sandbox' = [sandbox EXCEPT ![u] = s]
            PROVE  sandbox' \in [Units -> {0} \union Ops]
        <4>1. s \in {0} \union Ops
          BY DEF TypeOK
        <4> QED BY <3>2, <4>1 DEF TypeOK
      <3>3. ASSUME NEW r \in {FALSE, ready[u]}, ready' = [ready EXCEPT ![u] = r]
            PROVE  ready' \in [Units -> BOOLEAN]
        <4>1. r \in BOOLEAN
          BY DEF TypeOK
        <4> QED BY <3>3, <4>1 DEF TypeOK
      <3> QED BY <2>1, <3>1, <3>2, <3>3
    <2> QED BY <1>2, <2>2, <2>3 DEF DeleteSandbox, TypeOK
  <1> QED BY <1>1, <1>2 DEF WebContinues

\* Starting the chain of an operation.
LEMMA StartChainTypes ==
  ASSUME TypeOK, NEW u \in Units, NEW o \in Ops, NEW S \in SUBSET Kinds,
         StartChain(u, o, S)
  PROVE  /\ op' \in [Units -> [Ops -> Op]]
         /\ job' \in [Units -> [Ops -> [Jobs -> JobStatus]]]
  <1>1. op' \in [Units -> [Ops -> Op]]
    <2>1. op' = [op EXCEPT ![u][o] = [@ EXCEPT !.pc = "enqueue", !.plan = S, !.todo = S]]
      BY DEF StartChain
    <2> QED BY <2>1, OpChainTypes, PcValues DEF TypeOK
  <1>2. job' \in [Units -> [Ops -> [Jobs -> JobStatus]]]
    <2>1. \/ job' = [job EXCEPT ![u][o] = EnqueuedJob(@, Deps(u, o), "netbird")]
          \/ job' = job
      BY DEF StartChain
    <2>2. "netbird" \in Jobs
      BY KindValues
    <2>3. [job EXCEPT ![u][o] = EnqueuedJob(@, Deps(u, o), "netbird")]
              \in [Units -> [Ops -> [Jobs -> JobStatus]]]
      <3> DEFINE deps == Deps(u, o)
      <3> HIDE DEF deps
      <3>1. [job EXCEPT ![u][o] = EnqueuedJob(@, deps, "netbird")]
              \in [Units -> [Ops -> [Jobs -> JobStatus]]]
        BY <2>2, JobTypes, StatusValues DEF TypeOK
      <3> QED BY <3>1 DEF deps
    <2> QED BY <2>1, <2>3 DEF TypeOK
  <1> QED BY <1>1, <1>2

LEMMA TypeFailOrchestration ==
  ASSUME TypeOK, NEW u \in Units, NEW o \in Ops, FailOrchestration(u, o)
  PROVE  TypeOK'
  <1>1. op' \in [Units -> [Ops -> Op]]
    BY OpPcTypes, PcValues DEF FailOrchestration, SetPc, TypeOK
  <1> QED BY <1>1 DEF FailOrchestration, TypeOK

LEMMA RestageStep ==
  ASSUME TypeOK, NEW u \in Units, NEW o \in Ops, NEW S, Restage(u, o, S)
  PROVE  row' \in [Units -> [Kinds -> Row]]
  <1> DEFINE r == NewRow(o)
  <1>1. r \in Row
    BY NewRows
  <1>2. row' = [row EXCEPT ![u] = [k \in Kinds |-> IF k \in S THEN r ELSE @[k]]]
    BY DEF Restage
  <1> HIDE DEF r
  <1> QED BY <1>1, <1>2, RewriteTypes DEF TypeOK

\* Enqueueing one job of a chain.
LEMMA EnqueueTypes ==
  ASSUME TypeOK, NEW u \in Units, NEW o \in Ops, NEW j \in Jobs,
         job' = [job EXCEPT ![u][o] = EnqueuedJob(@, Deps(u, o), j)]
  PROVE  job' \in [Units -> [Ops -> [Jobs -> JobStatus]]]
  <1> DEFINE deps == Deps(u, o)
  <1> HIDE DEF deps
  <1>1. job' = [job EXCEPT ![u][o] = EnqueuedJob(@, deps, j)]
    BY DEF deps
  <1>2. job \in [Units -> [Ops -> [Jobs -> JobStatus]]] /\ "queued" \in JobStatus
    BY StatusValues DEF TypeOK
  <1>3. [job EXCEPT ![u][o] = EnqueuedJob(@, deps, j)]
          \in [Units -> [Ops -> [Jobs -> JobStatus]]]
    BY <1>2, JobTypes
  <1> QED BY <1>1, <1>3

LEMMA TypeOrchestration ==
  ASSUME TypeOK, NEW u \in Units, NEW o \in Ops, Orchestration(u, o) PROVE TypeOK'
  <1>1. CASE CreateAllocationJobs(u, o)
    <2>1. row' \in [Units -> [Kinds -> Row]]
      BY <1>1, RestageStep DEF CreateAllocationJobs
    <2>2. op' \in [Units -> [Ops -> Op]] /\ job' \in [Units -> [Ops -> [Jobs -> JobStatus]]]
      BY <1>1, StartChainTypes, KindValues DEF CreateAllocationJobs
    <2>3. sandbox' \in [Units -> {0} \union Ops] /\ ready' \in [Units -> BOOLEAN]
      BY <1>1 DEF CreateAllocationJobs, TypeOK
    <2> QED BY <1>1, <2>1, <2>2, <2>3 DEF CreateAllocationJobs, TypeOK
  <1>2. CASE ReplaceSandbox(u, o)
    <2>1. CASE sandbox[u] = 0 \/ locked[u]
      BY <1>2, <2>1, TypeFailOrchestration DEF ReplaceSandbox
    <2>2. CASE ~(sandbox[u] = 0 \/ locked[u])
      <3>1. op' = [op EXCEPT ![u][o].pc = "restage"]
        BY <1>2, <2>2 DEF ReplaceSandbox, SetPc
      <3>2. op' \in [Units -> [Ops -> Op]]
        <4>1. op \in [Units -> [Ops -> Op]] /\ "restage" \in OpPc
          BY PcValues DEF TypeOK
        <4> QED BY <3>1, <4>1, OpPcTypes
      <3>3. sandbox' = [sandbox EXCEPT ![u] = o] /\ ready' = [ready EXCEPT ![u] = FALSE]
        BY <1>2, <2>2 DEF ReplaceSandbox
      <3>4. sandbox' \in [Units -> {0} \union Ops] /\ ready' \in [Units -> BOOLEAN]
        BY <3>3 DEF TypeOK
      <3>5. UNCHANGED <<units, size, locked, creq, row, job, work, left, cloud>>
        BY <1>2, <2>2 DEF ReplaceSandbox
      <3> QED BY <3>2, <3>4, <3>5 DEF TypeOK
    <2> QED BY <2>1, <2>2
  <1>3. CASE RestartStageHandlers(u, o)
    <2>1. FailedStages(u) \in SUBSET Kinds
      BY DEF FailedStages, Kinds, AllocKinds
    <2>2. \/ FailOrchestration(u, o)
          \/ /\ Restage(u, o, FailedStages(u))
             /\ StartChain(u, o, FailedStages(u))
             /\ UNCHANGED <<units, size, sandbox, ready, locked, creq, work, left, cloud>>
      BY <1>3 DEF RestartStageHandlers
    <2>3. CASE FailOrchestration(u, o)
      BY <2>3, TypeFailOrchestration
    <2>4. CASE /\ Restage(u, o, FailedStages(u))
               /\ StartChain(u, o, FailedStages(u))
               /\ UNCHANGED <<units, size, sandbox, ready, locked, creq, work, left, cloud>>
      BY <2>1, <2>4, RestageStep, StartChainTypes DEF TypeOK
    <2> QED BY <2>2, <2>3, <2>4
  <1>4. CASE CreateCleanupJobs(u, o)
    <2>1. \/ FailOrchestration(u, o)
          \/ /\ creq' = [creq EXCEPT ![u] = IF @ = 0 THEN o ELSE @]
             /\ Restage(u, o, CleanupKinds)
             /\ StartChain(u, o, CleanupKinds)
             /\ UNCHANGED <<units, size, sandbox, ready, locked, work, left, cloud>>
      BY <1>4 DEF CreateCleanupJobs
    <2>2. CASE FailOrchestration(u, o)
      BY <2>2, TypeFailOrchestration
    <2>3. CASE /\ creq' = [creq EXCEPT ![u] = IF @ = 0 THEN o ELSE @]
               /\ Restage(u, o, CleanupKinds)
               /\ StartChain(u, o, CleanupKinds)
               /\ UNCHANGED <<units, size, sandbox, ready, locked, work, left, cloud>>
      <3>1. creq' \in [Units -> {0} \union Ops]
        BY <2>3 DEF TypeOK
      <3>2. row' \in [Units -> [Kinds -> Row]]
        BY <2>3, RestageStep
      <3>3. op' \in [Units -> [Ops -> Op]] /\ job' \in [Units -> [Ops -> [Jobs -> JobStatus]]]
        BY <2>3, StartChainTypes, KindValues
      <3> QED BY <2>3, <3>1, <3>2, <3>3 DEF TypeOK
    <2> QED BY <2>1, <2>2, <2>3
  <1>5. CASE EnqueueStage(u, o)
    <2>1. PICK k \in First(op[u][o].todo) :
            job' = [job EXCEPT ![u][o] = EnqueuedJob(@, Deps(u, o), k)]
      BY <1>5 DEF EnqueueStage
    <2>2. k \in Jobs
      <3>1. op[u][o].todo \in SUBSET Kinds
        BY DEF TypeOK, Op
      <3> QED BY <3>1, KindValues DEF First
    <2>3. job' \in [Units -> [Ops -> [Jobs -> JobStatus]]]
      BY <2>1, <2>2, EnqueueTypes
    <2>4. op' \in [Units -> [Ops -> Op]]
      <3>1. op \in [Units -> [Ops -> Op]] /\ "setid" \in OpPc
        BY PcValues DEF TypeOK
      <3> QED BY <1>5, <3>1, OpPcTypes DEF EnqueueStage, SetPc
    <2> QED BY <1>5, <2>3, <2>4 DEF EnqueueStage, TypeOK
  <1>6. CASE SetJobId(u, o)
    <2>1. PICK k \in First(op[u][o].todo) :
            \/ FailOrchestration(u, o)
            \/ /\ row' = [row EXCEPT ![u][k].rq = TRUE]
               /\ op' = [op EXCEPT ![u][o] =
                           [@ EXCEPT !.pc = "enqueue", !.todo = op[u][o].todo \ {k}]]
               /\ UNCHANGED <<units, size, sandbox, ready, locked, creq, job, work, left, cloud>>
      BY <1>6 DEF SetJobId
    <2>2. CASE FailOrchestration(u, o)
      BY <2>2, TypeFailOrchestration
    <2>3. CASE /\ row' = [row EXCEPT ![u][k].rq = TRUE]
               /\ op' = [op EXCEPT ![u][o] =
                           [@ EXCEPT !.pc = "enqueue", !.todo = op[u][o].todo \ {k}]]
               /\ UNCHANGED <<units, size, sandbox, ready, locked, creq, job, work, left, cloud>>
      <3>1. k \in Kinds
        BY DEF First, TypeOK, Op
      <3>2. row \in [Units -> [Kinds -> Row]] /\ op \in [Units -> [Ops -> Op]]
        BY DEF TypeOK
      <3>3. row' \in [Units -> [Kinds -> Row]]
        BY <2>3, <3>1, <3>2, RowTypes, StatusValues
      <3>4. op' \in [Units -> [Ops -> Op]]
        BY <2>3, <3>2, OpTodoTypes, PcValues
      <3> QED BY <2>3, <3>3, <3>4 DEF TypeOK
    <2> QED BY <2>1, <2>2, <2>3
  <1>7. CASE EnqueueFinalizer(u, o)
    <2>1. job' \in [Units -> [Ops -> [Jobs -> JobStatus]]]
      BY <1>7, EnqueueTypes, KindValues DEF EnqueueFinalizer
    <2>2. op' \in [Units -> [Ops -> Op]]
      <3>1. op \in [Units -> [Ops -> Op]] /\ "done" \in OpPc
        BY PcValues DEF TypeOK
      <3> QED BY <1>7, <3>1, OpPcTypes DEF EnqueueFinalizer, SetPc
    <2> QED BY <1>7, <2>1, <2>2 DEF EnqueueFinalizer, TypeOK
  <1> QED BY <1>1, <1>2, <1>3, <1>4, <1>5, <1>6, <1>7 DEF Orchestration

\* The status of a job and what its worker is doing.
LEMMA StatusTypes ==
  ASSUME TypeOK, NEW u \in Units, NEW o \in Ops, NEW j \in Jobs
  PROVE  /\ \A st \in JobStatus :
              SetJob(u, o, j, st) => job' \in [Units -> [Ops -> [Jobs -> JobStatus]]]
         /\ Succeed(u, o, j) => job' \in [Units -> [Ops -> [Jobs -> JobStatus]]]
         /\ \A w \in WorkState :
              SetWork(u, o, j, w) => work' \in [Units -> [Ops -> [Jobs -> WorkState]]]
  <1>1. job \in [Units -> [Ops -> [Jobs -> JobStatus]]] /\ "queued" \in JobStatus
    BY StatusValues DEF TypeOK
  <1>2. ASSUME NEW st \in JobStatus, SetJob(u, o, j, st)
        PROVE  job' \in [Units -> [Ops -> [Jobs -> JobStatus]]]
    <2>1. job' = [job EXCEPT ![u][o][j] = st]
      BY <1>2 DEF SetJob
    <2> QED BY <1>1, <2>1
  <1>3. ASSUME Succeed(u, o, j) PROVE job' \in [Units -> [Ops -> [Jobs -> JobStatus]]]
    <2> DEFINE deps == Deps(u, o)
    <2> HIDE DEF deps
    <2>1. job' = [job EXCEPT ![u][o] = FinishedJob(@, deps, j)]
      BY <1>3 DEF Succeed, deps
    <2>2. [job EXCEPT ![u][o] = FinishedJob(@, deps, j)]
            \in [Units -> [Ops -> [Jobs -> JobStatus]]]
      BY <1>1, JobTypes
    <2> QED BY <2>1, <2>2
  <1>4. ASSUME NEW w \in WorkState, SetWork(u, o, j, w)
        PROVE  work' \in [Units -> [Ops -> [Jobs -> WorkState]]]
    BY <1>4 DEF SetWork, TypeOK
  <1> QED BY <1>2, <1>3, <1>4

LEMMA SaveStageTypes ==
  ASSUME TypeOK, NEW u \in Units, NEW o \in Ops, NEW k \in Kinds, NEW st \in RowState,
         SaveStage(u, o, k, st)
  PROVE  row' \in [Units -> [Kinds -> Row]]
  BY RowTypes DEF SaveStage, TypeOK

\* The actions of the worker that executes a stage job.
LEMMA TypeStage ==
  ASSUME TypeOK, NEW u \in Units, NEW o \in Ops, NEW k \in Kinds,
         \/ ExecuteStart(u, o, k) \/ ExecuteEnd(u, o, k)
         \/ ExecuteFail(u, o, k)  \/ RequestExceptionHandler(u, o, k)
  PROVE  TypeOK'
  <1>1. k \in Jobs
    BY KindValues
  <1>2. CASE ExecuteStart(u, o, k)
    <2>1. row' \in [Units -> [Kinds -> Row]]
      BY <1>2, SaveStageTypes, StatusValues DEF ExecuteStart, TypeOK
    <2>2. work' \in [Units -> [Ops -> [Jobs -> WorkState]]]
      BY <1>1, <1>2, StatusTypes, StatusValues DEF ExecuteStart
    <2>3. job' \in [Units -> [Ops -> [Jobs -> JobStatus]]]
      BY <1>1, <1>2, StatusTypes, StatusValues DEF ExecuteStart, TypeOK
    <2>4. cloud' \in [Units -> BOOLEAN]
      BY <1>2 DEF ExecuteStart, TypeOK
    <2> QED BY <1>2, <2>1, <2>2, <2>3, <2>4 DEF ExecuteStart, TypeOK
  <1>3. CASE ExecuteEnd(u, o, k)
    <2>1. row' \in [Units -> [Kinds -> Row]]
      BY <1>3, SaveStageTypes, StatusValues DEF ExecuteEnd, TypeOK
    <2>2. work' \in [Units -> [Ops -> [Jobs -> WorkState]]]
      BY <1>1, <1>3, StatusTypes, StatusValues DEF ExecuteEnd
    <2>3. job' \in [Units -> [Ops -> [Jobs -> JobStatus]]]
      BY <1>1, <1>3, StatusTypes, StatusValues DEF ExecuteEnd, TypeOK
    <2>4. cloud' \in [Units -> BOOLEAN]
      BY <1>3 DEF ExecuteEnd, CloudAfter, TypeOK
    <2> QED BY <1>3, <2>1, <2>2, <2>3, <2>4 DEF ExecuteEnd, TypeOK
  <1>4. CASE ExecuteFail(u, o, k)
    <2>1. row' \in [Units -> [Kinds -> Row]]
      BY <1>4, SaveStageTypes, StatusValues DEF ExecuteFail, TypeOK
    <2>2. work' \in [Units -> [Ops -> [Jobs -> WorkState]]]
      BY <1>1, <1>4, StatusTypes, StatusValues DEF ExecuteFail
    <2>3. job' \in [Units -> [Ops -> [Jobs -> JobStatus]]]
      BY <1>1, <1>4, StatusTypes, StatusValues DEF ExecuteFail
    <2>4. cloud' \in [Units -> BOOLEAN]
      BY <1>4 DEF ExecuteFail, TypeOK
    <2> QED BY <1>4, <2>1, <2>2, <2>3, <2>4 DEF ExecuteFail, TypeOK
  <1>5. CASE RequestExceptionHandler(u, o, k)
    <2>1. RequestKinds(k) \in SUBSET Kinds
      BY KindValues DEF RequestKinds
    <2>2. Snapshot(u, RequestKinds(k)) \in SUBSET (Kinds \X Ops)
      BY <2>1, SnapshotTypes
    <2>3. \E S \in SUBSET (Kinds \X Ops) : left' = [left EXCEPT ![u][<<o, k>>] = S]
      BY <1>5, <2>2 DEF RequestExceptionHandler
    <2>4. left' \in [Units -> [Cancellers -> SUBSET (Kinds \X Ops)]]
      <3>1. PICK S \in SUBSET (Kinds \X Ops) : left' = [left EXCEPT ![u][<<o, k>>] = S]
        BY <2>3
      <3>2. [left EXCEPT ![u][<<o, k>>] = S]
              \in [Units -> [Cancellers -> SUBSET (Kinds \X Ops)]]
        BY LeftTypes, CancellerValues
      <3> QED BY <3>1, <3>2
    <2>5. work' \in [Units -> [Ops -> [Jobs -> WorkState]]]
      BY <1>1, <1>5, StatusTypes, StatusValues DEF RequestExceptionHandler
    <2> QED BY <1>5, <2>4, <2>5 DEF RequestExceptionHandler, TypeOK
  <1> QED BY <1>2, <1>3, <1>4, <1>5

LEMMA TypeExecution ==
  ASSUME TypeOK, NEW u \in Units, NEW o \in Ops, Execution(u, o) PROVE TypeOK'
  <1>1. ASSUME NEW j \in Jobs, TakeJob(u, o, j) PROVE TypeOK'
    <2>1. work' \in [Units -> [Ops -> [Jobs -> WorkState]]]
      BY <1>1, StatusTypes, StatusValues DEF TakeJob
    <2>2. job' \in [Units -> [Ops -> [Jobs -> JobStatus]]]
      BY <1>1, StatusTypes, StatusValues DEF TakeJob
    <2> QED BY <1>1, <2>1, <2>2 DEF TakeJob, TypeOK
  <1>2. CASE ProvisionNetbird(u, o)
    <2>1. work' \in [Units -> [Ops -> [Jobs -> WorkState]]]
      BY <1>2, StatusTypes, StatusValues, KindValues DEF ProvisionNetbird
    <2>2. job' \in [Units -> [Ops -> [Jobs -> JobStatus]]]
      BY <1>2, StatusTypes, KindValues DEF ProvisionNetbird
    <2> QED BY <1>2, <2>1, <2>2 DEF ProvisionNetbird, TypeOK
  <1>3. CASE MarkSandboxAsReady(u, o)
    <2>1. work' \in [Units -> [Ops -> [Jobs -> WorkState]]]
      BY <1>3, StatusTypes, StatusValues, KindValues DEF MarkSandboxAsReady
    <2>2. job' \in [Units -> [Ops -> [Jobs -> JobStatus]]]
      BY <1>3, StatusTypes, StatusValues, KindValues DEF MarkSandboxAsReady
    <2>3. sandbox' \in [Units -> {0} \union Ops] /\ ready' \in [Units -> BOOLEAN]
      <3>1. \/ UNCHANGED <<sandbox, ready>>
            \/ /\ sandbox' = [sandbox EXCEPT ![u] = o]
               /\ ready' = [ready EXCEPT ![u] = TRUE]
        BY <1>3 DEF MarkSandboxAsReady
      <3>2. sandbox \in [Units -> {0} \union Ops] /\ ready \in [Units -> BOOLEAN]
        BY DEF TypeOK
      <3>3. /\ [sandbox EXCEPT ![u] = o] \in [Units -> {0} \union Ops]
            /\ [ready EXCEPT ![u] = TRUE] \in [Units -> BOOLEAN]
        BY <3>2
      <3> QED BY <3>1, <3>2, <3>3
    <2> QED BY <1>3, <2>1, <2>2, <2>3 DEF MarkSandboxAsReady, TypeOK
  <1>4. CASE DecrementPoolSize(u, o)
    <2>1. work' \in [Units -> [Ops -> [Jobs -> WorkState]]]
      BY <1>4, StatusTypes, StatusValues, KindValues DEF DecrementPoolSize
    <2>2. job' \in [Units -> [Ops -> [Jobs -> JobStatus]]]
      BY <1>4, StatusTypes, StatusValues, KindValues DEF DecrementPoolSize
    <2>3. size' = size \/ (size > 0 /\ size' = size - 1)
      BY <1>4 DEF DecrementPoolSize
    <2>4. size' \in Nat
      BY <2>3 DEF TypeOK
    <2> QED BY <1>4, <2>1, <2>2, <2>4 DEF DecrementPoolSize, TypeOK
  <1>5. CASE DeleteAllocationUnit(u, o)
    <2>1. work' \in [Units -> [Ops -> [Jobs -> WorkState]]]
      BY <1>5, StatusTypes, StatusValues, KindValues DEF DeleteAllocationUnit
    <2>2. job' \in [Units -> [Ops -> [Jobs -> JobStatus]]]
      BY <1>5, StatusTypes, StatusValues, KindValues DEF DeleteAllocationUnit
    <2>3. units' \in SUBSET Units /\ creq' \in [Units -> {0} \union Ops]
      BY <1>5 DEF DeleteAllocationUnit, TypeOK
    <2>4. row' = row \/ row' = [row EXCEPT ![u] = [k \in Kinds |-> NoRow]]
      BY <1>5 DEF DeleteAllocationUnit
    <2>5. row' \in [Units -> [Kinds -> Row]]
      <3>1. row \in [Units -> [Kinds -> Row]] /\ [k \in Kinds |-> NoRow] \in [Kinds -> Row]
        BY NewRows DEF TypeOK
      <3>2. [row EXCEPT ![u] = [k \in Kinds |-> NoRow]] \in [Units -> [Kinds -> Row]]
        BY <3>1
      <3> QED BY <2>4, <3>1, <3>2
    <2> QED BY <1>5, <2>1, <2>2, <2>3, <2>5 DEF DeleteAllocationUnit, TypeOK
  <1> QED BY <1>1, <1>2, <1>3, <1>4, <1>5, TypeStage, KindValues DEF Execution

LEMMA TypeCrash ==
  ASSUME TypeOK, NEW u \in Units, NEW o \in Ops, Crash(u, o) PROVE TypeOK'
  <1>1. CASE CrashOrchestration(u, o)
    BY <1>1, TypeFailOrchestration DEF CrashOrchestration
  <1>2. ASSUME NEW j \in Jobs, CrashJob(u, o, j) PROVE TypeOK'
    <2>1. work' \in [Units -> [Ops -> [Jobs -> WorkState]]]
      BY <1>2, StatusTypes, StatusValues DEF CrashJob
    <2>2. job' \in [Units -> [Ops -> [Jobs -> JobStatus]]]
      BY <1>2, StatusTypes, StatusValues DEF CrashJob
    <2> QED BY <1>2, <2>1, <2>2 DEF CrashJob, TypeOK
  <1> QED BY <1>1, <1>2 DEF Crash

LEMMA Pairs ==
  ASSUME NEW S, NEW T, NEW s \in S \X T
  PROVE  s = <<s[1], s[2]>> /\ s[1] \in S /\ s[2] \in T
  OBVIOUS

LEMMA TypeCancelStage ==
  ASSUME TypeOK, NEW u \in Units, NEW c \in Cancellers, CancelStage(u, c) PROVE TypeOK'
  <1>1. left[u][c] \in SUBSET (Kinds \X Ops)
    BY DEF TypeOK
  <1>2. c[1] \in Ops
    BY DEF Cancellers
  <1>3. PICK k \in Kinds, o \in Ops :
          /\ \/ /\ SaveStage(u, o, k, "failed")
                /\ \/ job' = [job EXCEPT ![u][o] = DeletedJob(@, Deps(u, o), k)]
                   \/ job' = job
                /\ left' = [left EXCEPT ![u][c] = @ \ {<<k, o>>}]
                /\ op' = op
             \/ /\ left' = [left EXCEPT ![u][c] = {}]
                /\ SetPc(u, c[1], "failed") \/ op' = op
                /\ UNCHANGED <<row, job>>
          /\ UNCHANGED <<units, size, sandbox, ready, locked, creq, work, cloud>>
    <2>1. PICK s \in left[u][c] :
            /\ \/ /\ SaveStage(u, s[2], s[1], "failed")
                  /\ \/ job' = [job EXCEPT ![u][s[2]] = DeletedJob(@, Deps(u, s[2]), s[1])]
                     \/ job' = job
                  /\ left' = [left EXCEPT ![u][c] = @ \ {s}]
                  /\ op' = op
               \/ /\ left' = [left EXCEPT ![u][c] = {}]
                  /\ SetPc(u, c[1], "failed") \/ op' = op
                  /\ UNCHANGED <<row, job>>
            /\ UNCHANGED <<units, size, sandbox, ready, locked, creq, work, cloud>>
      BY Zenon DEF CancelStage
    <2>2. s \in Kinds \X Ops
      BY <1>1
    <2>3. s = <<s[1], s[2]>> /\ s[1] \in Kinds /\ s[2] \in Ops
      BY <2>2, Pairs, Zenon
    <2> QED BY <2>1, <2>3, Zenon
  <1>4. row' \in [Units -> [Kinds -> Row]]
    BY <1>3, SaveStageTypes, StatusValues DEF TypeOK
  <1>5. op' \in [Units -> [Ops -> Op]]
    <2>1. op \in [Units -> [Ops -> Op]] /\ "failed" \in OpPc
      BY PcValues DEF TypeOK
    <2>2. [op EXCEPT ![u][c[1]].pc = "failed"] \in [Units -> [Ops -> Op]]
      BY <1>2, <2>1, OpPcTypes
    <2> QED BY <1>3, <2>1, <2>2 DEF SetPc
  <1>6. left' \in [Units -> [Cancellers -> SUBSET (Kinds \X Ops)]]
    <2> DEFINE rest == left[u][c] \ {<<k, o>>}
    <2>1. \/ left' = [left EXCEPT ![u][c] = rest]
          \/ left' = [left EXCEPT ![u][c] = {}]
      BY <1>3
    <2>2. rest \in SUBSET (Kinds \X Ops) /\ {} \in SUBSET (Kinds \X Ops)
      BY <1>1
    <2> HIDE DEF rest
    <2>3. /\ [left EXCEPT ![u][c] = rest] \in [Units -> [Cancellers -> SUBSET (Kinds \X Ops)]]
          /\ [left EXCEPT ![u][c] = {}] \in [Units -> [Cancellers -> SUBSET (Kinds \X Ops)]]
      BY <2>2, LeftTypes, Zenon
    <2> QED BY <2>1, <2>3, Zenon
  <1>7. job' \in [Units -> [Ops -> [Jobs -> JobStatus]]]
    <2> DEFINE deps == Deps(u, o)
    <2>1. job' = [job EXCEPT ![u][o] = DeletedJob(@, deps, k)] \/ job' = job
      BY <1>3
    <2> HIDE DEF deps
    <2>2. job \in [Units -> [Ops -> [Jobs -> JobStatus]]] /\ "queued" \in JobStatus /\ k \in Jobs
      BY StatusValues, KindValues DEF TypeOK
    <2>3. [job EXCEPT ![u][o] = DeletedJob(@, deps, k)]
            \in [Units -> [Ops -> [Jobs -> JobStatus]]]
      BY <2>2, JobTypes
    <2> QED BY <2>1, <2>2, <2>3
  <1> QED BY <1>3, <1>4, <1>5, <1>6, <1>7 DEF TypeOK

\* Every variable keeps its type, whatever is asked and whatever fails; Pool.size
\* in particular never goes below zero, though finalizers may count a unit twice.
THEOREM TypeCorrect == Spec => []TypeOK
  <1>1. ASSUME TypeOK, [Next]_vars PROVE TypeOK'
    <2>1. CASE Next
      BY <1>1, <2>1, TypeWeb, TypeWebContinues, TypeOrchestration, TypeExecution,
         TypeCrash, TypeCancelStage DEF Next
    <2>2. CASE UNCHANGED vars
      BY <1>1, <2>2 DEF vars, TypeOK
    <2> QED BY <1>1, <2>1, <2>2
  <1> QED BY <1>1, TypeInit, PTL DEF Spec

-----------------------------------------------------------------------------
(* Pool.size never overcounts.                                             *)
(*                                                                         *)
(* The bound alone is not inductive: a unit that is created while one of   *)
(* its finalizers has already counted it out would be counted by size and  *)
(* not by the set.  Born excludes that: nothing happens on behalf of a     *)
(* unit before it is created.                                              *)

Asleep(u) ==
  /\ \A o \in Ops : op[u][o].pc = "idle"
  /\ \A o \in Ops, j \in Jobs : job[u][o][j] = "none" /\ work[u][o][j] = "idle"
  /\ \A c \in Cancellers : left[u][c] = {}

Born == \A u \in Units : op[u][1].pc = "idle" => Asleep(u)

\* A step on behalf of unit u leaves the other units alone, and u created.
Frame(u) ==
  /\ \A v \in Units \ {u} : /\ op'[v] = op[v] /\ job'[v] = job[v]
                             /\ work'[v] = work[v] /\ left'[v] = left[v]
  /\ op[u][1].pc # "idle" => op'[u][1].pc # "idle"

LEMMA OneIsAnOp == 1 \in Ops
  BY ConstantsAssumption DEF Ops

LEMMA BornStep ==
  ASSUME Born, NEW u \in Units, Frame(u), ~Asleep(u) \/ op'[u][1].pc # "idle"
  PROVE  Born'
  <1> SUFFICES ASSUME NEW v \in Units, op'[v][1].pc = "idle" PROVE Asleep(v)'
    BY DEF Born
  <1>1. v # u
    BY DEF Born, Frame
  <1>2. op'[v] = op[v] /\ job'[v] = job[v] /\ work'[v] = work[v] /\ left'[v] = left[v]
    BY <1>1 DEF Frame
  <1>3. Asleep(v)
    BY <1>2 DEF Born
  <1> QED BY <1>2, <1>3 DEF Asleep

\* The shapes of the steps on behalf of u.
LEMMA OpFrame ==
  ASSUME TypeOK, NEW u \in Units, NEW o \in Ops, NEW r, r.pc # "idle",
         op' = [op EXCEPT ![u][o] = r]
  PROVE  /\ \A v \in Units \ {u} : op'[v] = op[v]
         /\ op[u][1].pc # "idle" => op'[u][1].pc # "idle"
         /\ op'[u][o].pc # "idle"
  <1>1. op \in [Units -> [Ops -> Op]] /\ 1 \in Ops
    BY OneIsAnOp DEF TypeOK
  <1>2. op'[u][o] = r /\ (o # 1 => op'[u][1] = op[u][1])
    BY <1>1
  <1> QED BY <1>1, <1>2

LEMMA PcFrame ==
  ASSUME TypeOK, NEW u \in Units, NEW o \in Ops, NEW pc \in OpPc \ {"idle"}, SetPc(u, o, pc)
  PROVE  /\ \A v \in Units \ {u} : op'[v] = op[v]
         /\ op[u][1].pc # "idle" => op'[u][1].pc # "idle"
         /\ op'[u][o].pc # "idle"
  <1> DEFINE r == [op[u][o] EXCEPT !.pc = pc]
  <1>1. op[u][o] \in Op
    BY DEF TypeOK
  <1>2. r.pc = pc
    BY <1>1 DEF Op
  <1>3. op' = [op EXCEPT ![u][o] = r]
    BY DEF SetPc
  <1> HIDE DEF r
  <1> QED BY <1>2, <1>3, OpFrame

LEMMA JobFrame ==
  ASSUME TypeOK, NEW u \in Units, NEW o \in Ops, NEW r, job' = [job EXCEPT ![u][o] = r]
  PROVE  \A v \in Units \ {u} : job'[v] = job[v]
  BY DEF TypeOK

LEMMA StatusFrame ==
  ASSUME TypeOK, NEW u \in Units, NEW o \in Ops, NEW j \in Jobs
  PROVE  /\ \A st \in JobStatus : SetJob(u, o, j, st) => \A v \in Units \ {u} : job'[v] = job[v]
         /\ Succeed(u, o, j) => \A v \in Units \ {u} : job'[v] = job[v]
  BY DEF TypeOK, SetJob, Succeed

LEMMA WorkFrame ==
  ASSUME TypeOK, NEW u \in Units, NEW o \in Ops, NEW j \in Jobs, NEW w, SetWork(u, o, j, w)
  PROVE  /\ \A v \in Units \ {u} : work'[v] = work[v]
         /\ \A i \in Ops, h \in Jobs :
              work'[u][i][h] = IF i = o /\ h = j THEN w ELSE work[u][i][h]
  BY DEF TypeOK, SetWork

LEMMA LeftFrame ==
  ASSUME TypeOK, NEW u \in Units, NEW c \in Cancellers, NEW S, left' = [left EXCEPT ![u][c] = S]
  PROVE  \A v \in Units \ {u} : left'[v] = left[v]
  BY DEF TypeOK

LEMMA BornUnchanged == Born /\ UNCHANGED <<op, job, work, left>> => Born'
  BY DEF Born, Asleep

\* A request on a unit: the unit was created by an earlier one.
LEMMA Requested ==
  ASSUME TypeOK, Born, NEW u \in Units, NEW o \in Ops, NEW kind, Asks(u, o, kind),
         NEW r, r.pc # "idle", op' = [op EXCEPT ![u][o] = r],
         \A v \in Units \ {u} : left'[v] = left[v],
         UNCHANGED <<job, work>>
  PROVE  Born'
  <1>1. ~Asleep(u)
    <2>1. o > 1 /\ op[u][o - 1].pc # "idle"
      BY DEF Asks
    <2>2. o - 1 \in Ops
      BY <2>1, ConstantsAssumption DEF Ops
    <2> QED BY <2>1, <2>2 DEF Asleep
  <1>2. Frame(u)
    BY OpFrame DEF Frame
  <1> QED BY <1>1, <1>2, BornStep

LEMMA BornWeb ==
  ASSUME TypeOK, Born, NEW u \in Units, WebRequest(u) PROVE Born'
  <1>1. CASE CreateAllocationsRequests(u)
    <2> DEFINE r == [NoOp EXCEPT !.kind = "create", !.pc = "queued"]
    <2>1. r.pc # "idle"
      BY DEF NoOp
    <2>2. op' = [op EXCEPT ![u][1] = r] /\ UNCHANGED <<job, work, left>>
      BY <1>1 DEF CreateAllocationsRequests
    <2> HIDE DEF r
    <2>3. Frame(u) /\ op'[u][1].pc # "idle"
      BY <2>1, <2>2, OneIsAnOp, OpFrame DEF Frame
    <2> QED BY <2>3, BornStep
  <1>2. CASE DeleteCleanupRequest(u)
    BY <1>2, BornUnchanged DEF DeleteCleanupRequest
  <1>3. CASE LockSandbox(u)
    BY <1>3, BornUnchanged DEF LockSandbox
  <1>4. CASE UnlockSandbox(u)
    BY <1>4, BornUnchanged DEF UnlockSandbox
  <1>5. ASSUME NEW o \in Ops, RestartRequest(u, o) PROVE Born'
    <2> DEFINE r == [NoOp EXCEPT !.kind = "restart", !.pc = "queued"]
    <2>1. r.pc # "idle"
      BY DEF NoOp
    <2>2. op' = [op EXCEPT ![u][o] = r] /\ UNCHANGED <<job, work, left>>
      BY <1>5 DEF RestartRequest
    <2>3. Asks(u, o, "restart")
      BY <1>5 DEF RestartRequest
    <2> HIDE DEF r
    <2> QED BY <2>1, <2>2, <2>3, Requested
  <1>6. ASSUME NEW o \in Ops, NEW kind, NEW S, CancelRequest(u, o, kind, S) PROVE Born'
    <2> DEFINE r == [NoOp EXCEPT !.kind = kind, !.pc = "cancel"]
               snapshot == Snapshot(u, S)
    <2>1. r.pc # "idle"
      BY DEF NoOp
    <2>2. /\ op' = [op EXCEPT ![u][o] = r]
          /\ left' = [left EXCEPT ![u][<<o, "web">>] = snapshot]
          /\ UNCHANGED <<job, work>>
      BY <1>6 DEF CancelRequest
    <2>3. Asks(u, o, kind)
      BY <1>6 DEF CancelRequest
    <2> HIDE DEF r, snapshot
    <2>4. \A v \in Units \ {u} : left'[v] = left[v]
      BY <2>2, LeftFrame, CancellerValues
    <2> QED BY <2>1, <2>2, <2>3, <2>4, Requested
  <1>7. ASSUME NEW o \in Ops, CreateCleanupRequest(u, o) PROVE Born'
    <2> DEFINE r == [NoOp EXCEPT !.kind = "cleanup", !.pc = "delete", !.sb = sandbox[u]]
    <2>1. r.pc # "idle"
      BY DEF NoOp
    <2>2. op' = [op EXCEPT ![u][o] = r] /\ UNCHANGED <<job, work, left>>
      BY <1>7 DEF CreateCleanupRequest
    <2>3. Asks(u, o, "cleanup")
      BY <1>7 DEF CreateCleanupRequest
    <2> HIDE DEF r
    <2> QED BY <2>1, <2>2, <2>3, Requested
  <1>8. ASSUME NEW o \in Ops, CreateCleanupRequestForce(u, o) PROVE Born'
    <2> DEFINE pc == IF IsFinished(u, AllocKinds) THEN "delete" ELSE "cancel"
               refused == [NoOp EXCEPT !.kind = "force", !.pc = "failed"]
               accepted == [NoOp EXCEPT !.kind = "force", !.sb = sandbox[u],
                                        !.req = creq[u], !.pc = pc]
               snapshot == Snapshot(u, AllocKinds)
    <2>1. refused.pc # "idle" /\ accepted.pc # "idle"
      BY DEF NoOp
    <2>2. \/ op' = [op EXCEPT ![u][o] = refused] /\ left' = left
          \/ /\ op' = [op EXCEPT ![u][o] = accepted]
             /\ left' = [left EXCEPT ![u][<<o, "web">>] = snapshot]
      BY <1>8 DEF CreateCleanupRequestForce
    <2>3. Asks(u, o, "force") /\ UNCHANGED <<job, work>>
      BY <1>8 DEF CreateCleanupRequestForce
    <2> HIDE DEF refused, accepted, snapshot
    <2>4. \A v \in Units \ {u} : left'[v] = left[v]
      BY <2>2, LeftFrame, CancellerValues
    <2> QED BY <2>1, <2>2, <2>3, <2>4, Requested
  <1> QED BY <1>1, <1>2, <1>3, <1>4, <1>5, <1>6, <1>7, <1>8
       DEF WebRequest, CancelAllocationRequest, CancelCleanupRequest

LEMMA BornWebContinues ==
  ASSUME TypeOK, Born, NEW u \in Units, NEW o \in Ops, WebContinues(u, o) PROVE Born'
  <1>1. op[u][o].pc # "idle"
    BY DEF WebContinues, CancelDone, DeleteSandbox
  <1>2. \E pc \in {"delete", "done", "failed", "queued"} : SetPc(u, o, pc)
    BY DEF WebContinues, CancelDone, DeleteSandbox
  <1>3. UNCHANGED <<job, work, left>>
    BY DEF WebContinues, CancelDone, DeleteSandbox
  <1>4. Frame(u)
    BY <1>2, <1>3, PcFrame, PcValues DEF Frame
  <1> QED BY <1>1, <1>4, BornStep DEF Asleep

LEMMA ChainFrame ==
  ASSUME TypeOK, NEW u \in Units, NEW o \in Ops, NEW S, StartChain(u, o, S)
  PROVE  /\ \A v \in Units \ {u} : op'[v] = op[v] /\ job'[v] = job[v]
         /\ op[u][1].pc # "idle" => op'[u][1].pc # "idle"
  <1> DEFINE r == [op[u][o] EXCEPT !.pc = "enqueue", !.plan = S, !.todo = S]
             js == EnqueuedJob(job[u][o], Deps(u, o), "netbird")
  <1>1. r.pc # "idle"
    <2>1. op[u][o] \in Op
      BY DEF TypeOK
    <2> QED BY <2>1 DEF Op
  <1>2. op' = [op EXCEPT ![u][o] = r]
    BY DEF StartChain
  <1>3. job' = [job EXCEPT ![u][o] = js] \/ job' = job
    BY DEF StartChain
  <1> HIDE DEF r, js
  <1> QED BY <1>1, <1>2, <1>3, OpFrame, JobFrame

LEMMA BornOrchestration ==
  ASSUME TypeOK, Born, NEW u \in Units, NEW o \in Ops, Orchestration(u, o) PROVE Born'
  <1> USE DEF Orchestrates
  <1>1. op[u][o].pc # "idle"
    BY DEF Orchestration, CreateAllocationJobs, ReplaceSandbox, RestartStageHandlers,
           CreateCleanupJobs, EnqueueStage, SetJobId, EnqueueFinalizer
  <1>2. SUFFICES Frame(u)
    BY <1>1, BornStep DEF Asleep
  <1>3. ASSUME FailOrchestration(u, o) PROVE Frame(u)
    BY <1>3, PcFrame, PcValues DEF FailOrchestration, Frame
  <1>4. CASE CreateAllocationJobs(u, o)
    BY <1>4, ChainFrame DEF CreateAllocationJobs, Frame
  <1>5. CASE ReplaceSandbox(u, o)
    <2>1. FailOrchestration(u, o) \/ (SetPc(u, o, "restage") /\ UNCHANGED <<job, work, left>>)
      BY <1>5 DEF ReplaceSandbox
    <2> QED BY <1>3, <2>1, PcFrame, PcValues DEF Frame
  <1>6. CASE RestartStageHandlers(u, o)
    <2>1. FailOrchestration(u, o) \/
          (StartChain(u, o, FailedStages(u)) /\ UNCHANGED <<work, left>>)
      BY <1>6 DEF RestartStageHandlers
    <2> QED BY <1>3, <2>1, ChainFrame DEF Frame
  <1>7. CASE CreateCleanupJobs(u, o)
    <2>1. FailOrchestration(u, o) \/
          (StartChain(u, o, CleanupKinds) /\ UNCHANGED <<work, left>>)
      BY <1>7 DEF CreateCleanupJobs
    <2> QED BY <1>3, <2>1, ChainFrame DEF Frame
  <1>8. CASE EnqueueStage(u, o)
    <2>1. PICK k \in First(op[u][o].todo) :
            job' = [job EXCEPT ![u][o] = EnqueuedJob(@, Deps(u, o), k)]
      BY <1>8 DEF EnqueueStage
    <2> DEFINE js == EnqueuedJob(job[u][o], Deps(u, o), k)
    <2>2. job' = [job EXCEPT ![u][o] = js]
      BY <2>1
    <2> HIDE DEF js
    <2> QED BY <1>8, <2>2, JobFrame, PcFrame, PcValues DEF EnqueueStage, Frame
  <1>9. CASE SetJobId(u, o)
    <2>1. PICK k :
            \/ FailOrchestration(u, o)
            \/ /\ op' = [op EXCEPT ![u][o] =
                           [@ EXCEPT !.pc = "enqueue", !.todo = op[u][o].todo \ {k}]]
               /\ UNCHANGED <<job, work, left>>
      BY <1>9 DEF SetJobId
    <2> DEFINE r == [op[u][o] EXCEPT !.pc = "enqueue", !.todo = op[u][o].todo \ {k}]
    <2>2. op[u][o] \in Op
      BY DEF TypeOK
    <2>3. r.pc # "idle"
      BY <2>2 DEF Op
    <2>4. FailOrchestration(u, o) \/
          (op' = [op EXCEPT ![u][o] = r] /\ UNCHANGED <<job, work, left>>)
      BY <2>1
    <2> HIDE DEF r
    <2> QED BY <1>3, <2>3, <2>4, OpFrame DEF Frame
  <1>10. CASE EnqueueFinalizer(u, o)
    <2> DEFINE js == EnqueuedJob(job[u][o], Deps(u, o), "final")
    <2>1. job' = [job EXCEPT ![u][o] = js]
      BY <1>10 DEF EnqueueFinalizer
    <2> HIDE DEF js
    <2> QED BY <1>10, <2>1, JobFrame, PcFrame, PcValues DEF EnqueueFinalizer, Frame
  <1> QED BY <1>4, <1>5, <1>6, <1>7, <1>8, <1>9, <1>10 DEF Orchestration

LEMMA BornCancelStage ==
  ASSUME TypeOK, Born, NEW u \in Units, NEW c \in Cancellers, CancelStage(u, c) PROVE Born'
  <1>1. c[1] \in Ops
    BY DEF Cancellers
  <1>2. PICK s \in left[u][c] :
          \/ /\ \/ job' = [job EXCEPT ![u][s[2]] = DeletedJob(@, Deps(u, s[2]), s[1])]
                \/ job' = job
             /\ left' = [left EXCEPT ![u][c] = @ \ {s}]
             /\ UNCHANGED <<op, work>>
          \/ /\ left' = [left EXCEPT ![u][c] = {}]
             /\ SetPc(u, c[1], "failed") \/ op' = op
             /\ UNCHANGED <<job, work>>
    BY Zenon DEF CancelStage
  <1>3. s[2] \in Ops
    BY Pairs DEF TypeOK
  <1>4. ~Asleep(u)
    BY <1>2 DEF Asleep
  <1> DEFINE js == DeletedJob(job[u][s[2]], Deps(u, s[2]), s[1])
             rest == left[u][c] \ {s}
  <1>5. /\ job' = [job EXCEPT ![u][s[2]] = js] \/ job' = job
        /\ left' = [left EXCEPT ![u][c] = rest] \/ left' = [left EXCEPT ![u][c] = {}]
        /\ SetPc(u, c[1], "failed") \/ op' = op
        /\ work' = work
    BY <1>2
  <1> HIDE DEF js, rest
  <1>6. Frame(u)
    <2>1. \A v \in Units \ {u} : job'[v] = job[v]
      BY <1>3, <1>5, JobFrame
    <2>2. \A v \in Units \ {u} : left'[v] = left[v]
      BY <1>5, LeftFrame
    <2>3. /\ \A v \in Units \ {u} : op'[v] = op[v]
          /\ op[u][1].pc # "idle" => op'[u][1].pc # "idle"
      BY <1>1, <1>5, PcFrame, PcValues
    <2> QED BY <1>5, <2>1, <2>2, <2>3 DEF Frame
  <1> QED BY <1>4, <1>6, BornStep

\* What a worker or the death of a worker does to a unit, as far as the unit's
\* finalizers are concerned.
WorkStep(u, o, j) ==
  /\ job[u][o][j] # "none" \/ work[u][o][j] # "idle"
  /\ op' = op
  /\ job' = job \/ Succeed(u, o, j) \/ \E st \in JobStatus : SetJob(u, o, j, st)
  /\ \E w \in WorkState : SetWork(u, o, j, w)
  /\ left' = left \/ \E c \in Cancellers, S \in SUBSET (Kinds \X Ops) :
                       left' = [left EXCEPT ![u][c] = S]

LEMMA BornWorkStep ==
  ASSUME TypeOK, Born, NEW u \in Units, NEW o \in Ops, NEW j \in Jobs, WorkStep(u, o, j)
  PROVE  Born'
  <1>1. ~Asleep(u)
    BY DEF WorkStep, Asleep
  <1>2. \A v \in Units \ {u} : job'[v] = job[v]
    BY StatusFrame DEF WorkStep
  <1>3. \A v \in Units \ {u} : work'[v] = work[v]
    BY WorkFrame DEF WorkStep
  <1>4. \A v \in Units \ {u} : left'[v] = left[v]
    BY LeftFrame DEF WorkStep
  <1>5. Frame(u)
    BY <1>2, <1>3, <1>4 DEF WorkStep, Frame
  <1> QED BY <1>1, <1>5, BornStep

LEMMA WorkSteps ==
  ASSUME TypeOK, NEW u \in Units, NEW o \in Ops,
         Execution(u, o) \/ \E j \in Jobs : CrashJob(u, o, j)
  PROVE  \E j \in Jobs : WorkStep(u, o, j)
  <1> USE KindValues, StatusValues
  <1>1. ASSUME NEW j \in Jobs, TakeJob(u, o, j) PROVE WorkStep(u, o, j)
    BY <1>1 DEF TakeJob, WorkStep
  <1>2. ASSUME NEW j \in Jobs, CrashJob(u, o, j) PROVE WorkStep(u, o, j)
    BY <1>2 DEF CrashJob, WorkStep
  <1>3. ASSUME NEW k \in Kinds, ExecuteStart(u, o, k) PROVE WorkStep(u, o, k)
    BY <1>3 DEF ExecuteStart, WorkStep
  <1>4. ASSUME NEW k \in Kinds, ExecuteEnd(u, o, k) PROVE WorkStep(u, o, k)
    BY <1>4 DEF ExecuteEnd, WorkStep
  <1>5. ASSUME NEW k \in Kinds, ExecuteFail(u, o, k) PROVE WorkStep(u, o, k)
    BY <1>5 DEF ExecuteFail, WorkStep
  <1>6. ASSUME NEW k \in Kinds, RequestExceptionHandler(u, o, k) PROVE WorkStep(u, o, k)
    <2>1. Snapshot(u, RequestKinds(k)) \in SUBSET (Kinds \X Ops)
      BY SnapshotTypes DEF RequestKinds
    <2>2. \E S \in SUBSET (Kinds \X Ops) : left' = [left EXCEPT ![u][<<o, k>>] = S]
      BY <1>6, <2>1 DEF RequestExceptionHandler
    <2> QED BY <1>6, <2>2, CancellerValues DEF RequestExceptionHandler, WorkStep
  <1>7. CASE ProvisionNetbird(u, o)
    BY <1>7 DEF ProvisionNetbird, WorkStep
  <1>8. CASE MarkSandboxAsReady(u, o)
    BY <1>8 DEF MarkSandboxAsReady, WorkStep
  <1>9. CASE DecrementPoolSize(u, o)
    BY <1>9 DEF DecrementPoolSize, WorkStep
  <1>10. CASE DeleteAllocationUnit(u, o)
    BY <1>10 DEF DeleteAllocationUnit, WorkStep
  <1> QED BY <1>1, <1>2, <1>3, <1>4, <1>5, <1>6, <1>7, <1>8, <1>9, <1>10 DEF Execution

LEMMA BornNext == TypeOK /\ Born /\ [Next]_vars => Born'
  <1> SUFFICES ASSUME TypeOK, Born, [Next]_vars PROVE Born'
    OBVIOUS
  <1>1. ASSUME NEW u \in Units, NEW o \in Ops, CrashOrchestration(u, o) PROVE Born'
    <2>1. op[u][o].pc # "idle" /\ SetPc(u, o, "failed") /\ UNCHANGED <<job, work, left>>
      BY <1>1 DEF CrashOrchestration, FailOrchestration
    <2>2. Frame(u)
      BY <2>1, PcFrame, PcValues DEF Frame
    <2> QED BY <2>1, <2>2, BornStep DEF Asleep
  <1>2. ASSUME NEW u \in Units, NEW o \in Ops, Execution(u, o) \/ Crash(u, o) PROVE Born'
    BY <1>1, <1>2, WorkSteps, BornWorkStep DEF Crash
  <1>3. CASE UNCHANGED vars
    BY <1>3, BornUnchanged DEF vars
  <1> QED BY <1>2, <1>3, BornWeb, BornWebContinues, BornOrchestration, BornCancelStage DEF Next

\* The units that Pool.size has to count.
Counted == {u \in units : ~CountedOut(u)}

LEMMA CountedFinite ==
  ASSUME TypeOK PROVE IsFiniteSet(Counted) /\ Cardinality(Counted) \in Nat
  <1>1. Counted \in SUBSET Units
    BY DEF TypeOK, Counted
  <1>2. IsFiniteSet(Counted)
    BY <1>1, FS_Subset, ConstantsAssumption
  <1> QED BY <1>2, FS_CardinalityType

\* A step that changes no size and counts no unit out.
LEMMA SizeKept ==
  ASSUME TypeOK, TypeOK', PoolSizeNeverOvercounts, size' = size, Counted \subseteq Counted'
  PROVE  PoolSizeNeverOvercounts'
  <1>1. IsFiniteSet(Counted') /\ Cardinality(Counted') \in Nat
    <2>1. Counted' \in SUBSET Units
      BY DEF TypeOK, Counted
    <2>2. IsFiniteSet(Counted')
      BY <2>1, FS_Subset, ConstantsAssumption
    <2> QED BY <2>2, FS_CardinalityType
  <1>2. Cardinality(Counted) <= Cardinality(Counted') /\ Cardinality(Counted) \in Nat
    BY <1>1, CountedFinite, FS_Subset
  <1>3. size <= Cardinality(Counted)
    BY DEF PoolSizeNeverOvercounts, Counted
  <1>4. size' <= Cardinality(Counted')
    BY <1>1, <1>2, <1>3 DEF TypeOK
  <1> QED BY <1>4 DEF PoolSizeNeverOvercounts, Counted

\* Only the first transaction of a finalizer counts a unit out.
LEMMA CountedKept ==
  ASSUME TypeOK, TypeOK', NEW u \in Units, NEW o \in Ops, NEW j \in Jobs,
         NEW w \in WorkState \ {"decremented"}, SetWork(u, o, j, w),
         units' = units \/ (units' = units \ {u} /\ CountedOut(u))
  PROVE  Counted \subseteq Counted'
  <1> SUFFICES ASSUME NEW v \in units, ~CountedOut(v), CountedOut(v)' PROVE FALSE
    <2>1. \A v \in units : ~CountedOut(v) => v \in units'
      OBVIOUS
    <2> QED BY <2>1 DEF Counted
  <1>1. PICK i \in Ops : work'[v][i]["final"] = "decremented"
    BY DEF CountedOut
  <1>2. v \in Units
    BY DEF TypeOK
  <1>3. work[v][i]["final"] = "decremented"
    BY <1>1, <1>2, WorkFrame, KindValues
  <1> QED BY <1>3 DEF CountedOut

LEMMA SizeExecution ==
  ASSUME TypeOK, TypeOK', PoolSizeNeverOvercounts, NEW u \in Units, NEW o \in Ops,
         Execution(u, o) \/ \E j \in Jobs : CrashJob(u, o, j)
  PROVE  PoolSizeNeverOvercounts'
  <1> USE KindValues, StatusValues
  <1>1. ASSUME NEW j \in Jobs, NEW w \in WorkState \ {"decremented"}, SetWork(u, o, j, w),
               size' = size,
               units' = units \/ (units' = units \ {u} /\ CountedOut(u))
        PROVE  PoolSizeNeverOvercounts'
    BY <1>1, CountedKept, SizeKept
  <1>2. ASSUME NEW j \in Jobs, TakeJob(u, o, j) \/ CrashJob(u, o, j)
        PROVE  PoolSizeNeverOvercounts'
    BY <1>1, <1>2 DEF TakeJob, CrashJob
  <1>3. ASSUME NEW k \in Kinds,
               \/ ExecuteStart(u, o, k) \/ ExecuteEnd(u, o, k)
               \/ ExecuteFail(u, o, k)  \/ RequestExceptionHandler(u, o, k)
        PROVE  PoolSizeNeverOvercounts'
    <2>1. size' = size /\ units' = units
      BY <1>3 DEF ExecuteStart, ExecuteEnd, ExecuteFail, RequestExceptionHandler
    <2>2. \E w \in {"busy", "ended", "succeeded", "exc"} : SetWork(u, o, k, w)
      BY <1>3 DEF ExecuteStart, ExecuteEnd, ExecuteFail, RequestExceptionHandler
    <2> QED BY <1>1, <2>1, <2>2
  <1>4. CASE ProvisionNetbird(u, o)
    BY <1>1, <1>4 DEF ProvisionNetbird
  <1>5. CASE MarkSandboxAsReady(u, o)
    <2>1. SetWork(u, o, "final", "succeeded") \/ SetWork(u, o, "final", "ended")
      BY <1>5 DEF MarkSandboxAsReady
    <2> QED BY <1>1, <1>5, <2>1 DEF MarkSandboxAsReady
  <1>6. CASE DecrementPoolSize(u, o)
    <2>1. CASE size > 0
      <3>1. size' = size - 1 /\ units' = units /\ SetWork(u, o, "final", "decremented")
        BY <1>6, <2>1 DEF DecrementPoolSize
      <3>2. Counted \ {u} \subseteq Counted'
        <4> SUFFICES ASSUME NEW v \in units, v # u, ~CountedOut(v), CountedOut(v)'
                     PROVE  FALSE
          BY <3>1 DEF Counted
        <4>1. v \in Units
          BY DEF TypeOK
        <4>2. work'[v] = work[v]
          BY <3>1, <4>1, WorkFrame
        <4> QED BY <4>2 DEF CountedOut
      <3>3. IsFiniteSet(Counted') /\ Cardinality(Counted') \in Nat
        <4>1. Counted' \in SUBSET Units
          BY DEF TypeOK, Counted
        <4>2. IsFiniteSet(Counted')
          BY <4>1, FS_Subset, ConstantsAssumption
        <4> QED BY <4>2, FS_CardinalityType
      <3>4. IsFiniteSet(Counted) /\ Cardinality(Counted) \in Nat
        BY CountedFinite
      <3>5. Cardinality(Counted) - 1 <= Cardinality(Counted \ {u})
        BY <3>4, FS_RemoveElement
      <3>6. /\ Cardinality(Counted \ {u}) <= Cardinality(Counted')
            /\ Cardinality(Counted \ {u}) \in Nat
        BY <3>2, <3>3, <3>4, FS_Subset, FS_RemoveElement, FS_CardinalityType
      <3>7. size <= Cardinality(Counted)
        BY DEF PoolSizeNeverOvercounts, Counted
      <3>8. size \in Nat
        BY DEF TypeOK
      <3>9. size' <= Cardinality(Counted')
        BY <3>1, <3>3, <3>4, <3>5, <3>6, <3>7, <3>8
      <3> QED BY <3>9 DEF PoolSizeNeverOvercounts, Counted
    <2>2. CASE ~(size > 0)
      BY <1>1, <1>6, <2>2 DEF DecrementPoolSize
    <2> QED BY <2>1, <2>2
  <1>7. CASE DeleteAllocationUnit(u, o)
    <2>1. CountedOut(u)
      BY <1>7 DEF DeleteAllocationUnit, CountedOut
    <2>2. size' = size /\ (units' = units \/ units' = units \ {u})
      BY <1>7 DEF DeleteAllocationUnit
    <2>3. \E w \in {"ended", "succeeded"} : SetWork(u, o, "final", w)
      BY <1>7 DEF DeleteAllocationUnit
    <2> QED BY <1>1, <2>1, <2>2, <2>3
  <1> QED BY <1>2, <1>3, <1>4, <1>5, <1>6, <1>7 DEF Execution

\* A created unit is counted at once: no finalizer of it can have counted it out.
LEMMA SizeCreate ==
  ASSUME TypeOK, TypeOK', Born, PoolSizeNeverOvercounts,
         NEW u \in Units, CreateAllocationsRequests(u)
  PROVE  PoolSizeNeverOvercounts'
  <1>1. /\ units' = units \union {u} /\ u \notin units
        /\ size' = size + 1 /\ work' = work /\ op[u][1].pc = "idle"
    BY DEF CreateAllocationsRequests
  <1>2. ~CountedOut(u)
    BY <1>1, KindValues DEF Born, Asleep, CountedOut
  <1>3. Counted' = Counted \union {u}
    <2>1. \A v : CountedOut(v)' <=> CountedOut(v)
      BY <1>1 DEF CountedOut
    <2> QED BY <1>1, <1>2, <2>1 DEF Counted
  <1>4. u \notin Counted
    BY <1>1 DEF Counted
  <1>5. IsFiniteSet(Counted) /\ Cardinality(Counted) \in Nat
    BY CountedFinite
  <1>6. Cardinality(Counted') = Cardinality(Counted) + 1
    BY <1>3, <1>4, <1>5, FS_AddElement
  <1>7. size <= Cardinality(Counted) /\ size \in Nat
    BY DEF PoolSizeNeverOvercounts, Counted, TypeOK
  <1>8. size' <= Cardinality(Counted')
    BY <1>1, <1>5, <1>6, <1>7
  <1> QED BY <1>8 DEF PoolSizeNeverOvercounts, Counted

\* Pool.size never exceeds the number of units that no finalizer has counted out:
\* no interleaving of the requests, jobs, finalizers and crashes of the units makes
\* the pool lose capacity, for any number of units and operations.
THEOREM PoolSizeCorrect == Spec => []PoolSizeNeverOvercounts
  <1>1. Init => Born /\ PoolSizeNeverOvercounts
    <2> SUFFICES ASSUME Init PROVE Born /\ PoolSizeNeverOvercounts
      OBVIOUS
    <2>1. Born
      BY DEF Init, Born, Asleep, NoOp
    <2>2. {u \in units : ~CountedOut(u)} = {}
      BY DEF Init
    <2>3. size = 0
      BY DEF Init
    <2> QED BY <2>1, <2>2, <2>3, FS_EmptySet DEF PoolSizeNeverOvercounts
  <1>2. ASSUME TypeOK, TypeOK', Born, PoolSizeNeverOvercounts, [Next]_vars
        PROVE  PoolSizeNeverOvercounts'
    <2>1. CASE UNCHANGED <<units, size, work>>
      BY <1>2, <2>1 DEF PoolSizeNeverOvercounts, CountedOut
    <2>2. ASSUME NEW u \in Units, CreateAllocationsRequests(u) PROVE PoolSizeNeverOvercounts'
      BY <1>2, <2>2, SizeCreate
    <2>3. ASSUME NEW u \in Units, WebRequest(u), ~CreateAllocationsRequests(u)
          PROVE  UNCHANGED <<units, size, work>>
      BY <2>3 DEF WebRequest, DeleteCleanupRequest, LockSandbox, UnlockSandbox, RestartRequest,
         CancelAllocationRequest, CancelCleanupRequest, CancelRequest, CreateCleanupRequest,
         CreateCleanupRequestForce
    <2>4. ASSUME NEW u \in Units, NEW o \in Ops, WebContinues(u, o)
          PROVE  UNCHANGED <<units, size, work>>
      BY <2>4 DEF WebContinues, CancelDone, DeleteSandbox
    <2>5. ASSUME NEW u \in Units, NEW o \in Ops, Orchestration(u, o)
          PROVE  UNCHANGED <<units, size, work>>
      BY <2>5 DEF Orchestration, CreateAllocationJobs, ReplaceSandbox, RestartStageHandlers,
         CreateCleanupJobs, EnqueueStage, SetJobId, EnqueueFinalizer, FailOrchestration
    <2>6. ASSUME NEW u \in Units, NEW c \in Cancellers, CancelStage(u, c)
          PROVE  UNCHANGED <<units, size, work>>
      BY <2>6 DEF CancelStage
    <2>7. ASSUME NEW u \in Units, NEW o \in Ops, CrashOrchestration(u, o)
          PROVE  UNCHANGED <<units, size, work>>
      BY <2>7 DEF CrashOrchestration, FailOrchestration
    <2>8. ASSUME NEW u \in Units, NEW o \in Ops,
                 Execution(u, o) \/ \E j \in Jobs : CrashJob(u, o, j)
          PROVE  PoolSizeNeverOvercounts'
      BY <1>2, <2>8, SizeExecution
    <2>9. CASE UNCHANGED vars
      BY <2>1, <2>9 DEF vars
    <2> QED BY <1>2, <2>1, <2>2, <2>3, <2>4, <2>5, <2>6, <2>7, <2>8, <2>9 DEF Next, Crash
  <1> QED BY <1>1, <1>2, TypeCorrect, BornNext, PTL DEF Spec

-----------------------------------------------------------------------------
(* What a step does to an operation and to the jobs of its chain.  Operations *)
(* do not touch the chains of each other, except that a cancellation deletes  *)
(* jobs: every property of single chains is proved from these shapes.         *)

\* A web request that has stages to cancel is cancelling them.
Cancelling ==
  \A u \in Units, o \in Ops : left[u][<<o, "web">>] # {} => op[u][o].pc = "cancel"

\* A chain, or its jobs only, is as it was.
SameJobs(u, o) == job'[u][o] = job[u][o] /\ work'[u][o] = work[u][o]
SameChain(u, o) == op'[u][o] = op[u][o] /\ SameJobs(u, o)

\* The operation stays the same request.
KeepsPlan(u, o) ==
  /\ op'[u][o].kind = op[u][o].kind /\ op'[u][o].plan = op[u][o].plan
  /\ op'[u][o].req = op[u][o].req /\ op'[u][o].sb = op[u][o].sb

Goes(u, o, pc) ==
  op'[u][o].pc = pc /\ op'[u][o].todo = op[u][o].todo /\ KeepsPlan(u, o)

\* A request is recorded.
IsAsked(u, o) ==
  /\ op[u][o].pc = "idle" /\ op'[u][o].pc \in {"queued", "cancel", "delete", "failed"}
  /\ op'[u][o].plan = {} /\ op'[u][o].todo = {}
  /\ o = 1 => op'[u][o].kind = "create" /\ op'[u][o].pc = "queued"
  /\ o # 1 => op'[u][o].kind # "create"
  /\ SameJobs(u, o)

MovesOn(u, o) ==
  /\ \/ op[u][o].pc = "cancel" /\ \E pc \in {"delete", "done", "failed"} : Goes(u, o, pc)
     \/ op[u][o].pc = "delete" /\ \E pc \in {"queued", "failed"} : Goes(u, o, pc)
     \/ op[u][o].pc = "queued" /\ op[u][o].kind = "restart" /\ sandbox[u] # 0
          /\ Turn(u) /\ Goes(u, o, "restage")
     \/ op[u][o].pc \in {"queued", "restage", "enqueue", "setid"} /\ Goes(u, o, "failed")
  /\ SameJobs(u, o)

Chains(u, o) ==
  {S \in SUBSET Kinds :
     \/ op[u][o].kind = "create" /\ op[u][o].pc = "queued" /\ S = AllocKinds
     \/ op[u][o].kind = "restart" /\ op[u][o].pc = "restage" /\ "user" \in S /\ S \subseteq AllocKinds
     \/ op[u][o].kind \in {"cleanup", "force"} /\ op[u][o].pc = "queued" /\ S = CleanupKinds}

IsStarted(u, o) ==
  /\ Turn(u) \/ op[u][o].pc = "restage"
  /\ \E S \in Chains(u, o) :
       /\ op'[u][o].pc = "enqueue" /\ op'[u][o].plan = S /\ op'[u][o].todo = S
       /\ op'[u][o].kind = op[u][o].kind
       /\ \A k \in S : row'[u][k] = NewRow(o)
       /\ IF Netbird /\ S \subseteq AllocKinds
            THEN job'[u][o] = [job[u][o] EXCEPT !["netbird"] = "queued"]
            ELSE job'[u][o] = job[u][o]
  /\ work'[u][o] = work[u][o]

IsEnqueued(u, o) ==
  /\ op[u][o].pc = "enqueue" /\ Goes(u, o, "setid")
  /\ \E k \in First(op[u][o].todo) : job'[u][o] = EnqueuedJob(job[u][o], Deps(u, o), k)
  /\ work'[u][o] = work[u][o]

IsTied(u, o) ==
  /\ op[u][o].pc = "setid" /\ op'[u][o].pc = "enqueue" /\ KeepsPlan(u, o)
  /\ \E k \in First(op[u][o].todo) : op'[u][o].todo = op[u][o].todo \ {k} /\ row'[u][k].rq
  /\ SameJobs(u, o)

IsClosed(u, o) ==
  /\ op[u][o].pc = "enqueue" /\ op[u][o].todo = {} /\ Goes(u, o, "done")
  /\ job'[u][o] = EnqueuedJob(job[u][o], Deps(u, o), "final")
  /\ work'[u][o] = work[u][o]

\* A job is with a worker; finalizers begin and end in one step, or in two.
AtWork(u, o, j) ==
  \/ work[u][o][j] \in {"picked", "busy", "decremented"}
  \/ j = "final" /\ job[u][o][j] = "queued"

\* The work on job j, or its status, becomes what is given.
Sets(u, o, j, w) == work'[u][o] = [work[u][o] EXCEPT ![j] = w]
Marks(u, o, j, st) == job'[u][o] = [job[u][o] EXCEPT ![j] = st]

Takes(u, o, j) ==
  /\ Turn(u) /\ j # "final" /\ job[u][o][j] = "queued"
  /\ Marks(u, o, j, "started") /\ Sets(u, o, j, "picked")

EndsWell(u, o, j) ==
  /\ Turn(u) /\ AtWork(u, o, j)
  /\ job'[u][o] = FinishedJob(job[u][o], Deps(u, o), j)
  /\ Sets(u, o, j, "succeeded")

EndsBadly(u, o, j) ==
  /\ Turn(u) \/ work[u][o][j] # "idle"
  /\ AtWork(u, o, j)
  /\ Marks(u, o, j, "failed")
  /\ \E w \in {"ended", "exc", "dead"} : Sets(u, o, j, w)

CountsOut(u, o, j) ==
  /\ Turn(u) /\ j = "final" /\ job[u][o][j] = "queued" /\ op[u][o].plan \subseteq CleanupKinds
  /\ Marks(u, o, j, "started") /\ Sets(u, o, j, "decremented")

Proceeds(u, o, j) ==
  /\ Turn(u) /\ job'[u][o] = job[u][o]
  /\ \/ work[u][o][j] = "picked" /\ Sets(u, o, j, "busy")
     \/ work[u][o][j] = "exc" /\ Sets(u, o, j, "ended")

Works(u, o) ==
  /\ op'[u][o] = op[u][o]
  /\ \E j \in Jobs : \/ Takes(u, o, j) \/ EndsWell(u, o, j) \/ EndsBadly(u, o, j)
                     \/ CountsOut(u, o, j) \/ Proceeds(u, o, j)

LosesJob(u, o) ==
  /\ Turn(u) /\ op'[u][o] = op[u][o] /\ work'[u][o] = work[u][o]
  /\ \E k \in Kinds, c \in Cancellers :
       /\ <<k, o>> \in left[u][c] /\ row[u][k].run = o /\ row[u][k].rq
       /\ \A t \in left[u][c] : Rank[t[1]] <= Rank[k]
       /\ job'[u][o] = DeletedJob(job[u][o], Deps(u, o), k)

ChainStep(u, o) ==
  \/ SameChain(u, o) \/ IsAsked(u, o) \/ MovesOn(u, o) \/ IsStarted(u, o) \/ IsEnqueued(u, o)
  \/ IsTied(u, o) \/ IsClosed(u, o) \/ Works(u, o) \/ LosesJob(u, o)

\* The steps that are on behalf of one operation.
Elsewhere(u, o) == \A v \in Units, p \in Ops : v # u \/ p # o => SameChain(v, p)

\* Whatever happens, at most one chain is touched.
OneChain == \E u \in Units, o \in Ops : ChainStep(u, o) /\ Elsewhere(u, o)

-----------------------------------------------------------------------------
\* An update of one operation changes that operation only; so for its pc, its jobs,
\* their work and what its cancellers have left.
LEMMA OpAt ==
  ASSUME TypeOK, NEW u \in Units, NEW o \in Ops, NEW r, op' = [op EXCEPT ![u][o] = r]
  PROVE  /\ op'[u][o] = r
         /\ \A v \in Units, p \in Ops : v # u \/ p # o => op'[v][p] = op[v][p]
  BY DEF TypeOK

LEMMA PcAt ==
  ASSUME TypeOK, NEW u \in Units, NEW o \in Ops, NEW pc, SetPc(u, o, pc)
  PROVE  /\ Goes(u, o, pc)
         /\ \A v \in Units, p \in Ops : v # u \/ p # o => op'[v][p] = op[v][p]
<1> DEFINE r == [op[u][o] EXCEPT !.pc = pc]
<1>1. op[u][o] \in Op
  BY DEF TypeOK
<1>2. /\ r.pc = pc /\ r.kind = op[u][o].kind /\ r.plan = op[u][o].plan /\ r.todo = op[u][o].todo
      /\ r.req = op[u][o].req /\ r.sb = op[u][o].sb
  BY <1>1 DEF Op
<1>3. op' = [op EXCEPT ![u][o] = r]
  BY DEF SetPc
<1> HIDE DEF r
<1>4. op'[u][o] = r
  BY <1>3 DEF TypeOK
<1>5. \A v \in Units, p \in Ops : v # u \/ p # o => op'[v][p] = op[v][p]
  BY <1>3 DEF TypeOK
<1> QED BY <1>2, <1>4, <1>5 DEF Goes, KeepsPlan

LEMMA JobAt ==
  ASSUME TypeOK, NEW u \in Units, NEW o \in Ops, NEW r, job' = [job EXCEPT ![u][o] = r]
  PROVE  /\ job'[u][o] = r
         /\ \A v \in Units, p \in Ops : v # u \/ p # o => job'[v][p] = job[v][p]
  BY DEF TypeOK

LEMMA StatusAt ==
  ASSUME TypeOK, NEW u \in Units, NEW o \in Ops, NEW j \in Jobs, NEW st, SetJob(u, o, j, st)
  PROVE  /\ Marks(u, o, j, st)
         /\ \A v \in Units, p \in Ops : v # u \/ p # o => job'[v][p] = job[v][p]
  BY DEF SetJob, Marks, TypeOK

LEMMA SucceedAt ==
  ASSUME TypeOK, NEW u \in Units, NEW o \in Ops, NEW j \in Jobs, Succeed(u, o, j)
  PROVE  /\ job'[u][o] = FinishedJob(job[u][o], Deps(u, o), j)
         /\ \A v \in Units, p \in Ops : v # u \/ p # o => job'[v][p] = job[v][p]
  BY DEF Succeed, TypeOK

LEMMA WorkAt ==
  ASSUME TypeOK, NEW u \in Units, NEW o \in Ops, NEW j \in Jobs, NEW w, SetWork(u, o, j, w)
  PROVE  /\ Sets(u, o, j, w)
         /\ \A v \in Units, p \in Ops : v # u \/ p # o => work'[v][p] = work[v][p]
  BY DEF SetWork, Sets, TypeOK

LEMMA LeftAt ==
  ASSUME TypeOK, NEW u \in Units, NEW c \in Cancellers, NEW S, left' = [left EXCEPT ![u][c] = S]
  PROVE  /\ left'[u][c] = S
         /\ \A v \in Units, d \in Cancellers : v # u \/ d # c => left'[v][d] = left[v][d]
  BY DEF TypeOK

\* The rest of the units and operations is as it was.
LEMMA ChainsElsewhere ==
  ASSUME NEW u \in Units, NEW o \in Ops, Elsewhere(u, o), ChainStep(u, o)
  PROVE  OneChain
  BY DEF OneChain

\* A step that leaves every chain as it is.
LEMMA ChainsUnchanged ==
  ASSUME NEW u \in Units, UNCHANGED <<op, job, work>>
  PROVE  OneChain
  BY OneIsAnOp DEF OneChain, Elsewhere, ChainStep, SameChain, SameJobs

\* A web request that records an operation.
LEMMA AskedChain ==
  ASSUME TypeOK, NEW u \in Units, NEW o \in Ops, NEW r, op' = [op EXCEPT ![u][o] = r],
         op[u][o].pc = "idle", r.pc \in {"queued", "cancel", "delete", "failed"},
         r.plan = {}, r.todo = {},
         o = 1 => r.kind = "create" /\ r.pc = "queued",
         o # 1 => r.kind # "create",
         UNCHANGED <<job, work>>
  PROVE  IsAsked(u, o) /\ Elsewhere(u, o)
<1>1. op'[u][o] = r
  BY DEF TypeOK
<1>2. \A v \in Units, p \in Ops : v # u \/ p # o => op'[v][p] = op[v][p]
  BY DEF TypeOK
<1> QED BY <1>1, <1>2 DEF IsAsked, Elsewhere, SameChain, SameJobs

\* The shapes of the actions, one lemma for each of their groups.
LEMMA ChainWeb ==
  ASSUME TypeOK, NEW u \in Units, WebRequest(u)
  PROVE  OneChain
<1>1. CASE CreateAllocationsRequests(u)
  <2> DEFINE r == [NoOp EXCEPT !.kind = "create", !.pc = "queued"]
  <2>1. r.pc = "queued" /\ r.plan = {} /\ r.todo = {} /\ r.kind = "create"
    BY DEF NoOp
  <2>2. op' = [op EXCEPT ![u][1] = r] /\ UNCHANGED <<job, work>> /\ op[u][1].pc = "idle"
    BY <1>1 DEF CreateAllocationsRequests
  <2> HIDE DEF r
  <2>3. IsAsked(u, 1) /\ Elsewhere(u, 1)
    BY <2>1, <2>2, OneIsAnOp, AskedChain
  <2> QED BY <2>3, OneIsAnOp, ChainsElsewhere DEF ChainStep
<1>2. CASE DeleteCleanupRequest(u) \/ LockSandbox(u) \/ UnlockSandbox(u)
  BY <1>2, ChainsUnchanged DEF DeleteCleanupRequest, LockSandbox, UnlockSandbox
<1>3. ASSUME NEW o \in Ops, NEW kind, Asks(u, o, kind), kind # "create", NEW r, r.kind = kind,
             op' = [op EXCEPT ![u][o] = r], r.pc \in {"queued", "cancel", "delete", "failed"},
             r.plan = {}, r.todo = {}, UNCHANGED <<job, work>>
      PROVE  OneChain
  <2>1. op[u][o].pc = "idle" /\ o # 1
    BY <1>3, ConstantsAssumption DEF Asks, Ops
  <2>2. IsAsked(u, o) /\ Elsewhere(u, o)
    BY <1>3, <2>1, AskedChain
  <2> QED BY <2>2, ChainsElsewhere DEF ChainStep
<1>4. ASSUME NEW o \in Ops, RestartRequest(u, o)
      PROVE  OneChain
  <2> DEFINE r == [NoOp EXCEPT !.kind = "restart", !.pc = "queued"]
  <2>1. r.pc = "queued" /\ r.plan = {} /\ r.todo = {} /\ r.kind = "restart"
    BY DEF NoOp
  <2>2. op' = [op EXCEPT ![u][o] = r] /\ UNCHANGED <<job, work>> /\ Asks(u, o, "restart")
    BY <1>4 DEF RestartRequest
  <2> HIDE DEF r
  <2> QED BY <1>3, <2>1, <2>2
<1>5. ASSUME NEW o \in Ops, NEW kind \in {"cancel", "ccancel"}, NEW S, CancelRequest(u, o, kind, S)
      PROVE  OneChain
  <2> DEFINE r == [NoOp EXCEPT !.kind = kind, !.pc = "cancel"]
  <2>1. r.pc = "cancel" /\ r.plan = {} /\ r.todo = {} /\ r.kind = kind
    BY DEF NoOp
  <2>2. op' = [op EXCEPT ![u][o] = r] /\ UNCHANGED <<job, work>> /\ Asks(u, o, kind)
    BY <1>5 DEF CancelRequest
  <2> HIDE DEF r
  <2> QED BY <1>3, <2>1, <2>2
<1>6. ASSUME NEW o \in Ops, CreateCleanupRequest(u, o)
      PROVE  OneChain
  <2> DEFINE r == [NoOp EXCEPT !.kind = "cleanup", !.pc = "delete", !.sb = sandbox[u]]
  <2>1. r.pc = "delete" /\ r.plan = {} /\ r.todo = {} /\ r.kind = "cleanup"
    BY DEF NoOp
  <2>2. op' = [op EXCEPT ![u][o] = r] /\ UNCHANGED <<job, work>> /\ Asks(u, o, "cleanup")
    BY <1>6 DEF CreateCleanupRequest
  <2> HIDE DEF r
  <2> QED BY <1>3, <2>1, <2>2
<1>7. ASSUME NEW o \in Ops, CreateCleanupRequestForce(u, o)
      PROVE  OneChain
  <2> DEFINE pc == IF IsFinished(u, AllocKinds) THEN "delete" ELSE "cancel"
             refused == [NoOp EXCEPT !.kind = "force", !.pc = "failed"]
             accepted == [NoOp EXCEPT !.kind = "force", !.sb = sandbox[u], !.req = creq[u],
                                      !.pc = pc]
  <2>1. /\ refused.pc = "failed" /\ refused.plan = {} /\ refused.todo = {} /\ refused.kind = "force"
        /\ accepted.pc \in {"delete", "cancel"} /\ accepted.plan = {} /\ accepted.todo = {}
        /\ accepted.kind = "force"
    BY DEF NoOp
  <2>2. op' = [op EXCEPT ![u][o] = refused] \/ op' = [op EXCEPT ![u][o] = accepted]
    BY <1>7 DEF CreateCleanupRequestForce
  <2>3. UNCHANGED <<job, work>> /\ Asks(u, o, "force")
    BY <1>7 DEF CreateCleanupRequestForce
  <2> HIDE DEF refused, accepted
  <2> QED BY <1>3, <2>1, <2>2, <2>3
<1> QED BY <1>1, <1>2, <1>4, <1>5, <1>6, <1>7
     DEF WebRequest, CancelAllocationRequest, CancelCleanupRequest

LEMMA ChainContinues ==
  ASSUME TypeOK, NEW u \in Units, NEW o \in Ops, WebContinues(u, o)
  PROVE  OneChain
<1>1. UNCHANGED <<job, work>>
  BY DEF WebContinues, CancelDone, DeleteSandbox
<1>2. \/ op[u][o].pc = "cancel" /\ \E pc \in {"delete", "done"} : SetPc(u, o, pc)
      \/ op[u][o].pc = "delete" /\ \E pc \in {"queued", "failed"} : SetPc(u, o, pc)
  BY DEF WebContinues, CancelDone, DeleteSandbox
<1>3. MovesOn(u, o) /\ Elsewhere(u, o)
  BY <1>1, <1>2, PcAt DEF MovesOn, SameJobs, Elsewhere, SameChain
<1> QED BY <1>3, ChainsElsewhere DEF ChainStep

\* An operation that fails while it is enqueued, and one that starts its chain.
LEMMA FailsChain ==
  ASSUME TypeOK, NEW u \in Units, NEW o \in Ops, FailOrchestration(u, o),
         op[u][o].pc \in {"queued", "restage", "enqueue", "setid"}
  PROVE  OneChain
<1>1. SetPc(u, o, "failed") /\ UNCHANGED <<job, work>>
  BY DEF FailOrchestration
<1>2. MovesOn(u, o) /\ Elsewhere(u, o)
  BY <1>1, PcAt DEF MovesOn, SameJobs, Elsewhere, SameChain
<1> QED BY <1>2, ChainsElsewhere DEF ChainStep

LEMMA StartedChain ==
  ASSUME TypeOK, NEW u \in Units, NEW o \in Ops, NEW S \in Chains(u, o), StartChain(u, o, S), Restage(u, o, S),
         Turn(u) \/ op[u][o].pc = "restage", work' = work
  PROVE  OneChain
<1> DEFINE r == [op[u][o] EXCEPT !.pc = "enqueue", !.plan = S, !.todo = S]
           js == [job[u][o] EXCEPT !["netbird"] = "queued"]
<1>1. r.pc = "enqueue" /\ r.plan = S /\ r.todo = S /\ r.kind = op[u][o].kind
  <2>1. op[u][o] \in Op
    BY DEF TypeOK
  <2> QED BY <2>1 DEF Op
<1>2. op' = [op EXCEPT ![u][o] = r]
  BY DEF StartChain
<1>3. EnqueuedJob(job[u][o], Deps(u, o), "netbird") = js
  <2>1. Deps(u, o)["netbird"] = {}
    BY KindValues DEF Deps
  <2> QED BY <2>1 DEF EnqueuedJob
<1>4. IF Netbird /\ S \subseteq AllocKinds THEN job' = [job EXCEPT ![u][o] = js] ELSE job' = job
  BY <1>3 DEF StartChain
<1>5. js = [job[u][o] EXCEPT !["netbird"] = "queued"]
  OBVIOUS
<1> HIDE DEF r, js
<1>6. /\ op'[u][o] = r
      /\ \A v \in Units, p \in Ops : v # u \/ p # o => op'[v][p] = op[v][p]
  BY <1>2 DEF TypeOK
<1>7. /\ IF Netbird /\ S \subseteq AllocKinds THEN job'[u][o] = js ELSE job'[u][o] = job[u][o]
      /\ \A v \in Units, p \in Ops : v # u \/ p # o => job'[v][p] = job[v][p]
  BY <1>4 DEF TypeOK
<1>10. \A k \in S : row'[u][k] = NewRow(o)
  <2>1. S \subseteq Kinds
    BY DEF Chains
  <2> QED BY <2>1 DEF Restage, TypeOK
<1>8. IsStarted(u, o)
  BY <1>1, <1>10, <1>5, <1>6, <1>7 DEF IsStarted
<1>9. Elsewhere(u, o)
  BY <1>6, <1>7 DEF Elsewhere, SameChain, SameJobs
<1> QED BY <1>8, <1>9, ChainsElsewhere DEF ChainStep

LEMMA ChainOrchestration ==
  ASSUME TypeOK, NEW u \in Units, NEW o \in Ops, Orchestration(u, o)
  PROVE  OneChain
<1> USE DEF Orchestrates
<1>1. CASE CreateAllocationJobs(u, o)
  <2>1. AllocKinds \in Chains(u, o)
    BY <1>1, KindValues DEF CreateAllocationJobs, Chains
  <2> QED BY <1>1, <2>1, StartedChain DEF CreateAllocationJobs
<1>2. CASE ReplaceSandbox(u, o)
  <2>1. FailOrchestration(u, o) \/
        (sandbox[u] # 0 /\ SetPc(u, o, "restage") /\ UNCHANGED <<job, work>>)
    BY <1>2 DEF ReplaceSandbox
  <2>2. CASE sandbox[u] # 0 /\ SetPc(u, o, "restage") /\ UNCHANGED <<job, work>>
    <3>1. Goes(u, o, "restage") /\ Elsewhere(u, o)
      BY <2>2, PcAt DEF Elsewhere, SameChain, SameJobs
    <3>2. MovesOn(u, o)
      BY <1>2, <2>2, <3>1 DEF ReplaceSandbox, MovesOn, SameJobs
    <3> QED BY <3>1, <3>2, ChainsElsewhere DEF ChainStep
  <2> QED BY <1>2, <2>1, <2>2, FailsChain DEF ReplaceSandbox
<1>3. CASE RestartStageHandlers(u, o)
  <2>1. FailOrchestration(u, o) \/ (StartChain(u, o, FailedStages(u)) /\ Restage(u, o, FailedStages(u)) /\ work' = work)
    BY <1>3 DEF RestartStageHandlers
  <2>2. FailedStages(u) \in Chains(u, o)
    BY <1>3 DEF RestartStageHandlers, Chains, FailedStages, Kinds, AllocKinds
  <2> QED BY <1>3, <2>1, <2>2, FailsChain, StartedChain DEF RestartStageHandlers
<1>4. CASE CreateCleanupJobs(u, o)
  <2>1. FailOrchestration(u, o) \/ (StartChain(u, o, CleanupKinds) /\ Restage(u, o, CleanupKinds) /\ work' = work)
    BY <1>4 DEF CreateCleanupJobs
  <2>2. CleanupKinds \in Chains(u, o)
    BY <1>4, KindValues DEF CreateCleanupJobs, Chains
  <2> QED BY <1>4, <2>1, <2>2, FailsChain, StartedChain DEF CreateCleanupJobs
<1>5. CASE EnqueueStage(u, o)
  <2>1. PICK k \in First(op[u][o].todo) :
          job' = [job EXCEPT ![u][o] = EnqueuedJob(@, Deps(u, o), k)]
    BY <1>5 DEF EnqueueStage
  <2>2. op[u][o].pc = "enqueue" /\ SetPc(u, o, "setid") /\ work' = work
    BY <1>5 DEF EnqueueStage
  <2> DEFINE js == EnqueuedJob(job[u][o], Deps(u, o), k)
  <2>3. job' = [job EXCEPT ![u][o] = js] /\ js = EnqueuedJob(job[u][o], Deps(u, o), k)
    BY <2>1
  <2> HIDE DEF js
  <2>4. /\ job'[u][o] = js
        /\ \A v \in Units, p \in Ops : v # u \/ p # o => job'[v][p] = job[v][p]
    BY <2>3 DEF TypeOK
  <2>5. /\ Goes(u, o, "setid")
        /\ \A v \in Units, p \in Ops : v # u \/ p # o => op'[v][p] = op[v][p]
    BY <2>2, PcAt
  <2>6. IsEnqueued(u, o)
    BY <2>1, <2>2, <2>3, <2>4, <2>5 DEF IsEnqueued
  <2>7. Elsewhere(u, o)
    BY <2>2, <2>4, <2>5 DEF Elsewhere, SameChain, SameJobs
  <2> QED BY <2>6, <2>7, ChainsElsewhere DEF ChainStep
<1>6. CASE SetJobId(u, o)
  <2>1. PICK k \in First(op[u][o].todo) :
          \/ FailOrchestration(u, o)
          \/ /\ row' = [row EXCEPT ![u][k].rq = TRUE]
             /\ op' = [op EXCEPT ![u][o] =
                         [@ EXCEPT !.pc = "enqueue", !.todo = op[u][o].todo \ {k}]]
             /\ UNCHANGED <<job, work>>
    BY <1>6 DEF SetJobId
  <2> DEFINE rest == op[u][o].todo \ {k}
             r == [op[u][o] EXCEPT !.pc = "enqueue", !.todo = rest]
  <2>2. op[u][o] \in Op /\ op[u][o].pc = "setid"
    BY <1>6 DEF TypeOK, SetJobId
  <2>3. /\ r.pc = "enqueue" /\ r.todo = rest /\ r.kind = op[u][o].kind /\ r.plan = op[u][o].plan
        /\ r.req = op[u][o].req /\ r.sb = op[u][o].sb
    BY <2>2 DEF Op
  <2>4. CASE /\ row' = [row EXCEPT ![u][k].rq = TRUE]
             /\ op' = [op EXCEPT ![u][o] = r] /\ UNCHANGED <<job, work>>
    <3> HIDE DEF r
    <3>4. row'[u][k].rq
      <4>1. k \in Kinds
        BY DEF First, TypeOK, Op
      <4>2. row[u] \in [Kinds -> Row] /\ row[u][k] \in Row
        BY <4>1 DEF TypeOK
      <4>3. row'[u] = [row[u] EXCEPT ![k].rq = TRUE]
        BY <2>4 DEF TypeOK
      <4>4. row'[u][k] = [row[u][k] EXCEPT !.rq = TRUE]
        BY <4>1, <4>2, <4>3
      <4> QED BY <4>2, <4>4 DEF Row
    <3>1. /\ op'[u][o] = r
          /\ \A v \in Units, p \in Ops : v # u \/ p # o => op'[v][p] = op[v][p]
      BY <2>4 DEF TypeOK
    <3>2. IsTied(u, o)
      BY <2>2, <2>3, <2>4, <3>1, <3>4 DEF IsTied, KeepsPlan, SameJobs
    <3>3. Elsewhere(u, o)
      BY <2>4, <3>1 DEF Elsewhere, SameChain, SameJobs
    <3> QED BY <3>2, <3>3, ChainsElsewhere DEF ChainStep
  <2> QED BY <2>1, <2>2, <2>4, FailsChain
<1>7. CASE EnqueueFinalizer(u, o)
  <2>1. /\ job' = [job EXCEPT ![u][o] = EnqueuedJob(@, Deps(u, o), "final")]
        /\ op[u][o].pc = "enqueue" /\ op[u][o].todo = {} /\ SetPc(u, o, "done") /\ work' = work
    BY <1>7 DEF EnqueueFinalizer
  <2> DEFINE js == EnqueuedJob(job[u][o], Deps(u, o), "final")
  <2>2. job' = [job EXCEPT ![u][o] = js] /\ js = EnqueuedJob(job[u][o], Deps(u, o), "final")
    BY <2>1
  <2> HIDE DEF js
  <2>3. /\ job'[u][o] = js
        /\ \A v \in Units, p \in Ops : v # u \/ p # o => job'[v][p] = job[v][p]
    BY <2>2 DEF TypeOK
  <2>4. /\ Goes(u, o, "done")
        /\ \A v \in Units, p \in Ops : v # u \/ p # o => op'[v][p] = op[v][p]
    BY <2>1, PcAt
  <2>5. IsClosed(u, o)
    BY <2>1, <2>2, <2>3, <2>4 DEF IsClosed
  <2>6. Elsewhere(u, o)
    BY <2>1, <2>3, <2>4 DEF Elsewhere, SameChain, SameJobs
  <2> QED BY <2>5, <2>6, ChainsElsewhere DEF ChainStep
<1> QED BY <1>1, <1>2, <1>3, <1>4, <1>5, <1>6, <1>7 DEF Orchestration

\* A worker turns to job j of its operation.
LEMMA WorkedChain ==
  ASSUME TypeOK, NEW u \in Units, NEW o \in Ops, NEW j \in Jobs, NEW w, op' = op,
         SetWork(u, o, j, w),
         \/ /\ job' = job /\ Turn(u)
            /\ \/ work[u][o][j] = "picked" /\ w = "busy"
               \/ work[u][o][j] = "exc" /\ w = "ended"
         \/ /\ SetJob(u, o, j, "started") /\ Turn(u) /\ job[u][o][j] = "queued"
            /\ \/ j # "final" /\ w = "picked"
               \/ j = "final" /\ w = "decremented" /\ op[u][o].plan \subseteq CleanupKinds
         \/ Succeed(u, o, j) /\ Turn(u) /\ AtWork(u, o, j) /\ w = "succeeded"
         \/ /\ SetJob(u, o, j, "failed") /\ AtWork(u, o, j) /\ w \in {"ended", "exc", "dead"}
            /\ Turn(u) \/ work[u][o][j] # "idle"
  PROVE  OneChain
<1>1. /\ Sets(u, o, j, w)
      /\ \A v \in Units, p \in Ops : v # u \/ p # o => work'[v][p] = work[v][p]
  BY WorkAt
<1>2. CASE /\ job' = job /\ Turn(u)
           /\ \/ work[u][o][j] = "picked" /\ w = "busy"
              \/ work[u][o][j] = "exc" /\ w = "ended"
  <2>1. Elsewhere(u, o)
    BY <1>1, <1>2 DEF Elsewhere, SameChain, SameJobs
  <2>2. Proceeds(u, o, j)
    BY <1>1, <1>2 DEF Proceeds
  <2> QED BY <2>1, <2>2, ChainsElsewhere DEF ChainStep, Works
<1>3. CASE Succeed(u, o, j) /\ Turn(u) /\ AtWork(u, o, j) /\ w = "succeeded"
  <2>1. /\ job'[u][o] = FinishedJob(job[u][o], Deps(u, o), j)
        /\ \A v \in Units, p \in Ops : v # u \/ p # o => job'[v][p] = job[v][p]
    BY <1>3, SucceedAt
  <2>2. EndsWell(u, o, j)
    BY <1>1, <1>3, <2>1 DEF EndsWell
  <2>3. Elsewhere(u, o)
    BY <1>1, <2>1 DEF Elsewhere, SameChain, SameJobs
  <2> QED BY <2>2, <2>3, ChainsElsewhere DEF ChainStep, Works
<1>4. CASE /\ SetJob(u, o, j, "started") /\ Turn(u) /\ job[u][o][j] = "queued"
           /\ \/ j # "final" /\ w = "picked"
              \/ j = "final" /\ w = "decremented" /\ op[u][o].plan \subseteq CleanupKinds
  <2>1. /\ Marks(u, o, j, "started")
        /\ \A v \in Units, p \in Ops : v # u \/ p # o => job'[v][p] = job[v][p]
    BY <1>4, StatusAt
  <2>2. Takes(u, o, j) \/ CountsOut(u, o, j)
    BY <1>1, <1>4, <2>1 DEF Takes, CountsOut
  <2>3. Elsewhere(u, o)
    BY <1>1, <2>1 DEF Elsewhere, SameChain, SameJobs
  <2> QED BY <2>2, <2>3, ChainsElsewhere DEF ChainStep, Works
<1>5. CASE /\ SetJob(u, o, j, "failed") /\ AtWork(u, o, j) /\ w \in {"ended", "exc", "dead"}
           /\ Turn(u) \/ work[u][o][j] # "idle"
  <2>1. /\ Marks(u, o, j, "failed")
        /\ \A v \in Units, p \in Ops : v # u \/ p # o => job'[v][p] = job[v][p]
    BY <1>5, StatusAt
  <2>2. EndsBadly(u, o, j)
    BY <1>1, <1>5, <2>1 DEF EndsBadly
  <2>3. Elsewhere(u, o)
    BY <1>1, <2>1 DEF Elsewhere, SameChain, SameJobs
  <2> QED BY <2>2, <2>3, ChainsElsewhere DEF ChainStep, Works
<1> QED BY <1>2, <1>3, <1>4, <1>5

LEMMA ChainExecution ==
  ASSUME TypeOK, NEW u \in Units, NEW o \in Ops, Execution(u, o)
  PROVE  OneChain
<1> USE KindValues
<1>0. "final" \notin Kinds \union {"netbird"}
  BY DEF Kinds, AllocKinds, CleanupKinds
<1>1. ASSUME NEW j \in Kinds \union {"netbird"}, TakeJob(u, o, j)
      PROVE  OneChain
  BY <1>0, <1>1, WorkedChain DEF TakeJob
<1>2. ASSUME NEW k \in Kinds, ExecuteStart(u, o, k)
      PROVE  OneChain
  <2>1. \/ SetWork(u, o, k, "busy") /\ job' = job
        \/ SetWork(u, o, k, "ended") /\ SetJob(u, o, k, "failed")
    BY <1>2 DEF ExecuteStart
  <2>2. work[u][o][k] = "picked" /\ Turn(u) /\ op' = op
    BY <1>2 DEF ExecuteStart
  <2>3. AtWork(u, o, k)
    BY <2>2 DEF AtWork
  <2> QED BY <2>1, <2>2, <2>3, WorkedChain
<1>3. ASSUME NEW k \in Kinds, ExecuteEnd(u, o, k)
      PROVE  OneChain
  <2>1. \/ SetWork(u, o, k, "succeeded") /\ Succeed(u, o, k)
        \/ SetWork(u, o, k, "ended") /\ SetJob(u, o, k, "failed")
    BY <1>3 DEF ExecuteEnd
  <2>2. AtWork(u, o, k) /\ Turn(u) /\ op' = op
    BY <1>3 DEF ExecuteEnd, AtWork
  <2> QED BY <2>1, <2>2, WorkedChain
<1>4. ASSUME NEW k \in Kinds, ExecuteFail(u, o, k)
      PROVE  OneChain
  <2>1. SetJob(u, o, k, "failed") /\ (SetWork(u, o, k, "exc") \/ SetWork(u, o, k, "ended"))
    BY <1>4 DEF ExecuteFail
  <2>2. AtWork(u, o, k) /\ Turn(u) /\ op' = op
    BY <1>4 DEF ExecuteFail, AtWork
  <2> QED BY <2>1, <2>2, WorkedChain
<1>5. ASSUME NEW k \in Kinds, RequestExceptionHandler(u, o, k)
      PROVE  OneChain
  BY <1>5, WorkedChain DEF RequestExceptionHandler
<1>6. CASE ProvisionNetbird(u, o)
  BY <1>6, WorkedChain DEF ProvisionNetbird, AtWork
<1>7. CASE MarkSandboxAsReady(u, o)
  <2>1. \/ SetWork(u, o, "final", "succeeded") /\ Succeed(u, o, "final")
        \/ SetWork(u, o, "final", "ended") /\ SetJob(u, o, "final", "failed")
    BY <1>7 DEF MarkSandboxAsReady
  <2>2. AtWork(u, o, "final") /\ Turn(u) /\ op' = op
    BY <1>7 DEF MarkSandboxAsReady, AtWork
  <2> QED BY <2>1, <2>2, WorkedChain
<1>8. CASE DecrementPoolSize(u, o)
  <2>1. \/ SetWork(u, o, "final", "decremented") /\ SetJob(u, o, "final", "started")
        \/ SetWork(u, o, "final", "ended") /\ SetJob(u, o, "final", "failed")
    BY <1>8 DEF DecrementPoolSize
  <2>2. /\ AtWork(u, o, "final") /\ Turn(u) /\ op' = op
        /\ job[u][o]["final"] = "queued" /\ op[u][o].plan \subseteq CleanupKinds
    BY <1>8 DEF DecrementPoolSize, AtWork
  <2> QED BY <2>1, <2>2, WorkedChain
<1>9. CASE DeleteAllocationUnit(u, o)
  <2>1. \/ SetWork(u, o, "final", "succeeded") /\ Succeed(u, o, "final")
        \/ SetWork(u, o, "final", "ended") /\ SetJob(u, o, "final", "failed")
    BY <1>9 DEF DeleteAllocationUnit
  <2>2. AtWork(u, o, "final") /\ Turn(u) /\ op' = op
    BY <1>9 DEF DeleteAllocationUnit, AtWork
  <2> QED BY <2>1, <2>2, WorkedChain
<1> QED BY <1>1, <1>2, <1>3, <1>4, <1>5, <1>6, <1>7, <1>8, <1>9 DEF Execution

LEMMA ChainCrash ==
  ASSUME TypeOK, NEW u \in Units, NEW o \in Ops, Crash(u, o)
  PROVE  OneChain
<1>1. CASE CrashOrchestration(u, o)
  BY <1>1, FailsChain DEF CrashOrchestration
<1>2. ASSUME NEW j \in Jobs, CrashJob(u, o, j)
      PROVE  OneChain
  <2>1. AtWork(u, o, j) /\ work[u][o][j] # "idle" /\ op' = op
    BY <1>2 DEF CrashJob, AtWork
  <2> QED BY <1>2, <2>1, WorkedChain DEF CrashJob
<1> QED BY <1>1, <1>2 DEF Crash

\* A cancellation concerns the operation whose stage it cancels, or the request that
\* is given up.
LEMMA ChainCancelStage ==
  ASSUME TypeOK, Cancelling, NEW u \in Units, NEW c \in Cancellers, CancelStage(u, c)
  PROVE  OneChain
<1>1. PICK s \in left[u][c] :
        /\ Turn(u) /\ work' = work
        /\ \/ /\ \/ job' = [job EXCEPT ![u][s[2]] = DeletedJob(@, Deps(u, s[2]), s[1])]
                 \/ job' = job
              /\ op' = op /\ row[u][s[1]].run = s[2] /\ row[u][s[1]].rq
              /\ \A t \in left[u][c] : Rank[t[1]] <= Rank[s[1]]
           \/ /\ c[2] = "web" /\ SetPc(u, c[1], "failed")
              /\ job' = job
           \/ op' = op /\ job' = job
  BY Zenon DEF CancelStage
<1>2. s[1] \in Kinds /\ s[2] \in Ops /\ c[1] \in Ops /\ c = <<c[1], c[2]>> /\ s = <<s[1], s[2]>>
  BY Pairs DEF TypeOK, Cancellers
<1>3. CASE op' = op /\ job' = job
  BY <1>1, <1>3, ChainsUnchanged
<1>4. CASE /\ job' = [job EXCEPT ![u][s[2]] = DeletedJob(@, Deps(u, s[2]), s[1])]
           /\ op' = op /\ row[u][s[1]].run = s[2] /\ row[u][s[1]].rq
           /\ \A t \in left[u][c] : Rank[t[1]] <= Rank[s[1]]
  <2> DEFINE js == DeletedJob(job[u][s[2]], Deps(u, s[2]), s[1])
  <2>1. job' = [job EXCEPT ![u][s[2]] = js] /\ js = DeletedJob(job[u][s[2]], Deps(u, s[2]), s[1])
    BY <1>4
  <2> HIDE DEF js
  <2>2. /\ job'[u][s[2]] = js
        /\ \A v \in Units, p \in Ops : v # u \/ p # s[2] => job'[v][p] = job[v][p]
    BY <1>2, <2>1 DEF TypeOK
  <2>3. LosesJob(u, s[2])
    BY <1>1, <1>2, <1>4, <2>1, <2>2 DEF LosesJob
  <2>4. Elsewhere(u, s[2])
    BY <1>1, <1>4, <2>2 DEF Elsewhere, SameChain, SameJobs
  <2> QED BY <1>2, <2>3, <2>4, ChainsElsewhere DEF ChainStep
<1>5. CASE c[2] = "web" /\ SetPc(u, c[1], "failed") /\ job' = job
  <2>1. left[u][<<c[1], "web">>] # {}
    BY <1>1, <1>2, <1>5
  <2>2. op[u][c[1]].pc = "cancel"
    BY <1>2, <2>1 DEF Cancelling
  <2>3. MovesOn(u, c[1]) /\ Elsewhere(u, c[1])
    BY <1>1, <1>2, <1>5, <2>2, PcAt DEF MovesOn, SameJobs, Elsewhere, SameChain
  <2> QED BY <1>2, <2>3, ChainsElsewhere DEF ChainStep
<1> QED BY <1>1, <1>3, <1>4, <1>5

LEMMA OneChainSteps ==
  ASSUME TypeOK, Cancelling, [Next]_vars
  PROVE  UNCHANGED <<op, job, work>> \/ OneChain
<1>1. CASE UNCHANGED vars
  BY <1>1 DEF vars
<1> QED BY <1>1, ChainWeb, ChainContinues, ChainOrchestration, ChainExecution, ChainCrash,
          ChainCancelStage DEF Next

LEMMA ChainSteps ==
  ASSUME TypeOK, Cancelling, [Next]_vars
  PROVE  \A v \in Units, p \in Ops : ChainStep(v, p)
<1>1. CASE UNCHANGED <<op, job, work>>
  BY <1>1 DEF ChainStep, SameChain, SameJobs
<1>2. CASE OneChain
  BY <1>2 DEF OneChain, Elsewhere, ChainStep
<1> QED BY <1>1, <1>2, OneChainSteps

-----------------------------------------------------------------------------
\* The web requests cancel what they have read, and nothing else has its pc.
LEMMA InitCancelling == Init => Cancelling
  BY CancellerValues DEF Init, Cancelling

LEMMA StepCancelling ==
  ASSUME TypeOK, Cancelling, [Next]_vars
  PROVE  Cancelling'
<1> SUFFICES ASSUME NEW v \in Units, NEW p \in Ops, left'[v][<<p, "web">>] # {}
             PROVE  op'[v][p].pc = "cancel"
  BY DEF Cancelling
<1> USE CancellerValues
<1>1. ASSUME left'[v][<<p, "web">>] = left[v][<<p, "web">>], op'[v][p] = op[v][p]
      PROVE  op'[v][p].pc = "cancel"
  BY <1>1 DEF Cancelling
<1>2. ASSUME left' = left, op[v][p].pc # "cancel" \/ left[v][<<p, "web">>] = {}
      PROVE  FALSE
  BY <1>2 DEF Cancelling
<1>3. ASSUME NEW u \in Units, NEW o \in Ops, left' = left, op[u][o].pc # "cancel" \/ left[u][<<o, "web">>] = {},
             \A w \in Units, q \in Ops : w # u \/ q # o => op'[w][q] = op[w][q]
      PROVE  op'[v][p].pc = "cancel"
  <2>1. CASE v = u /\ p = o
    BY <1>2, <1>3, <2>1
  <2>2. CASE v # u \/ p # o
    BY <1>1, <1>3, <2>2
  <2> QED BY <2>1, <2>2
<1>4. CASE op' = op /\ left' = left
  BY <1>1, <1>4
<1>5. ASSUME NEW u \in Units, WebRequest(u)
      PROVE  op'[v][p].pc = "cancel"
  <2>1. CASE CreateAllocationsRequests(u)
    <3> DEFINE r == [NoOp EXCEPT !.kind = "create", !.pc = "queued"]
    <3>1. op' = [op EXCEPT ![u][1] = r] /\ left' = left /\ op[u][1].pc = "idle"
      BY <2>1 DEF CreateAllocationsRequests
    <3> HIDE DEF r
    <3>2. \A w \in Units, q \in Ops : w # u \/ q # 1 => op'[w][q] = op[w][q]
      BY <3>1, OneIsAnOp DEF TypeOK
    <3> QED BY <1>3, <3>1, <3>2, OneIsAnOp
  <2>2. CASE DeleteCleanupRequest(u) \/ LockSandbox(u) \/ UnlockSandbox(u)
    BY <1>4, <2>2 DEF DeleteCleanupRequest, LockSandbox, UnlockSandbox
  <2>3. ASSUME NEW o \in Ops, NEW r, op[u][o].pc = "idle", left' = left, op' = [op EXCEPT ![u][o] = r]
        PROVE  op'[v][p].pc = "cancel"
    <3>1. \A w \in Units, q \in Ops : w # u \/ q # o => op'[w][q] = op[w][q]
      BY <2>3 DEF TypeOK
    <3> QED BY <1>3, <2>3, <3>1
  <2>4. ASSUME NEW o \in Ops, NEW r, NEW S, op' = [op EXCEPT ![u][o] = r],
               left' = [left EXCEPT ![u][<<o, "web">>] = S], r.pc = "cancel" \/ S = {}
        PROVE  op'[v][p].pc = "cancel"
    <3>1. /\ op'[u][o] = r /\ left'[u][<<o, "web">>] = S
          /\ \A w \in Units, q \in Ops : w # u \/ q # o => op'[w][q] = op[w][q]
      BY <2>4 DEF TypeOK
    <3>2. \A w \in Units, q \in Ops : w # u \/ q # o => left'[w][<<q, "web">>] = left[w][<<q, "web">>]
      BY <2>4 DEF TypeOK
    <3>3. CASE v = u /\ p = o
      BY <2>4, <3>1, <3>3
    <3>4. CASE v # u \/ p # o
      BY <1>1, <3>1, <3>2, <3>4
    <3> QED BY <3>3, <3>4
  <2>5. ASSUME NEW o \in Ops, RestartRequest(u, o)
        PROVE  op'[v][p].pc = "cancel"
    BY <2>3, <2>5 DEF RestartRequest, Asks
  <2>6. ASSUME NEW o \in Ops, NEW kind, NEW S, CancelRequest(u, o, kind, S)
        PROVE  op'[v][p].pc = "cancel"
    <3> DEFINE r == [NoOp EXCEPT !.kind = kind, !.pc = "cancel"]
    <3>1. r.pc = "cancel"
      BY DEF NoOp
    <3>2. op' = [op EXCEPT ![u][o] = r] /\ left' = [left EXCEPT ![u][<<o, "web">>] = Snapshot(u, S)]
      BY <2>6 DEF CancelRequest
    <3> HIDE DEF r
    <3> QED BY <2>4, <3>1, <3>2
  <2>7. ASSUME NEW o \in Ops, CreateCleanupRequest(u, o)
        PROVE  op'[v][p].pc = "cancel"
    BY <2>3, <2>7 DEF CreateCleanupRequest, Asks
  <2>8. ASSUME NEW o \in Ops, CreateCleanupRequestForce(u, o)
        PROVE  op'[v][p].pc = "cancel"
    <3> DEFINE pc == IF IsFinished(u, AllocKinds) THEN "delete" ELSE "cancel"
               refused == [NoOp EXCEPT !.kind = "force", !.pc = "failed"]
               accepted == [NoOp EXCEPT !.kind = "force", !.sb = sandbox[u], !.req = creq[u],
                                        !.pc = pc]
    <3>1. accepted.pc = "cancel" \/ Snapshot(u, AllocKinds) = {}
      <4>1. accepted.pc = pc
        BY DEF NoOp
      <4> QED BY <4>1 DEF IsFinished, Snapshot
    <3>2. /\ op[u][o].pc = "idle"
          /\ \/ op' = [op EXCEPT ![u][o] = refused] /\ left' = left
             \/ /\ op' = [op EXCEPT ![u][o] = accepted]
                /\ left' = [left EXCEPT ![u][<<o, "web">>] = Snapshot(u, AllocKinds)]
      BY <2>8 DEF CreateCleanupRequestForce, Asks
    <3> HIDE DEF refused, accepted
    <3> QED BY <2>3, <2>4, <3>1, <3>2
  <2> QED BY <1>5, <2>1, <2>2, <2>5, <2>6, <2>7, <2>8
       DEF WebRequest, CancelAllocationRequest, CancelCleanupRequest
<1>6. ASSUME NEW u \in Units, NEW o \in Ops, NEW pc, SetPc(u, o, pc), left' = left,
             op[u][o].pc # "cancel" \/ left[u][<<o, "web">>] = {}
      PROVE  op'[v][p].pc = "cancel"
  <2>1. \A w \in Units, q \in Ops : w # u \/ q # o => op'[w][q] = op[w][q]
    BY <1>6, PcAt
  <2> QED BY <1>3, <1>6, <2>1
<1>7. ASSUME NEW u \in Units, NEW o \in Ops, WebContinues(u, o)
      PROVE  op'[v][p].pc = "cancel"
  BY <1>6, <1>7 DEF WebContinues, CancelDone, DeleteSandbox
<1>8. ASSUME NEW u \in Units, NEW o \in Ops, Orchestration(u, o) \/ CrashOrchestration(u, o)
      PROVE  op'[v][p].pc = "cancel"
  <2>1. op[u][o].pc # "cancel" /\ left' = left
    BY <1>8 DEF Orchestration, Orchestrates, CrashOrchestration, CreateAllocationJobs, ReplaceSandbox,
       RestartStageHandlers, CreateCleanupJobs, EnqueueStage, SetJobId, EnqueueFinalizer, FailOrchestration
  <2>2. \E r : op' = [op EXCEPT ![u][o] = r]
    BY <1>8 DEF Orchestration, CrashOrchestration, CreateAllocationJobs, ReplaceSandbox, SetPc, StartChain,
       RestartStageHandlers, CreateCleanupJobs, EnqueueStage, SetJobId, EnqueueFinalizer, FailOrchestration
  <2>3. \A w \in Units, q \in Ops : w # u \/ q # o => op'[w][q] = op[w][q]
    BY <2>2 DEF TypeOK
  <2> QED BY <1>3, <2>1, <2>3
<1>9. ASSUME NEW u \in Units, NEW o \in Ops, Execution(u, o) \/ \E j \in Jobs : CrashJob(u, o, j)
      PROVE  op'[v][p].pc = "cancel"
  <2>1. ASSUME NEW k \in Kinds, RequestExceptionHandler(u, o, k)
        PROVE  op'[v][p].pc = "cancel"
    <3>1. k # "web"
      BY DEF Kinds, AllocKinds, CleanupKinds
    <3>2. PICK S : left' = [left EXCEPT ![u][<<o, k>>] = S] /\ op' = op
      BY <2>1 DEF RequestExceptionHandler
    <3>3. left'[v][<<p, "web">>] = left[v][<<p, "web">>]
      BY <3>1, <3>2 DEF TypeOK
    <3> QED BY <1>1, <3>2, <3>3
  <2>2. CASE \/ \E k \in Kinds : \/ TakeJob(u, o, k) \/ ExecuteStart(u, o, k)
                                 \/ ExecuteEnd(u, o, k) \/ ExecuteFail(u, o, k)
             \/ TakeJob(u, o, "netbird") \/ ProvisionNetbird(u, o) \/ MarkSandboxAsReady(u, o)
             \/ DecrementPoolSize(u, o) \/ DeleteAllocationUnit(u, o) \/ \E j \in Jobs : CrashJob(u, o, j)
    <3>1. op' = op /\ left' = left
      BY <2>2 DEF TakeJob, ExecuteStart, ExecuteEnd, ExecuteFail, ProvisionNetbird, MarkSandboxAsReady,
         DecrementPoolSize, DeleteAllocationUnit, CrashJob
    <3> QED BY <1>4, <3>1
  <2> QED BY <1>9, <2>1, <2>2 DEF Execution
<1>10. ASSUME NEW u \in Units, NEW c \in Cancellers, CancelStage(u, c)
       PROVE  op'[v][p].pc = "cancel"
  <2>0. PICK s \in left[u][c] :
          \/ left' = [left EXCEPT ![u][c] = @ \ {s}] /\ op' = op
          \/ /\ left' = [left EXCEPT ![u][c] = {}]
             /\ op' = op \/ (c[2] = "web" /\ SetPc(u, c[1], "failed"))
    BY <1>10, Zenon DEF CancelStage
  <2>1. PICK S : /\ left' = [left EXCEPT ![u][c] = S] /\ S \subseteq left[u][c]
                 /\ op' = op \/ (S = {} /\ c[2] = "web" /\ SetPc(u, c[1], "failed"))
    <3>1. CASE left' = [left EXCEPT ![u][c] = @ \ {s}] /\ op' = op
      <4> DEFINE S == left[u][c] \ {s}
      <4>1. left' = [left EXCEPT ![u][c] = S] /\ S \subseteq left[u][c]
        BY <3>1
      <4> QED BY <3>1, <4>1
    <3>2. CASE /\ left' = [left EXCEPT ![u][c] = {}]
               /\ op' = op \/ (c[2] = "web" /\ SetPc(u, c[1], "failed"))
      <4> DEFINE S == {}
      <4>1. left' = [left EXCEPT ![u][c] = S] /\ S \subseteq left[u][c] /\ S = {}
        BY <3>2
      <4> HIDE DEF S
      <4> QED BY <3>2, <4>1
    <3> QED BY <2>0, <3>1, <3>2
  <2>2. c[1] \in Ops /\ c = <<c[1], c[2]>>
    BY DEF Cancellers
  <2>3. /\ left'[u][c] = S
        /\ \A w \in Units, d \in Cancellers : w # u \/ d # c => left'[w][d] = left[w][d]
    BY <2>1, LeftAt
  <2>4. CASE op' = op
    BY <2>1, <2>3, <2>4 DEF Cancelling
  <2>5. CASE S = {} /\ c[2] = "web" /\ SetPc(u, c[1], "failed")
    <3>1. \A w \in Units, q \in Ops : w # u \/ q # c[1] => op'[w][q] = op[w][q]
      BY <2>2, <2>5, PcAt
    <3>2. v # u \/ p # c[1]
      BY <2>2, <2>3, <2>5
    <3>3. v # u \/ <<p, "web">> # c
      BY <2>2, <3>2
    <3> QED BY <1>1, <2>3, <3>1, <3>2, <3>3
  <2> QED BY <2>1, <2>4, <2>5
<1>11. CASE UNCHANGED vars
  BY <1>4, <1>11 DEF vars
<1> QED BY <1>5, <1>7, <1>8, <1>9, <1>10, <1>11 DEF Next, Crash

-----------------------------------------------------------------------------
(* The sandbox of a unit and its lock. *)

\* What a step may do to the sandbox of a unit and to its lock.
CreatesSandbox(u) ==
  \E o \in Ops : op[u][o].kind = "create" /\ op[u][o].pc = "queued" /\ op'[u][o].pc = "enqueue"

BringsSandboxBack(u) ==
  \E o \in Ops : /\ op[u][o].plan \subseteq AllocKinds /\ job[u][o]["final"] = "queued"
                 /\ sandbox[u] \in {0, o} /\ sandbox'[u] = o

SandboxStep(u) ==
  /\ \/ sandbox'[u] = sandbox[u]
     \/ CreatesSandbox(u)
     \/ BringsSandboxBack(u)
     \/ sandbox[u] # 0 /\ ~locked[u]
  /\ locked'[u] => (locked[u] \/ (sandbox'[u] = sandbox[u] /\ sandbox[u] # 0))

LEMMA SandboxSteps ==
  ASSUME TypeOK, [Next]_vars, NEW v \in Units
  PROVE  SandboxStep(v)
<1>1. CASE UNCHANGED <<sandbox, locked>>
  BY <1>1 DEF SandboxStep
<1>2. ASSUME NEW u \in Units, sandbox' = sandbox, locked' = locked \/ locked' = [locked EXCEPT ![u] = FALSE]
      PROVE  SandboxStep(v)
  BY <1>2 DEF SandboxStep, TypeOK
<1>3. ASSUME NEW u \in Units, WebRequest(u)
      PROVE  SandboxStep(v)
  <2>1. CASE LockSandbox(u)
    BY <2>1 DEF LockSandbox, SandboxStep, TypeOK
  <2>2. CASE ~LockSandbox(u)
    BY <1>2, <1>3, <2>2 DEF WebRequest, CreateAllocationsRequests, DeleteCleanupRequest, UnlockSandbox,
       RestartRequest, CancelAllocationRequest, CancelCleanupRequest, CancelRequest,
       CreateCleanupRequest, CreateCleanupRequestForce
  <2> QED BY <2>1, <2>2
<1>4. ASSUME NEW u \in Units, NEW o \in Ops, WebContinues(u, o)
      PROVE  SandboxStep(v)
  <2>1. CASE CancelDone(u, o)
    BY <1>1, <2>1 DEF CancelDone
  <2>2. CASE DeleteSandbox(u, o)
    <3>1. /\ locked' = locked
          /\ \/ sandbox' = sandbox
             \/ sandbox' = [sandbox EXCEPT ![u] = 0] /\ sandbox[u] # 0 /\ ~locked[u]
      BY <2>2 DEF DeleteSandbox, TypeOK
    <3> QED BY <3>1 DEF SandboxStep, TypeOK
  <2> QED BY <1>4, <2>1, <2>2 DEF WebContinues
<1>5. ASSUME NEW u \in Units, NEW o \in Ops, Orchestration(u, o)
      PROVE  SandboxStep(v)
  <2>1. CASE CreateAllocationJobs(u, o)
    <3>1. /\ sandbox' = [sandbox EXCEPT ![u] = o] /\ locked' = locked
          /\ op[u][o].kind = "create" /\ op[u][o].pc = "queued"
          /\ StartChain(u, o, AllocKinds)
      BY <2>1 DEF CreateAllocationJobs, Orchestrates
    <3>2. op'[u][o].pc = "enqueue"
      BY <3>1 DEF StartChain, TypeOK, Op
    <3> QED BY <3>1, <3>2 DEF SandboxStep, CreatesSandbox, TypeOK
  <2>2. CASE ReplaceSandbox(u, o)
    <3>1. \/ UNCHANGED <<sandbox, locked>>
          \/ /\ sandbox' = [sandbox EXCEPT ![u] = o] /\ locked' = locked
             /\ sandbox[u] # 0 /\ ~locked[u]
      BY <2>2 DEF ReplaceSandbox, FailOrchestration
    <3> QED BY <3>1 DEF SandboxStep, TypeOK
  <2>3. CASE ~CreateAllocationJobs(u, o) /\ ~ReplaceSandbox(u, o)
    BY <1>1, <1>5, <2>3 DEF Orchestration, RestartStageHandlers, CreateCleanupJobs, EnqueueStage,
       SetJobId, EnqueueFinalizer, FailOrchestration
  <2> QED BY <2>1, <2>2, <2>3
<1>6. ASSUME NEW u \in Units, NEW o \in Ops, Execution(u, o)
      PROVE  SandboxStep(v)
  <2>1. CASE MarkSandboxAsReady(u, o)
    <3>1. /\ op[u][o].plan \subseteq AllocKinds /\ job[u][o]["final"] = "queued" /\ locked' = locked
          /\ \/ sandbox' = sandbox
             \/ sandbox' = [sandbox EXCEPT ![u] = o] /\ sandbox[u] \in {0, o}
      BY <2>1 DEF MarkSandboxAsReady
    <3> QED BY <3>1 DEF SandboxStep, BringsSandboxBack, TypeOK
  <2>2. CASE ~MarkSandboxAsReady(u, o)
    BY <1>1, <1>6, <2>2 DEF Execution, TakeJob, ExecuteStart, ExecuteEnd, ExecuteFail,
       RequestExceptionHandler, ProvisionNetbird, DecrementPoolSize, DeleteAllocationUnit
  <2> QED BY <2>1, <2>2
<1>7. ASSUME NEW u \in Units, NEW o \in Ops, Crash(u, o)
      PROVE  SandboxStep(v)
  BY <1>1, <1>7 DEF Crash, CrashOrchestration, CrashJob, FailOrchestration
<1>8. ASSUME NEW u \in Units, NEW c \in Cancellers, CancelStage(u, c)
      PROVE  SandboxStep(v)
  BY <1>1, <1>8 DEF CancelStage
<1>9. CASE UNCHANGED vars
  BY <1>1, <1>9 DEF vars
<1> QED BY <1>3, <1>4, <1>5, <1>6, <1>7, <1>8, <1>9 DEF Next

\* The first operation of a unit creates it, and no other one does.
FirstCreates ==
  \A u \in Units, o \in Ops :
    /\ o = 1 => op[u][o].kind \in {"none", "create"} /\ op[u][o].pc \notin {"cancel", "delete", "restage"}
    /\ o # 1 => op[u][o].kind # "create"
    /\ op[u][o].pc = "idle" => op[u][o].plan = {}

\* Operation o is not building the unit and has not been: no finalizer of it will mark
\* a sandbox as ready.
BuildsNothing(u, o) ==
  /\ op[u][o].pc # "restage"
  /\ op[u][o].plan \subseteq AllocKinds =>
       /\ op[u][o].pc \notin {"enqueue", "setid"}
       /\ job[u][o]["final"] = "none" /\ work[u][o]["final"] = "idle"

\* Before the first orchestration job a unit has no sandbox, whatever is asked of it.
SandboxAtFirst ==
  \A u \in Units : op[u][1].pc \in {"idle", "queued"} =>
    sandbox[u] = 0 /\ \A o \in Ops : BuildsNothing(u, o)

\* A locked unit has a sandbox.
LockHasSandbox == \A u \in Units : locked[u] => sandbox[u] # 0

Protected == Cancelling /\ FirstCreates /\ SandboxAtFirst /\ LockHasSandbox

\* The first operation of a unit is the one that creates it.
LEMMA StepFirst ==
  ASSUME FirstCreates, NEW u \in Units, NEW o \in Ops, ChainStep(u, o)
  PROVE  /\ o = 1 => op'[u][o].kind \in {"none", "create"} /\ op'[u][o].pc \notin {"cancel", "delete", "restage"}
         /\ o # 1 => op'[u][o].kind # "create"
         /\ op'[u][o].pc = "idle" => op'[u][o].plan = {}
         /\ o = 1 /\ op'[u][o].pc \in {"idle", "queued"} => op[u][o].pc \in {"idle", "queued"}
<1>0. /\ o = 1 => op[u][o].kind \in {"none", "create"} /\ op[u][o].pc \notin {"cancel", "delete", "restage"}
      /\ o # 1 => op[u][o].kind # "create"
      /\ op[u][o].pc = "idle" => op[u][o].plan = {}
  BY DEF FirstCreates
<1>1. CASE SameChain(u, o) \/ Works(u, o) \/ LosesJob(u, o)
  BY <1>0, <1>1 DEF SameChain, Works, LosesJob
<1>2. CASE IsAsked(u, o)
  BY <1>0, <1>2 DEF IsAsked
<1>3. CASE MovesOn(u, o)
  BY <1>0, <1>3 DEF MovesOn, Goes, KeepsPlan
<1>4. CASE IsStarted(u, o)
  BY <1>0, <1>4 DEF IsStarted
<1>5. CASE IsEnqueued(u, o) \/ IsTied(u, o) \/ IsClosed(u, o)
  BY <1>0, <1>5 DEF IsEnqueued, IsTied, IsClosed, Goes, KeepsPlan
<1> QED BY <1>1, <1>2, <1>3, <1>4, <1>5 DEF ChainStep

\* A finalizer that has not been enqueued is not touched by the other jobs.
LEMMA FinalUntouched ==
  ASSUME TypeOK, NEW u \in Units, NEW o \in Ops, job[u][o]["final"] = "none",
         work[u][o]["final"] = "idle", Works(u, o) \/ LosesJob(u, o)
  PROVE  job'[u][o]["final"] = "none" /\ work'[u][o]["final"] = "idle"
<1> USE KindValues
<1>0. /\ job[u][o] \in [Jobs -> JobStatus] /\ work[u][o] \in [Jobs -> WorkState]
      /\ "final" \notin Kinds
  BY DEF TypeOK, Kinds, AllocKinds, CleanupKinds
<1>1. CASE LosesJob(u, o)
  BY <1>0, <1>1 DEF LosesJob, DeletedJob
<1>2. ASSUME NEW j \in Jobs, Takes(u, o, j) \/ EndsBadly(u, o, j) \/ CountsOut(u, o, j) \/ Proceeds(u, o, j)
      PROVE  job'[u][o]["final"] = "none" /\ work'[u][o]["final"] = "idle"
  <2>1. j # "final"
    BY <1>2 DEF Takes, EndsBadly, CountsOut, Proceeds, AtWork
  <2> QED BY <1>0, <1>2, <2>1 DEF Takes, EndsBadly, CountsOut, Proceeds, Marks, Sets
<1>3. ASSUME NEW j \in Jobs, EndsWell(u, o, j)
      PROVE  job'[u][o]["final"] = "none" /\ work'[u][o]["final"] = "idle"
  <2>1. j # "final"
    BY <1>3 DEF EndsWell, AtWork
  <2> QED BY <1>0, <1>3, <2>1 DEF EndsWell, Sets, FinishedJob
<1> QED BY <1>1, <1>2, <1>3 DEF Works

\* An operation that builds nothing goes on building nothing.
LEMMA StepBuildsNothing ==
  ASSUME TypeOK, FirstCreates, NEW u \in Units, NEW o \in Ops, ChainStep(u, o), sandbox[u] = 0,
         BuildsNothing(u, o), op'[u][1].pc \in {"idle", "queued"}
  PROVE  BuildsNothing(u, o)'
<1>1. CASE SameChain(u, o)
  BY <1>1 DEF SameChain, SameJobs, BuildsNothing
<1>2. CASE IsAsked(u, o)
  BY <1>2, KindValues DEF IsAsked, SameJobs, BuildsNothing, FirstCreates
<1>3. CASE MovesOn(u, o)
  BY <1>3 DEF MovesOn, Goes, KeepsPlan, SameJobs, BuildsNothing
<1>4. CASE IsStarted(u, o)
  <2>1. op'[u][o].plan = CleanupKinds /\ op'[u][o].pc = "enqueue"
    BY <1>4 DEF IsStarted, Chains, FirstCreates, BuildsNothing
  <2> QED BY <2>1 DEF BuildsNothing, CleanupKinds, AllocKinds
<1>5. CASE IsEnqueued(u, o) \/ IsTied(u, o) \/ IsClosed(u, o)
  BY <1>5 DEF IsEnqueued, IsTied, IsClosed, Goes, KeepsPlan, BuildsNothing
<1>6. CASE Works(u, o) \/ LosesJob(u, o)
  <2>1. op'[u][o] = op[u][o]
    BY <1>6 DEF Works, LosesJob
  <2> QED BY <1>6, <2>1, FinalUntouched DEF BuildsNothing
<1> QED BY <1>1, <1>2, <1>3, <1>4, <1>5, <1>6 DEF ChainStep

\* The protection of a locked sandbox is inductive.
LEMMA StepProtected ==
  ASSUME TypeOK, Protected, [Next]_vars
  PROVE  Protected' /\ \A u \in Units : locked[u] => sandbox'[u] = sandbox[u]
<1>0. Cancelling /\ FirstCreates /\ SandboxAtFirst /\ LockHasSandbox
  BY DEF Protected
<1>1. Cancelling' /\ \A u \in Units, o \in Ops : ChainStep(u, o)
  BY <1>0, StepCancelling, ChainSteps
<1>2. FirstCreates'
  BY <1>0, <1>1, StepFirst DEF FirstCreates
<1>3. ASSUME NEW u \in Units
      PROVE  /\ CreatesSandbox(u) => sandbox[u] = 0 /\ op'[u][1].pc = "enqueue"
             /\ op[u][1].pc \in {"idle", "queued"} => ~BringsSandboxBack(u)
  <2>1. CreatesSandbox(u) => op[u][1].pc = "queued" /\ op'[u][1].pc = "enqueue"
    BY <1>0 DEF CreatesSandbox, FirstCreates
  <2> QED BY <1>0, <2>1 DEF SandboxAtFirst, BringsSandboxBack, BuildsNothing
<1>4. ASSUME NEW u \in Units, op'[u][1].pc \in {"idle", "queued"}
      PROVE  sandbox'[u] = 0 /\ \A o \in Ops : BuildsNothing(u, o)'
  <2>1. op[u][1].pc \in {"idle", "queued"}
    BY <1>0, <1>1, <1>4, StepFirst, OneIsAnOp
  <2>2. sandbox[u] = 0 /\ \A o \in Ops : BuildsNothing(u, o)
    BY <1>0, <2>1 DEF SandboxAtFirst
  <2>3. sandbox'[u] = 0
    BY <1>3, <1>4, <2>1, <2>2, SandboxSteps DEF SandboxStep
  <2> QED BY <1>0, <1>1, <1>4, <2>2, <2>3, StepBuildsNothing
<1>5. ASSUME NEW u \in Units, locked[u]
      PROVE  sandbox'[u] = sandbox[u]
  <2>1. sandbox[u] # 0
    BY <1>0, <1>5 DEF LockHasSandbox
  <2> QED BY <1>3, <1>5, <2>1, SandboxSteps DEF SandboxStep, BringsSandboxBack
<1>6. LockHasSandbox'
  BY <1>0, <1>5, SandboxSteps DEF SandboxStep, LockHasSandbox
<1>7. SandboxAtFirst'
  BY <1>4 DEF SandboxAtFirst
<1> QED BY <1>1, <1>2, <1>5, <1>6, <1>7 DEF Protected

\* Protected holds before the first request.
LEMMA InitProtected ==
  ASSUME Init
  PROVE  Protected
<1>1. FirstCreates /\ LockHasSandbox
  BY DEF Init, FirstCreates, LockHasSandbox, NoOp
<1>2. SandboxAtFirst
  BY KindValues DEF Init, SandboxAtFirst, BuildsNothing, NoOp
<1> QED BY <1>1, <1>2, InitCancelling DEF Protected

\* A locked sandbox is neither deleted nor replaced, for any number of units and
\* operations, any haste and any faults: get_unlocked_sandbox's holder keeps it until
\* the lock is removed, although the requests that delete a sandbox check the lock long
\* before they do (create_cleanup_request, _create_restart_jobs).
THEOREM LockProtects == Spec => LockedSandboxKept
<1>1. Init => Protected
  BY InitProtected
<1>2. TypeOK /\ Protected /\ [Next]_vars =>
        Protected' /\ [\A u \in Units : locked[u] => sandbox'[u] = sandbox[u]]_vars
  BY StepProtected
<1> QED BY <1>1, <1>2, TypeCorrect, PTL DEF Spec, LockedSandboxKept

-----------------------------------------------------------------------------
(* What a step does to the rows of a unit and to its running cancellations.   *)

\* The rows of a unit, or what a cancellation has left of it, stay or become as given.
LeftKept(u) == \A c \in Cancellers : left'[u][c] = left[u][c]
LeftBecomes(u, c, T) ==
  left'[u][c] = T /\ \A d \in Cancellers : d # c => left'[u][d] = left[u][d]

RowsKept(u) == \A k \in Kinds : row'[u][k] = row[u][k]
Saved(u, k, st) ==
  /\ row'[u][k].run = row[u][k].run /\ row'[u][k].rq = row[u][k].rq /\ row'[u][k].st = st
  /\ \A i \in Kinds : i # k => row'[u][i] = row[u][i]

\* The rows of a unit are made for operation o, or deleted.
RowsMade(u, o) ==
  /\ \/ op[u][o].pc = "queued" /\ Turn(u) /\ op'[u][o].plan \in {AllocKinds, CleanupKinds}
     \/ /\ op[u][o].pc = "restage" /\ op'[u][o].plan = FailedStages(u)
        /\ HasStages(u, AllocKinds) /\ IsFinished(u, AllocKinds)
  /\ op'[u][o].pc = "enqueue"
  /\ \A k \in Kinds : row'[u][k] = IF k \in op'[u][o].plan THEN NewRow(o) ELSE row[u][k]
  /\ LeftKept(u)

RowsGone(u) ==
  /\ Turn(u) /\ LeftKept(u)
  /\ \E S \in {CleanupKinds, Kinds} : \A k \in Kinds :
       row'[u][k] = IF k \in S THEN NoRow ELSE row[u][k]

RowTied(u, o) ==
  /\ op[u][o].pc = "setid" /\ op'[u][o].pc = "enqueue" /\ op'[u][o].plan = op[u][o].plan
  /\ \E k \in First(op[u][o].todo) :
       /\ op'[u][o].todo = op[u][o].todo \ {k}
       /\ row[u][k].run = o
       /\ row'[u][k].run = o /\ row'[u][k].st = row[u][k].st /\ row'[u][k].rq
       /\ \A i \in Kinds : i # k => row'[u][i] = row[u][i]
  /\ LeftKept(u)

RowSaved(u, o, k) ==
  /\ Turn(u) /\ row[u][k].run = o /\ LeftKept(u)
  /\ \/ Saved(u, k, "running") /\ work[u][o][k] = "picked" /\ work'[u][o][k] = "busy"
     \/ Saved(u, k, "done") /\ work[u][o][k] = "busy" /\ work'[u][o][k] = "succeeded"
     \/ Saved(u, k, "failed") /\ work[u][o][k] = "busy" /\ work'[u][o][k] = "exc"

RowCancelled(u, c, k, o) ==
  /\ Turn(u) /\ <<k, o>> \in left[u][c] /\ \A t \in left[u][c] : Rank[t[1]] <= Rank[k]
  /\ row[u][k].run = o /\ Saved(u, k, "failed")
  /\ row[u][k].rq => job'[u][o] = DeletedJob(job[u][o], Deps(u, o), k)
  /\ LeftBecomes(u, c, left[u][c] \ {<<k, o>>})

CancelMissed(u, c, k, o) ==
  /\ Turn(u) /\ <<k, o>> \in left[u][c] /\ \A t \in left[u][c] : Rank[t[1]] <= Rank[k]
  /\ row[u][k].run # o /\ RowsKept(u)
  /\ LeftBecomes(u, c, {})

RowsRead(u, o, S) ==
  /\ Turn(u) /\ RowsKept(u) /\ op[u][o].pc = "idle"
  /\ LeftBecomes(u, <<o, "web">>, Snapshot(u, S))

FailureRead(u, o, k) ==
  /\ Turn(u) /\ RowsKept(u) /\ work[u][o][k] = "exc" /\ work'[u][o][k] = "ended"
  /\ \E T \in {{}, Snapshot(u, RequestKinds(k))} :
       /\ row[u][k].run = o /\ row[u][k].rq /\ HasStages(u, RequestKinds(k))
            => T = Snapshot(u, RequestKinds(k))
       /\ LeftBecomes(u, <<o, k>>, T)

UnitStep(u) ==
  \/ RowsKept(u) /\ LeftKept(u)
  \/ RowsGone(u)
  \/ \E o \in Ops : \/ RowsMade(u, o)
                    \/ RowTied(u, o)
                    \/ \E S \in {AllocKinds, CleanupKinds} : RowsRead(u, o, S)
                    \/ \E k \in Kinds : RowSaved(u, o, k) \/ FailureRead(u, o, k)
                    \/ \E k \in Kinds, c \in Cancellers :
                         RowCancelled(u, c, k, o) \/ CancelMissed(u, c, k, o)

-----------------------------------------------------------------------------
\* A step that leaves the rows and the cancellations as they are.
LEMMA UnitUnchanged ==
  UNCHANGED <<row, left>> => \A v \in Units : UnitStep(v)
  BY DEF UnitStep, RowsKept, LeftKept

\* The other units are as they were.
LEMMA UnitElsewhere ==
  ASSUME TypeOK, NEW u \in Units, UnitStep(u),
         row' = row \/ (\E r : row' = [row EXCEPT ![u] = r]),
         left' = left \/ (\E l : left' = [left EXCEPT ![u] = l])
  PROVE  \A v \in Units : UnitStep(v)
<1> SUFFICES ASSUME NEW v \in Units, v # u PROVE UnitStep(v)
  OBVIOUS
<1>1. row'[v] = row[v]
  BY DEF TypeOK
<1>2. left'[v] = left[v]
  BY DEF TypeOK
<1> QED BY <1>1, <1>2 DEF UnitStep, RowsKept, LeftKept

\* An update of what one cancellation has left, or of one row.
LEMMA LeftAtMost ==
  ASSUME TypeOK, NEW u \in Units, NEW c \in Cancellers, NEW T, left' = [left EXCEPT ![u][c] = T]
  PROVE  LeftBecomes(u, c, T) /\ \E l : left' = [left EXCEPT ![u] = l]
<1> DEFINE l == [left[u] EXCEPT ![c] = T]
<1>1. left' = [left EXCEPT ![u] = l]
  OBVIOUS
<1>2. LeftBecomes(u, c, T)
  BY DEF TypeOK, LeftBecomes
<1> QED BY <1>1, <1>2

LEMMA RowAtMost ==
  ASSUME TypeOK, NEW u \in Units, NEW k \in Kinds, NEW st, SaveStage(u, 0, k, st)
  PROVE  Saved(u, k, st) /\ \E r : row' = [row EXCEPT ![u] = r]
<1> DEFINE q == [row[u][k] EXCEPT !.st = st]
           r == [row[u] EXCEPT ![k] = q]
<1>1. row' = [row EXCEPT ![u] = r]
  BY DEF SaveStage
<1>2. row[u][k] \in Row
  BY DEF TypeOK
<1>3. q.run = row[u][k].run /\ q.rq = row[u][k].rq /\ q.st = st
  BY <1>2 DEF Row
<1>4. row[u] \in [Kinds -> Row] /\ row'[u] = r
  BY <1>1 DEF TypeOK
<1> HIDE DEF q
<1>5. row'[u][k] = q /\ \A i \in Kinds : i # k => row'[u][i] = row[u][i]
  BY <1>4
<1> QED BY <1>1, <1>3, <1>5 DEF Saved

\* The shapes of the actions, one lemma for each of their groups.
LEMMA UnitWeb ==
  ASSUME TypeOK, NEW u \in Units, WebRequest(u)
  PROVE  \A v \in Units : UnitStep(v)
<1>1. CASE CreateAllocationsRequests(u) \/ LockSandbox(u) \/ UnlockSandbox(u)
  BY <1>1, UnitUnchanged DEF CreateAllocationsRequests, LockSandbox, UnlockSandbox
<1>2. CASE DeleteCleanupRequest(u)
  <2>1. /\ \A k \in Kinds : row'[u][k] = IF k \in CleanupKinds THEN NoRow ELSE row[u][k]
        /\ \E r : row' = [row EXCEPT ![u] = r]
    <3> DEFINE r == [k \in Kinds |-> IF k \in CleanupKinds THEN NoRow ELSE row[u][k]]
    <3>1. row' = [row EXCEPT ![u] = r]
      BY <1>2 DEF DeleteCleanupRequest
    <3>2. row'[u] = r
      BY <3>1 DEF TypeOK
    <3> QED BY <3>1, <3>2
  <2>2. left' = left /\ Turn(u)
    BY <1>2 DEF DeleteCleanupRequest
  <2>3. UnitStep(u)
    BY <2>1, <2>2 DEF UnitStep, RowsGone, LeftKept
  <2> QED BY <2>1, <2>2, <2>3, UnitElsewhere
<1>3. ASSUME NEW o \in Ops, RestartRequest(u, o) \/ CreateCleanupRequest(u, o)
      PROVE  \A v \in Units : UnitStep(v)
  BY <1>3, UnitUnchanged DEF RestartRequest, CreateCleanupRequest
<1>4. ASSUME NEW o \in Ops, NEW kind, Asks(u, o, kind), NEW S \in {AllocKinds, CleanupKinds},
             row' = row, left' = [left EXCEPT ![u][<<o, "web">>] = Snapshot(u, S)]
      PROVE  \A v \in Units : UnitStep(v)
  <2>1. <<o, "web">> \in Cancellers
    BY DEF Cancellers
  <2>2. LeftBecomes(u, <<o, "web">>, Snapshot(u, S)) /\ \E l : left' = [left EXCEPT ![u] = l]
    BY <1>4, <2>1, LeftAtMost
  <2>3. UnitStep(u)
    BY <1>4, <2>2 DEF UnitStep, RowsRead, RowsKept, Asks
  <2> QED BY <1>4, <2>2, <2>3, UnitElsewhere
<1>5. ASSUME NEW o \in Ops, CancelAllocationRequest(u, o) \/ CancelCleanupRequest(u, o)
      PROVE  \A v \in Units : UnitStep(v)
  BY <1>4, <1>5 DEF CancelAllocationRequest, CancelCleanupRequest, CancelRequest
<1>6. ASSUME NEW o \in Ops, CreateCleanupRequestForce(u, o)
      PROVE  \A v \in Units : UnitStep(v)
  <2>1. /\ Asks(u, o, "force") /\ row' = row
        /\ left' = left \/ left' = [left EXCEPT ![u][<<o, "web">>] = Snapshot(u, AllocKinds)]
    BY <1>6 DEF CreateCleanupRequestForce
  <2> QED BY <1>4, <2>1, UnitUnchanged
<1> QED BY <1>1, <1>2, <1>3, <1>5, <1>6 DEF WebRequest

LEMMA UnitOrchestration ==
  ASSUME TypeOK, NEW u \in Units, NEW o \in Ops, Orchestration(u, o)
  PROVE  \A v \in Units : UnitStep(v)
<1> USE DEF Orchestrates
<1>1. ASSUME NEW S \in SUBSET Kinds, Restage(u, o, S), StartChain(u, o, S), left' = left,
             \/ op[u][o].pc = "queued" /\ Turn(u) /\ S \in {AllocKinds, CleanupKinds}
             \/ /\ op[u][o].pc = "restage" /\ S = FailedStages(u)
                /\ HasStages(u, AllocKinds) /\ IsFinished(u, AllocKinds)
      PROVE  \A v \in Units : UnitStep(v)
  <2>1. /\ \A k \in Kinds : row'[u][k] = IF k \in S THEN NewRow(o) ELSE row[u][k]
        /\ \E r : row' = [row EXCEPT ![u] = r]
    <3> DEFINE r == [k \in Kinds |-> IF k \in S THEN NewRow(o) ELSE row[u][k]]
    <3>1. row' = [row EXCEPT ![u] = r]
      BY <1>1 DEF Restage
    <3>2. row'[u] = r
      BY <3>1 DEF TypeOK
    <3> QED BY <3>1, <3>2
  <2>2. op'[u][o].pc = "enqueue" /\ op'[u][o].plan = S
    BY <1>1 DEF StartChain, TypeOK, Op
  <2>3. RowsMade(u, o)
    BY <1>1, <2>1, <2>2 DEF RowsMade, LeftKept
  <2> QED BY <1>1, <2>1, <2>3, UnitElsewhere DEF UnitStep
<1>2. CASE CreateAllocationJobs(u, o)
  BY <1>1, <1>2, KindValues DEF CreateAllocationJobs
<1>3. CASE ReplaceSandbox(u, o)
  BY <1>3, UnitUnchanged DEF ReplaceSandbox, FailOrchestration
<1>4. CASE RestartStageHandlers(u, o)
  <2>1. FailedStages(u) \in SUBSET Kinds
    BY DEF FailedStages, Kinds, AllocKinds
  <2> QED BY <1>1, <1>4, <2>1, UnitUnchanged DEF RestartStageHandlers, FailOrchestration
<1>5. CASE CreateCleanupJobs(u, o)
  BY <1>1, <1>5, KindValues, UnitUnchanged DEF CreateCleanupJobs, FailOrchestration
<1>6. CASE EnqueueStage(u, o) \/ EnqueueFinalizer(u, o)
  BY <1>6, UnitUnchanged DEF EnqueueStage, EnqueueFinalizer
<1>7. CASE SetJobId(u, o)
  <2>1. CASE FailOrchestration(u, o)
    BY <2>1, UnitUnchanged DEF FailOrchestration
  <2>2. CASE ~FailOrchestration(u, o)
    <3>1. PICK k \in First(op[u][o].todo) :
            /\ row[u][k].run = o
            /\ row' = [row EXCEPT ![u][k].rq = TRUE]
            /\ op' = [op EXCEPT ![u][o] = [@ EXCEPT !.pc = "enqueue", !.todo = op[u][o].todo \ {k}]]
            /\ left' = left /\ op[u][o].pc = "setid"
      BY <1>7, <2>2 DEF SetJobId
    <3> DEFINE q == [row[u][k] EXCEPT !.rq = TRUE]
               r == [row[u] EXCEPT ![k] = q]
    <3>2. row' = [row EXCEPT ![u] = r]
      BY <3>1
    <3>3. k \in Kinds
      BY DEF First, TypeOK, Op
    <3>4. row[u][k] \in Row /\ row[u] \in [Kinds -> Row]
      BY <3>3 DEF TypeOK
    <3>5. q.run = row[u][k].run /\ q.rq = TRUE /\ q.st = row[u][k].st
      BY <3>4 DEF Row
    <3>6. row'[u] = r
      BY <3>2 DEF TypeOK
    <3>7. row'[u][k] = q /\ \A i \in Kinds : i # k => row'[u][i] = row[u][i]
      BY <3>3, <3>4, <3>6
    <3>8. /\ op'[u][o].pc = "enqueue" /\ op'[u][o].plan = op[u][o].plan
          /\ op'[u][o].todo = op[u][o].todo \ {k}
      BY <3>1 DEF TypeOK, Op
    <3> HIDE DEF q, r
    <3>9. RowTied(u, o)
      BY <3>1, <3>3, <3>5, <3>7, <3>8 DEF RowTied, LeftKept
    <3> QED BY <3>1, <3>2, <3>9, UnitElsewhere DEF UnitStep
  <2> QED BY <2>1, <2>2
<1> QED BY <1>2, <1>3, <1>4, <1>5, <1>6, <1>7 DEF Orchestration

LEMMA UnitExecution ==
  ASSUME TypeOK, NEW u \in Units, NEW o \in Ops, Execution(u, o)
  PROVE  \A v \in Units : UnitStep(v)
<1>1. ASSUME NEW j \in Kinds \union {"netbird"}, TakeJob(u, o, j)
      PROVE  \A v \in Units : UnitStep(v)
  BY <1>1, UnitUnchanged DEF TakeJob
<1>2. CASE ProvisionNetbird(u, o) \/ MarkSandboxAsReady(u, o) \/ DecrementPoolSize(u, o)
  BY <1>2, UnitUnchanged DEF ProvisionNetbird, MarkSandboxAsReady, DecrementPoolSize
<1>3. CASE DeleteAllocationUnit(u, o)
  <2>1. CASE row' = row /\ left' = left
    BY <2>1, UnitUnchanged
  <2>2. CASE row' = [row EXCEPT ![u] = [k \in Kinds |-> NoRow]] /\ left' = left
    <3>1. row'[u] = [k \in Kinds |-> NoRow]
      BY <2>2 DEF TypeOK
    <3>2. \A k \in Kinds : row'[u][k] = IF k \in Kinds THEN NoRow ELSE row[u][k]
      BY <3>1
    <3>3. RowsGone(u)
      BY <1>3, <2>2, <3>2 DEF RowsGone, LeftKept, DeleteAllocationUnit
    <3> QED BY <2>2, <3>3, UnitElsewhere DEF UnitStep
  <2> QED BY <1>3, <2>1, <2>2 DEF DeleteAllocationUnit
<1>4. ASSUME NEW k \in Kinds, NEW st, SaveStage(u, o, k, st), row[u][k].run = o, Turn(u), left' = left,
             \/ st = "running" /\ work[u][o][k] = "picked" /\ SetWork(u, o, k, "busy")
             \/ st = "done" /\ work[u][o][k] = "busy" /\ SetWork(u, o, k, "succeeded")
             \/ st = "failed" /\ work[u][o][k] = "busy" /\ SetWork(u, o, k, "exc")
      PROVE  \A v \in Units : UnitStep(v)
  <2>1. Saved(u, k, st) /\ \E r : row' = [row EXCEPT ![u] = r]
    <3>1. SaveStage(u, 0, k, st)
      BY <1>4 DEF SaveStage
    <3> QED BY <3>1, RowAtMost
  <2>2. \A w : SetWork(u, o, k, w) => work'[u][o][k] = w
    BY KindValues DEF SetWork, TypeOK
  <2>3. RowSaved(u, o, k)
    BY <1>4, <2>1, <2>2 DEF RowSaved, LeftKept
  <2> QED BY <1>4, <2>1, <2>3, UnitElsewhere DEF UnitStep
<1>5. ASSUME NEW k \in Kinds, ExecuteStart(u, o, k) \/ ExecuteEnd(u, o, k) \/ ExecuteFail(u, o, k)
      PROVE  \A v \in Units : UnitStep(v)
  <2>1. CASE row' = row
    BY <1>5, <2>1, UnitUnchanged DEF ExecuteStart, ExecuteEnd, ExecuteFail
  <2>2. CASE row' # row
    <3>1. CASE ExecuteStart(u, o, k)
      BY <1>4, <2>2, <3>1 DEF ExecuteStart
    <3>2. CASE ExecuteEnd(u, o, k)
      BY <1>4, <2>2, <3>2 DEF ExecuteEnd
    <3>3. CASE ExecuteFail(u, o, k)
      BY <1>4, <2>2, <3>3 DEF ExecuteFail
    <3> QED BY <1>5, <3>1, <3>2, <3>3
  <2> QED BY <2>1, <2>2
<1>6. ASSUME NEW k \in Kinds, RequestExceptionHandler(u, o, k)
      PROVE  \A v \in Units : UnitStep(v)
  <2>1. PICK T \in {{}, Snapshot(u, RequestKinds(k))} :
          /\ row[u][k].run = o /\ row[u][k].rq /\ HasStages(u, RequestKinds(k))
               => T = Snapshot(u, RequestKinds(k))
          /\ left' = [left EXCEPT ![u][<<o, k>>] = T]
    BY <1>6 DEF RequestExceptionHandler
  <2>2. <<o, k>> \in Cancellers
    BY DEF Cancellers
  <2>3. LeftBecomes(u, <<o, k>>, T) /\ \E l : left' = [left EXCEPT ![u] = l]
    BY <2>1, <2>2, LeftAtMost
  <2>4. /\ work[u][o][k] = "exc" /\ Turn(u) /\ row' = row /\ work'[u][o][k] = "ended"
    BY <1>6, KindValues DEF RequestExceptionHandler, SetWork, TypeOK
  <2>5. FailureRead(u, o, k)
    BY <2>1, <2>3, <2>4 DEF FailureRead, RowsKept
  <2> QED BY <2>3, <2>4, <2>5, UnitElsewhere DEF UnitStep
<1> QED BY <1>1, <1>2, <1>3, <1>5, <1>6 DEF Execution

LEMMA UnitCancelStage ==
  ASSUME TypeOK, NEW u \in Units, NEW c \in Cancellers, CancelStage(u, c)
  PROVE  \A v \in Units : UnitStep(v)
<1>1. PICK s \in left[u][c] :
        /\ Turn(u) /\ \A t \in left[u][c] : Rank[t[1]] <= Rank[s[1]]
        /\ \/ /\ row[u][s[1]].run = s[2] /\ SaveStage(u, s[2], s[1], "failed")
              /\ row[u][s[1]].rq => job' = [job EXCEPT ![u][s[2]] = DeletedJob(@, Deps(u, s[2]), s[1])]
              /\ left' = [left EXCEPT ![u][c] = @ \ {s}]
           \/ /\ row[u][s[1]].run # s[2] /\ row' = row
              /\ left' = [left EXCEPT ![u][c] = {}]
  BY Zenon DEF CancelStage
<1> DEFINE k == s[1]
           o == s[2]
           js == DeletedJob(job[u][o], Deps(u, o), k)
<1>2. k \in Kinds /\ o \in Ops /\ s = <<k, o>>
  BY Pairs DEF TypeOK
<1>3. CASE /\ row[u][k].run = o /\ SaveStage(u, o, k, "failed")
           /\ row[u][k].rq => job' = [job EXCEPT ![u][o] = js]
           /\ left' = [left EXCEPT ![u][c] = @ \ {s}]
  <2>0. js = DeletedJob(job[u][o], Deps(u, o), k)
    OBVIOUS
  <2> HIDE DEF k, o, js
  <2>1. Saved(u, k, "failed") /\ \E r : row' = [row EXCEPT ![u] = r]
    <3>1. SaveStage(u, 0, k, "failed")
      BY <1>3 DEF SaveStage
    <3> QED BY <1>2, <3>1, RowAtMost
  <2>2. LeftBecomes(u, c, left[u][c] \ {s}) /\ \E l : left' = [left EXCEPT ![u] = l]
    BY <1>3, LeftAtMost
  <2>3. row[u][k].rq => job'[u][o] = js
    BY <1>2, <1>3 DEF TypeOK
  <2>4. \A t \in left[u][c] : Rank[t[1]] <= Rank[k]
    BY <1>1 DEF k
  <2>5. RowCancelled(u, c, k, o)
    BY <1>1, <1>2, <1>3, <2>0, <2>1, <2>2, <2>3, <2>4 DEF RowCancelled
  <2> QED BY <1>2, <2>1, <2>2, <2>5, UnitElsewhere DEF UnitStep
<1>4. CASE row[u][k].run # o /\ row' = row /\ left' = [left EXCEPT ![u][c] = {}]
  <2>1. LeftBecomes(u, c, {}) /\ \E l : left' = [left EXCEPT ![u] = l]
    BY <1>4, LeftAtMost
  <2>2. CancelMissed(u, c, k, o)
    BY <1>1, <1>2, <1>4, <2>1 DEF CancelMissed, RowsKept
  <2> HIDE DEF k, o
  <2> QED BY <1>2, <1>4, <2>1, <2>2, UnitElsewhere DEF UnitStep
<1> QED BY <1>1, <1>3, <1>4

\* Every step has one of these shapes for every unit.
LEMMA UnitSteps ==
  ASSUME TypeOK, [Next]_vars
  PROVE  \A u \in Units : UnitStep(u)
<1>1. ASSUME NEW u \in Units, NEW o \in Ops, WebContinues(u, o) \/ Crash(u, o)
      PROVE  row' = row /\ left' = left
  BY <1>1 DEF WebContinues, CancelDone, DeleteSandbox, Crash, CrashOrchestration, CrashJob,
     FailOrchestration
<1>2. CASE UNCHANGED vars
  BY <1>2, UnitUnchanged DEF vars
<1> QED BY <1>1, <1>2, UnitUnchanged, UnitWeb, UnitOrchestration, UnitExecution, UnitCancelStage
     DEF Next

-----------------------------------------------------------------------------
(* The stages of a request run in order.                                      *)

\* Where an operation is with its chain: enqueueing it, before it, past it.
Enqueueing == {"enqueue", "setid"}
Unstarted == {"idle", "cancel", "delete", "queued", "restage"}
Over == {"done", "failed"}

\* Job i of a chain is enqueued after its stage k.
After(i, k) == i = "final" \/ (i \in Kinds /\ Rank[k] < Rank[i])

\* The jobs that a chain has not been given yet.
Ahead(u, o) ==
  {"final"} \union
  (IF op[u][o].pc = "setid" THEN op[u][o].todo \ First(op[u][o].todo) ELSE op[u][o].todo)

\* The job has been handed to a worker.
Ran(u, o, j) == job[u][o][j] \in {"queued", "started", "finished"} \/ work[u][o][j] # "idle"

\* A chain before and while it is enqueued.
ChainBegun(u, o) ==
  /\ \/ op[u][o].plan = {}
     \/ "user" \in op[u][o].plan /\ op[u][o].plan \subseteq AllocKinds
     \/ op[u][o].plan = CleanupKinds
  /\ op[u][o].todo \subseteq op[u][o].plan
  /\ op[u][o].pc \in Unstarted =>
       /\ op[u][o].plan = {}
       /\ \A j \in Jobs : job[u][o][j] = "none" /\ work[u][o][j] = "idle"
  /\ op[u][o].pc \in Enqueueing =>
       /\ op[u][o].plan # {}
       /\ \A j \in Jobs : job[u][o][j] \in {"none", "queued", "deferred"} /\ work[u][o][j] = "idle"
       /\ \A j \in Ahead(u, o) : job[u][o][j] = "none"
  /\ op[u][o].pc = "setid" => \A k \in First(op[u][o].todo) : job[u][o][k] # "none"

\* What the status of a job says of the jobs that it depends on.
JobsInOrder(u, o) ==
  /\ job[u][o]["netbird"] \notin {"deferred", "deleted"}
  /\ \A j \in Jobs :
       /\ job[u][o][j] \in {"none", "deferred", "queued"} => work[u][o][j] = "idle"
       /\ job[u][o][j] = "finished" => work[u][o][j] = "succeeded"
       /\ Ran(u, o, j) => \A d \in Deps(u, o)[j] : work[u][o][d] = "succeeded"
       /\ job[u][o][j] = "deferred" => \A d \in Deps(u, o)[j] : job[u][o][d] # "deleted"

\* The rows of the stages that a chain is enqueued for are untouched.
RowsFresh(u, o) ==
  op[u][o].pc \in Enqueueing => \A k \in op[u][o].plan :
    /\ row[u][k].run = o /\ row[u][k].st = "new"
    /\ k \notin op[u][o].todo => row[u][k].rq

\* The row that operation o has made for stage k agrees with the job of the stage.
RowMatches(u, o, k) ==
  row[u][k].run = o =>
    /\ k \in op[u][o].plan /\ op[u][o].pc \notin Unstarted
    /\ job[u][o][k] \in {"none", "deferred", "queued"} =>
         /\ row[u][k].st \in {"new", "failed"}
         /\ row[u][k].rq => row[u][k].st = "new"
    /\ work[u][o][k] \in {"picked", "busy"} => row[u][k].st # "done"
    /\ row[u][k].rq => job[u][o][k] # "none"
    /\ \A i \in Kinds \union {"final"} :
         After(i, k) /\ job[u][o][i] # "none" => row[u][k].rq

RowsMatch(u, o) == \A k \in Kinds : RowMatches(u, o, k)

\* The row of a stage that waits is replaced with those of the stages before it.
RowsTogether(u, o) ==
  \A k, d \in op[u][o].plan, i \in Kinds \union {"final"} :
    job[u][o][k] = "deferred" /\ After(i, k) /\ job[u][o][i] # "none" /\ row[u][d].run = o
      => row[u][k].run = o

\* A cancellation has read all the stages that follow one it has read.
LeftInOrder(u, o) ==
  \A c \in Cancellers, d \in Kinds : <<d, o>> \in left[u][c] =>
    /\ d \in op[u][o].plan /\ op[u][o].pc \in Over
    /\ \A k \in Kinds : row[u][k].run = o /\ row[u][k].st = "new" /\ Rank[d] < Rank[k]
                          => <<k, o>> \in left[u][c]

\* No two operations of a unit are enqueued at the same time: nobody acts between
\* two turns of the loop.
OneAtATime(u) ==
  \A o, p \in Ops : op[u][o].pc \in Enqueueing \union {"restage"}
                      /\ op[u][p].pc \in Enqueueing \union {"restage"} => o = p

ChainInOrder(u, o) == ChainBegun(u, o) /\ JobsInOrder(u, o)
RowsInOrder(u, o) ==
  RowsFresh(u, o) /\ RowsMatch(u, o) /\ RowsTogether(u, o) /\ LeftInOrder(u, o)

\* The inductive invariant behind the order of the stages.  A job has run only after
\* those it depends on have succeeded; a stage can lose its job to a cancellation, and
\* then so do the later stages, because a cancellation has read them all; and a job that
\* is replaced on a restart has its row replaced with it, with the rows before it.
InOrder ==
  /\ Cancelling
  /\ \A u \in Units : OneAtATime(u)
  /\ \A u \in Units, o \in Ops : ChainInOrder(u, o) /\ RowsInOrder(u, o)

-----------------------------------------------------------------------------
\* Nobody else has the turn while a chain is being enqueued.
LEMMA NoTurn ==
  ASSUME "slow" \notin Faults, NEW u \in Units, NEW o \in Ops, Turn(u)
  PROVE  op[u][o].pc \notin Enqueueing \union {"restage"}
  BY DEF Turn, Orchestrating, Enqueueing

\* A job depends on stages of its own chain that come before it, and the user stage
\* on the NetBird job.
LEMMA DepsBefore ==
  ASSUME TypeOK, NEW u \in Units, NEW o \in Ops
  PROVE  /\ \A j \in Jobs : \A d \in Deps(u, o)[j] :
              \/ d \in op[u][o].plan /\ After(j, d)
              \/ d = "netbird" /\ j = "user"
         /\ Deps(u, o)["netbird"] = {}
<1>1. "final" \notin Kinds /\ "netbird" \notin Kinds /\ Jobs = Kinds \union {"netbird", "final"}
  BY DEF Jobs, Kinds, AllocKinds, CleanupKinds
<1>2. ASSUME NEW S, NEW d \in Last(S)
      PROVE  d \in S
  BY <1>2 DEF Last
<1> DEFINE plan == op[u][o].plan
           previous(k) == Last({i \in plan : Rank[i] < Rank[k]})
<1>3. \A k \in Jobs : \A d \in previous(k) : d \in plan /\ Rank[d] < Rank[k]
  BY <1>2
<1>4. Deps(u, o) = [j \in Jobs |->
        CASE j = "final"   -> Last(plan)
          [] j = "netbird" -> {}
          [] j = "user"    -> previous(j) \union (IF Netbird THEN {"netbird"} ELSE {})
          [] OTHER         -> previous(j)]
  BY DEF Deps
<1> HIDE DEF previous, plan
<1>5. Deps(u, o)["netbird"] = {}
  BY <1>1, <1>4
<1>6. ASSUME NEW j \in Jobs, NEW d \in Deps(u, o)[j]
      PROVE  (d \in plan /\ After(j, d)) \/ (d = "netbird" /\ j = "user")
  <2>1. CASE j = "final"
    BY <1>2, <1>4, <1>6, <2>1 DEF After
  <2>2. CASE j = "netbird"
    BY <1>5, <1>6, <2>2
  <2>3. CASE j = "user"
    <3>1. d \in previous(j) \/ d = "netbird"
      BY <1>4, <1>6, <2>3
    <3> QED BY <1>1, <1>3, <2>3, <3>1, KindValues DEF After
  <2>4. CASE j \in Kinds \ {"user"}
    <3>1. d \in previous(j)
      BY <1>1, <1>4, <1>6, <2>4
    <3> QED BY <1>3, <2>4, <3>1 DEF After
  <2> QED BY <1>1, <2>1, <2>2, <2>3, <2>4
<1> QED BY <1>5, <1>6 DEF plan

LEMMA DepsKept ==
  ASSUME NEW u \in Units, NEW o \in Ops, op'[u][o].plan = op[u][o].plan
  PROVE  Deps(u, o)' = Deps(u, o)
  BY DEF Deps

\* The stages of one request have different ranks.
LEMMA FirstIsOne ==
  ASSUME NEW S, S \subseteq AllocKinds \/ S \subseteq CleanupKinds, NEW k \in First(S)
  PROVE  First(S) = {k}
<1>1. \A i \in First(S) : i \in S /\ k \in S /\ Rank[i] <= Rank[k] /\ Rank[k] <= Rank[i]
  BY DEF First
<1>2. \A i, j \in AllocKinds : Rank[i] <= Rank[j] /\ Rank[j] <= Rank[i] => i = j
  BY DEF Rank, Kinds, AllocKinds, CleanupKinds
<1>3. \A i, j \in CleanupKinds : Rank[i] <= Rank[j] /\ Rank[j] <= Rank[i] => i = j
  BY DEF Rank, Kinds, AllocKinds, CleanupKinds
<1> QED BY <1>1, <1>2, <1>3

\* Nobody works for a chain that is not complete, and nobody cancels it.
LEMMA NobodyWorks ==
  ASSUME TypeOK, "slow" \notin Faults, NEW u \in Units, NEW o \in Ops,
         ChainBegun(u, o), RowsMatch(u, o),
         op[u][o].pc \in Enqueueing \union Unstarted
  PROVE  ~Works(u, o) /\ ~LosesJob(u, o)
<1>1. \A j \in Jobs : work[u][o][j] = "idle" /\ job[u][o][j] \in {"none", "queued", "deferred"}
  BY DEF ChainBegun
<1>2. op[u][o].pc \in Unstarted => \A j \in Jobs : job[u][o][j] = "none"
  BY DEF ChainBegun
<1>3. op[u][o].pc \in Enqueueing => job[u][o]["final"] = "none" /\ ~Turn(u)
  BY NoTurn DEF ChainBegun, Ahead
<1>4. ~Works(u, o)
  <2> SUFFICES ASSUME NEW j \in Jobs
      PROVE ~Takes(u, o, j) /\ ~EndsWell(u, o, j) /\ ~EndsBadly(u, o, j) /\ ~CountsOut(u, o, j)
              /\ ~Proceeds(u, o, j)
    BY DEF Works
  <2> QED BY <1>1, <1>2, <1>3 DEF Takes, EndsWell, EndsBadly, CountsOut, Proceeds, AtWork
<1>5. ~LosesJob(u, o)
  BY <1>3 DEF LosesJob, RowsMatch, RowMatches
<1> QED BY <1>4, <1>5

LEMMA StepChainBegun ==
  ASSUME TypeOK, "slow" \notin Faults, NEW u \in Units, NEW o \in Ops, ChainStep(u, o),
         ChainBegun(u, o), RowsMatch(u, o)
  PROVE  ChainBegun(u, o)'
<1> USE DEF Enqueueing, Unstarted
<1>0. /\ job[u][o] \in [Jobs -> JobStatus] /\ op[u][o].plan \subseteq Kinds
      /\ op[u][o].todo \subseteq Kinds /\ Kinds \subseteq Jobs /\ "final" \in Jobs /\ "netbird" \in Jobs
      /\ "final" \notin Kinds /\ "netbird" \notin Kinds
  BY DEF TypeOK, Op, Jobs, Kinds, AllocKinds, CleanupKinds
<1>1. CASE SameChain(u, o)
  BY <1>1 DEF SameChain, SameJobs, ChainBegun, Ahead
<1>2. CASE IsAsked(u, o)
  BY <1>2 DEF IsAsked, SameJobs, ChainBegun
<1>3. CASE MovesOn(u, o)
  <2>1. op'[u][o].pc \notin {"enqueue", "setid"}
    BY <1>3 DEF MovesOn, Goes
  <2>2. op'[u][o].pc \in Unstarted => op[u][o].pc \in Unstarted
    BY <1>3 DEF MovesOn, Goes
  <2>3. op'[u][o].plan = op[u][o].plan /\ op'[u][o].todo = op[u][o].todo /\ SameJobs(u, o)
    BY <1>3 DEF MovesOn, Goes, KeepsPlan
  <2> QED BY <2>1, <2>2, <2>3 DEF ChainBegun, SameJobs
<1>4. CASE IsStarted(u, o)
  <2>1. PICK S \in Chains(u, o) :
          /\ op'[u][o].pc = "enqueue" /\ op'[u][o].plan = S /\ op'[u][o].todo = S
          /\ job'[u][o] = [job[u][o] EXCEPT !["netbird"] = "queued"] \/ job'[u][o] = job[u][o]
    BY <1>4 DEF IsStarted
  <2>2. work'[u][o] = work[u][o] /\ op[u][o].pc \in Unstarted
    BY <1>4 DEF IsStarted, Chains
  <2>3. \A j \in Jobs : job[u][o][j] = "none" /\ work'[u][o][j] = "idle"
    BY <2>2 DEF ChainBegun
  <2>4. \A j \in Jobs : job'[u][o][j] = "none" \/ (j = "netbird" /\ job'[u][o][j] = "queued")
    BY <1>0, <2>1, <2>3
  <2>5. /\ S # {} /\ S \subseteq Kinds
        /\ ("user" \in S /\ S \subseteq AllocKinds) \/ S = CleanupKinds
    BY <2>1 DEF Chains, AllocKinds, CleanupKinds, Kinds
  <2>6. Ahead(u, o)' = {"final"} \union S
    BY <2>1 DEF Ahead
  <2> QED BY <1>0, <2>1, <2>3, <2>4, <2>5, <2>6 DEF ChainBegun
<1>5. CASE IsEnqueued(u, o)
  <2>1. PICK k \in First(op[u][o].todo) : job'[u][o] = EnqueuedJob(job[u][o], Deps(u, o), k)
    BY <1>5 DEF IsEnqueued
  <2>2. /\ op[u][o].pc = "enqueue" /\ op'[u][o].pc = "setid" /\ work'[u][o] = work[u][o]
        /\ op'[u][o].plan = op[u][o].plan /\ op'[u][o].todo = op[u][o].todo
    BY <1>5 DEF IsEnqueued, Goes, KeepsPlan
  <2>3. k \in op[u][o].todo
    BY DEF First
  <2>4. job'[u][o][k] \in {"queued", "deferred"} /\ \A j \in Jobs : j # k => job'[u][o][j] = job[u][o][j]
    BY <1>0, <2>1, <2>3 DEF EnqueuedJob
  <2>5. Ahead(u, o)' \subseteq Ahead(u, o) \ {k}
    BY <1>0, <2>1, <2>2, <2>3 DEF Ahead
  <2>6. Ahead(u, o) \subseteq Jobs
    BY <1>0 DEF Ahead
  <2>7. \A j \in Ahead(u, o)' : job'[u][o][j] = "none"
    BY <2>2, <2>4, <2>5, <2>6 DEF ChainBegun
  <2>8. \A j \in Jobs : job'[u][o][j] \in {"none", "queued", "deferred"} /\ work'[u][o][j] = "idle"
    BY <2>2, <2>4 DEF ChainBegun
  <2>9. op[u][o].plan # {}
    BY <2>2 DEF ChainBegun
  <2>10. op[u][o].todo \subseteq op[u][o].plan
    BY DEF ChainBegun
  <2>11. \/ op[u][o].plan = {}
         \/ "user" \in op[u][o].plan /\ op[u][o].plan \subseteq AllocKinds
         \/ op[u][o].plan = CleanupKinds
    BY DEF ChainBegun
  <2>12. First(op'[u][o].todo) = {k}
    <3>1. op[u][o].todo \subseteq AllocKinds \/ op[u][o].todo \subseteq CleanupKinds
      BY <2>10, <2>11
    <3> QED BY <2>1, <2>2, <3>1, FirstIsOne
  <2> QED BY <2>2, <2>4, <2>7, <2>8, <2>9, <2>10, <2>11, <2>12 DEF ChainBegun
<1>6. CASE IsTied(u, o)
  <2>1. PICK k \in First(op[u][o].todo) : op'[u][o].todo = op[u][o].todo \ {k}
    BY <1>6 DEF IsTied
  <2>2. /\ op[u][o].pc = "setid" /\ op'[u][o].pc = "enqueue" /\ SameJobs(u, o)
        /\ op'[u][o].plan = op[u][o].plan
    BY <1>6 DEF IsTied, KeepsPlan
  <2>3. First(op[u][o].todo) = {k}
    <3>1. op[u][o].todo \subseteq AllocKinds \/ op[u][o].todo \subseteq CleanupKinds
      BY DEF ChainBegun
    <3> QED BY <2>1, <3>1, FirstIsOne
  <2>4. Ahead(u, o)' = Ahead(u, o)
    BY <2>1, <2>2, <2>3 DEF Ahead
  <2>5. op'[u][o].todo \subseteq op'[u][o].plan
    BY <2>1, <2>2 DEF ChainBegun
  <2> QED BY <2>2, <2>4, <2>5 DEF ChainBegun, SameJobs
<1>7. CASE IsClosed(u, o)
  <2>1. /\ op'[u][o].pc = "done"
        /\ op'[u][o].plan = op[u][o].plan /\ op'[u][o].todo = op[u][o].todo
    BY <1>7 DEF IsClosed, Goes, KeepsPlan
  <2> QED BY <2>1 DEF ChainBegun
<1>8. CASE Works(u, o) \/ LosesJob(u, o)
  <2>1. op[u][o].pc \notin Enqueueing \union Unstarted
    BY <1>8, NobodyWorks
  <2>2. op'[u][o] = op[u][o]
    BY <1>8 DEF Works, LosesJob
  <2> QED BY <2>1, <2>2 DEF ChainBegun
<1> QED BY <1>1, <1>2, <1>3, <1>4, <1>5, <1>6, <1>7, <1>8 DEF ChainStep

\* A job that has been enqueued waits, unless it depends on nothing.
LEMMA EnqueuedInOrder ==
  ASSUME TypeOK, NEW u \in Units, NEW o \in Ops, JobsInOrder(u, o), NEW k \in Jobs, k # "netbird",
         \A j \in Jobs : job[u][o][j] \in {"none", "queued", "deferred"} /\ work[u][o][j] = "idle",
         job'[u][o] = EnqueuedJob(job[u][o], Deps(u, o), k), work'[u][o] = work[u][o],
         op'[u][o].plan = op[u][o].plan
  PROVE  JobsInOrder(u, o)'
<1>0. /\ job[u][o] \in [Jobs -> JobStatus] /\ "netbird" \in Jobs /\ Deps(u, o)' = Deps(u, o)
      /\ \A j \in Jobs : Deps(u, o)[j] \subseteq Jobs
  <2>1. op[u][o].plan \subseteq Jobs
    BY DEF TypeOK, Op, Jobs
  <2> QED BY <2>1, KindValues, DepsBefore, DepsKept DEF TypeOK
<1>1. /\ job'[u][o][k] = "deferred" \/ (job'[u][o][k] = "queued" /\ Deps(u, o)[k] = {})
      /\ \A j \in Jobs : j # k => job'[u][o][j] = job[u][o][j]
  <2>1. \A d \in Deps(u, o)[k] : job[u][o][d] \notin Released
    BY <1>0 DEF Released
  <2> QED BY <1>0, <2>1 DEF EnqueuedJob
<1>2. \A j \in Jobs : job'[u][o][j] \in {"none", "queued", "deferred"}
  BY <1>1
<1>3. job'[u][o]["netbird"] \notin {"deferred", "deleted"}
  BY <1>0, <1>1 DEF JobsInOrder
<1>4. ASSUME NEW j \in Jobs
      PROVE  /\ job'[u][o][j] # "finished" /\ work'[u][o][j] = "idle"
             /\ Ran(u, o, j)' => \A d \in Deps(u, o)[j] : work'[u][o][d] = "succeeded"
             /\ \A d \in Deps(u, o)[j] : job'[u][o][d] # "deleted"
  <2>1. CASE j = k
    BY <1>0, <1>1, <1>2, <2>1 DEF Ran
  <2>2. CASE j # k
    <3>1. Ran(u, o, j)' => Ran(u, o, j)
      BY <1>1, <2>2 DEF Ran
    <3> QED BY <1>0, <1>1, <1>2, <2>2, <3>1 DEF JobsInOrder
  <2> QED BY <2>1, <2>2
<1> QED BY <1>0, <1>3, <1>4 DEF JobsInOrder

\* Work on one job: what has succeeded stays so.
LEMMA WorksInOrder ==
  ASSUME TypeOK, NEW u \in Units, NEW o \in Ops, JobsInOrder(u, o), Works(u, o)
  PROVE  JobsInOrder(u, o)'
<1>0. /\ job[u][o] \in [Jobs -> JobStatus] /\ work[u][o] \in [Jobs -> WorkState]
      /\ "netbird" \in Jobs /\ "final" \in Jobs /\ op'[u][o] = op[u][o] /\ Deps(u, o)' = Deps(u, o)
      /\ \A j \in Jobs : Deps(u, o)[j] \subseteq Jobs
  <2>1. op[u][o].plan \subseteq Jobs
    BY DEF TypeOK, Op, Jobs
  <2>2. op'[u][o] = op[u][o] /\ op'[u][o].plan = op[u][o].plan
    BY DEF Works
  <2>3. Deps(u, o)' = Deps(u, o)
    BY <2>2, DepsKept
  <2> QED BY <2>1, <2>2, <2>3, KindValues, DepsBefore DEF TypeOK
<1>1. PICK j \in Jobs : \/ Takes(u, o, j) \/ EndsWell(u, o, j) \/ EndsBadly(u, o, j)
                        \/ CountsOut(u, o, j) \/ Proceeds(u, o, j)
  BY DEF Works
<1>2. work[u][o][j] # "succeeded" /\ Ran(u, o, j) /\ \A i \in Jobs : i # j => work'[u][o][i] = work[u][o][i]
  BY <1>0, <1>1 DEF Takes, EndsWell, EndsBadly, CountsOut, Proceeds, AtWork, JobsInOrder, Sets, Ran
<1>3. work'[u][o][j] # "idle" /\ job'[u][o][j] \in {"started", "finished", "failed", job[u][o][j]}
  BY <1>0, <1>1 DEF Takes, EndsWell, EndsBadly, CountsOut, Proceeds, Sets, Marks, FinishedJob
<1>4. \A i \in Jobs : work[u][o][i] = "succeeded" => work'[u][o][i] = "succeeded"
  BY <1>2
<1>5. /\ job'[u][o][j] \notin {"none", "deferred", "queued"}
      /\ job'[u][o][j] = "finished" => work'[u][o][j] = "succeeded"
      /\ job'[u][o][j] = "deleted" => job[u][o][j] = "deleted"
  <2>1. CASE Proceeds(u, o, j)
    BY <1>0, <2>1 DEF Proceeds, JobsInOrder
  <2>2. CASE ~Proceeds(u, o, j)
    BY <1>0, <1>1, <2>2 DEF Takes, EndsWell, EndsBadly, CountsOut, Sets, Marks, FinishedJob
  <2> QED BY <2>1, <2>2
<1>6. CASE ~EndsWell(u, o, j)
  <2>1. \A i \in Jobs : i # j => job'[u][o][i] = job[u][o][i]
    BY <1>0, <1>1, <1>6 DEF Takes, EndsBadly, CountsOut, Proceeds, Marks
  <2>2. \A i \in Jobs : Ran(u, o, i)' => Ran(u, o, i)
    BY <1>2, <2>1 DEF Ran
  <2>3. ASSUME NEW i \in Jobs
        PROVE  /\ job'[u][o][i] \in {"none", "deferred", "queued"} => work'[u][o][i] = "idle"
               /\ job'[u][o][i] = "finished" => work'[u][o][i] = "succeeded"
               /\ Ran(u, o, i)' => \A d \in Deps(u, o)[i] : work'[u][o][d] = "succeeded"
               /\ job'[u][o][i] = "deferred" => \A d \in Deps(u, o)[i] : job'[u][o][d] # "deleted"
    <3>1. /\ job'[u][o][i] \in {"none", "deferred", "queued"} => work'[u][o][i] = "idle"
          /\ job'[u][o][i] = "finished" => work'[u][o][i] = "succeeded"
      BY <1>2, <1>5, <2>1 DEF JobsInOrder
    <3>2. Ran(u, o, i)' => \A d \in Deps(u, o)[i] : work'[u][o][d] = "succeeded"
      BY <1>0, <1>4, <2>2 DEF JobsInOrder
    <3>3. job'[u][o][i] = "deferred" => \A d \in Deps(u, o)[i] : job'[u][o][d] # "deleted"
      BY <1>0, <1>5, <2>1 DEF JobsInOrder
    <3> QED BY <3>1, <3>2, <3>3
  <2>4. job'[u][o]["netbird"] \notin {"deferred", "deleted"}
    BY <1>0, <1>5, <2>1 DEF JobsInOrder
  <2> QED BY <1>0, <2>3, <2>4 DEF JobsInOrder
<1>7. CASE EndsWell(u, o, j)
  <2>1. /\ job'[u][o] = FinishedJob(job[u][o], Deps(u, o), j) /\ work'[u][o][j] = "succeeded"
    BY <1>0, <1>7 DEF EndsWell, Sets
  <2>2. job'[u][o][j] = "finished"
    BY <1>0, <2>1 DEF FinishedJob
  <2>3. ASSUME NEW i \in Jobs, i # j
        PROVE  \/ job'[u][o][i] = job[u][o][i]
               \/ /\ job[u][o][i] = "deferred" /\ job'[u][o][i] = "queued"
                  /\ \A d \in Deps(u, o)[i] \ {j} : job[u][o][d] \in Released
    BY <1>0, <2>1, <2>3 DEF FinishedJob
  <2>4. \A i \in Jobs : job'[u][o][i] = "deleted" => job[u][o][i] = "deleted"
    BY <2>2, <2>3
  <2>5. ASSUME NEW i \in Jobs
        PROVE  /\ job'[u][o][i] \in {"none", "deferred", "queued"} => work'[u][o][i] = "idle"
               /\ job'[u][o][i] = "finished" => work'[u][o][i] = "succeeded"
               /\ Ran(u, o, i)' => \A d \in Deps(u, o)[i] : work'[u][o][d] = "succeeded"
               /\ job'[u][o][i] = "deferred" => \A d \in Deps(u, o)[i] : job'[u][o][d] # "deleted"
    <3>1. CASE i = j
      BY <1>0, <1>2, <1>4, <2>1, <2>2, <3>1 DEF JobsInOrder
    <3>2. CASE i # j /\ job'[u][o][i] = job[u][o][i]
      <4>1. Ran(u, o, i)' => Ran(u, o, i)
        BY <1>2, <3>2 DEF Ran
      <4> QED BY <1>0, <1>2, <1>4, <2>4, <3>2, <4>1 DEF JobsInOrder
    <3>3. CASE /\ i # j /\ job[u][o][i] = "deferred" /\ job'[u][o][i] = "queued"
               /\ \A d \in Deps(u, o)[i] \ {j} : job[u][o][d] \in Released
      <4>1. work'[u][o][i] = "idle"
        BY <1>2, <3>3 DEF JobsInOrder
      <4>2. ASSUME NEW d \in Deps(u, o)[i]
            PROVE  work'[u][o][d] = "succeeded"
        <5>1. d \in Jobs /\ job[u][o][d] # "deleted"
          BY <1>0, <3>3 DEF JobsInOrder
        <5>2. CASE d = j
          BY <2>1, <5>2
        <5>3. CASE d # j
          <6>1. job[u][o][d] = "finished"
            BY <3>3, <5>1, <5>3 DEF Released
          <6> QED BY <1>4, <5>1, <6>1 DEF JobsInOrder
        <5> QED BY <5>2, <5>3
      <4> QED BY <3>3, <4>1, <4>2
    <3> QED BY <2>3, <3>1, <3>2, <3>3
  <2>6. job'[u][o]["netbird"] \notin {"deferred", "deleted"}
    BY <1>0, <2>2, <2>3 DEF JobsInOrder
  <2> QED BY <1>0, <2>5, <2>6 DEF JobsInOrder
<1> QED BY <1>6, <1>7

\* A cancelled stage takes the jobs that wait for it with it; those that wait for
\* these have been cancelled before.
LEMMA LosesInOrder ==
  ASSUME TypeOK, NEW u \in Units, NEW o \in Ops, JobsInOrder(u, o), LosesJob(u, o),
         RowsMatch(u, o), RowsTogether(u, o), LeftInOrder(u, o)
  PROVE  JobsInOrder(u, o)'
<1>0. /\ job[u][o] \in [Jobs -> JobStatus] /\ Kinds \subseteq Jobs
      /\ "netbird" \in Jobs /\ "netbird" \notin Kinds /\ "final" \notin Kinds
      /\ op[u][o].plan \subseteq Kinds
      /\ op'[u][o] = op[u][o] /\ work'[u][o] = work[u][o] /\ Deps(u, o)' = Deps(u, o)
      /\ \A j \in Jobs : Deps(u, o)[j] \subseteq Jobs
      /\ Jobs = Kinds \union {"netbird", "final"}
  <2>1. op[u][o].plan \subseteq Kinds
    BY DEF TypeOK, Op
  <2> QED BY <2>1, DepsBefore, DepsKept DEF TypeOK, LosesJob, Jobs, Kinds, AllocKinds, CleanupKinds
<1>1. PICK k \in Kinds, c \in Cancellers :
        /\ <<k, o>> \in left[u][c] /\ row[u][k].run = o
        /\ \A t \in left[u][c] : Rank[t[1]] <= Rank[k]
        /\ job'[u][o] = DeletedJob(job[u][o], Deps(u, o), k)
  BY DEF LosesJob
<1>2. \A i \in Jobs :
        \/ /\ job'[u][o][i] = job[u][o][i] /\ i # k
           /\ ~(job[u][o][i] = "deferred" /\ k \in Deps(u, o)[i])
        \/ /\ job'[u][o][i] = "deleted"
           /\ i = k \/ (job[u][o][i] = "deferred" /\ k \in Deps(u, o)[i])
  BY <1>0, <1>1 DEF DeletedJob
<1>3. \A i \in Jobs : Ran(u, o, i)' => Ran(u, o, i)
  BY <1>0, <1>2 DEF Ran
<1>4. job'[u][o]["netbird"] \notin {"deferred", "deleted"}
  BY <1>0, <1>2 DEF JobsInOrder
<1>5. ASSUME NEW i \in Jobs, job'[u][o][i] = "deferred", NEW d \in Deps(u, o)[i], job'[u][o][d] = "deleted"
      PROVE  FALSE
  <2>1. job[u][o][i] = "deferred" /\ k \notin Deps(u, o)[i] /\ d \in Jobs
    BY <1>0, <1>2, <1>5
  <2>2. job[u][o][d] = "deferred" /\ k \in Deps(u, o)[d]
    BY <1>2, <1>5, <2>1 DEF JobsInOrder
  <2>3. d \in op[u][o].plan /\ After(i, d) /\ i \in Kinds \union {"final"}
    <3>1. d # "netbird" /\ i # "netbird"
      BY <2>1, <2>2, <1>5, DepsBefore DEF JobsInOrder
    <3> QED BY <1>0, <1>5, <3>1, DepsBefore
  <2>4. /\ k \in op[u][o].plan /\ Rank[k] < Rank[d] /\ d \in Kinds /\ d # "final"
    <3>1. k \in op[u][o].plan
      BY <1>1 DEF RowsMatch, RowMatches
    <3>2. After(d, k)
      BY <1>0, <2>2, <2>3, DepsBefore
    <3> QED BY <1>0, <2>3, <3>1, <3>2 DEF After
  <2>5. row[u][d].run = o
    BY <1>1, <2>1, <2>2, <2>3, <2>4 DEF RowsTogether
  <2>6. row[u][d].rq /\ row[u][d].st = "new"
    BY <2>1, <2>2, <2>3, <2>4, <2>5 DEF RowsMatch, RowMatches
  <2>7. <<d, o>> \in left[u][c]
    BY <1>1, <2>4, <2>5, <2>6 DEF LeftInOrder
  <2>8. Rank[d] <= Rank[k]
    BY <1>1, <2>7
  <2>9. Rank[d] \in Int /\ Rank[k] \in Int
    BY <2>4 DEF Rank, Kinds, AllocKinds, CleanupKinds
  <2> QED BY <2>4, <2>8, <2>9
<1> QED BY <1>0, <1>2, <1>3, <1>4, <1>5 DEF JobsInOrder

\* The statuses of the jobs stay in order: by the shapes of the step, enqueueing,
\* working and losing a job apart.
LEMMA StepJobsInOrder ==
  ASSUME TypeOK, "slow" \notin Faults, NEW u \in Units, NEW o \in Ops, ChainStep(u, o),
         ChainBegun(u, o), JobsInOrder(u, o),
         RowsMatch(u, o), RowsTogether(u, o), LeftInOrder(u, o)
  PROVE  JobsInOrder(u, o)'
<1> USE DEF Enqueueing, Unstarted
<1>0. "netbird" \in Jobs /\ "final" \in Jobs /\ Kinds \subseteq Jobs /\ "netbird" \notin Kinds
  BY DEF Jobs, Kinds, AllocKinds, CleanupKinds
<1>1. CASE SameChain(u, o)
  <2>1. Deps(u, o)' = Deps(u, o)
    BY <1>1, DepsKept DEF SameChain
  <2> QED BY <1>1, <2>1 DEF SameChain, SameJobs, JobsInOrder, Ran
<1>2. CASE IsAsked(u, o)
  <2>1. \A j \in Jobs : job'[u][o][j] = "none" /\ work'[u][o][j] = "idle"
    BY <1>2 DEF IsAsked, SameJobs, ChainBegun
  <2> QED BY <1>0, <2>1 DEF JobsInOrder, Ran
<1>3. CASE MovesOn(u, o) \/ IsTied(u, o)
  <2>1. op'[u][o].plan = op[u][o].plan /\ SameJobs(u, o)
    BY <1>3 DEF MovesOn, IsTied, Goes, KeepsPlan
  <2>2. Deps(u, o)' = Deps(u, o)
    BY <2>1, DepsKept
  <2> QED BY <2>1, <2>2 DEF SameJobs, JobsInOrder, Ran
<1>4. CASE IsStarted(u, o)
  <2>1. \A j \in Jobs : job[u][o][j] = "none" /\ work[u][o][j] = "idle"
    BY <1>4 DEF IsStarted, Chains, ChainBegun
  <2>2. /\ work'[u][o] = work[u][o]
        /\ job'[u][o] = job[u][o] \/ job'[u][o] = [job[u][o] EXCEPT !["netbird"] = "queued"]
    BY <1>4 DEF IsStarted
  <2>3. \A j \in Jobs :
          /\ work'[u][o][j] = "idle"
          /\ job'[u][o][j] = "none" \/ (j = "netbird" /\ job'[u][o][j] = "queued")
    <3>1. job[u][o] \in [Jobs -> JobStatus]
      BY DEF TypeOK
    <3> QED BY <2>1, <2>2, <3>1
  <2>4. Deps(u, o)'["netbird"] = {}
    <3>1. "netbird" \in Jobs
      BY <1>0
    <3> QED BY <3>1 DEF Deps
  <2> QED BY <1>0, <2>3, <2>4 DEF JobsInOrder, Ran
<1>5. CASE IsEnqueued(u, o)
  <2>1. PICK k \in First(op[u][o].todo) : job'[u][o] = EnqueuedJob(job[u][o], Deps(u, o), k)
    BY <1>5 DEF IsEnqueued
  <2>2. k \in Jobs /\ k # "netbird"
    BY <1>0 DEF First, TypeOK, Op
  <2>3. /\ \A j \in Jobs : job[u][o][j] \in {"none", "queued", "deferred"} /\ work[u][o][j] = "idle"
        /\ work'[u][o] = work[u][o] /\ op'[u][o].plan = op[u][o].plan
    BY <1>5 DEF IsEnqueued, Goes, KeepsPlan, ChainBegun
  <2> QED BY <2>1, <2>2, <2>3, EnqueuedInOrder
<1>6. CASE IsClosed(u, o)
  <2>1. /\ job'[u][o] = EnqueuedJob(job[u][o], Deps(u, o), "final")
        /\ work'[u][o] = work[u][o] /\ op'[u][o].plan = op[u][o].plan
    BY <1>6 DEF IsClosed, Goes, KeepsPlan
  <2>2. \A j \in Jobs : job[u][o][j] \in {"none", "queued", "deferred"} /\ work[u][o][j] = "idle"
    BY <1>6 DEF IsClosed, ChainBegun
  <2> QED BY <1>0, <2>1, <2>2, EnqueuedInOrder
<1>7. CASE Works(u, o)
  BY <1>7, WorksInOrder
<1>8. CASE LosesJob(u, o)
  BY <1>8, LosesInOrder
<1> QED BY <1>1, <1>2, <1>3, <1>4, <1>5, <1>6, <1>7, <1>8 DEF ChainStep

\* What a step leaves of a chain that has been started.
LEMMA StartedStays ==
  ASSUME NEW u \in Units, NEW o \in Ops, ChainStep(u, o), op[u][o].pc \notin Unstarted
  PROVE  /\ op'[u][o].plan = op[u][o].plan /\ op'[u][o].pc \notin Unstarted
         /\ op[u][o].pc \in Over => op'[u][o].pc \in Over
<1> USE DEF Unstarted, Over
<1>1. CASE SameChain(u, o) \/ Works(u, o) \/ LosesJob(u, o)
  BY <1>1 DEF SameChain, Works, LosesJob
<1>2. CASE IsAsked(u, o) \/ IsStarted(u, o)
  BY <1>2 DEF IsAsked, IsStarted, Chains
<1>3. CASE MovesOn(u, o)
  BY <1>3 DEF MovesOn, Goes, KeepsPlan
<1>4. CASE IsEnqueued(u, o) \/ IsTied(u, o) \/ IsClosed(u, o)
  BY <1>4 DEF IsEnqueued, IsTied, IsClosed, Goes, KeepsPlan
<1> QED BY <1>1, <1>2, <1>3, <1>4 DEF ChainStep

Waiting == {"none", "deferred", "queued"}

\* A job of a started chain that has not been enqueued before is enqueued next.
EnqueuedNext(u, o, i) ==
  /\ op[u][o].pc = "enqueue"
  /\ i \in First(op[u][o].todo) \/ (i = "final" /\ op[u][o].todo = {})

\* A job that a chain has been given is not taken back to none.
LEMMA JobsStay ==
  ASSUME TypeOK, NEW u \in Units, NEW o \in Ops, ChainStep(u, o), op[u][o].pc \notin Unstarted,
         JobsInOrder(u, o), RowsMatch(u, o), NEW j \in Kinds \union {"final"}
  PROVE  /\ job[u][o][j] \notin Waiting => job'[u][o][j] \notin Waiting \/ EnqueuedNext(u, o, j)
         /\ job[u][o][j] # "none" => job'[u][o][j] # "none"
         /\ job'[u][o][j] # "none" => job[u][o][j] # "none" \/ EnqueuedNext(u, o, j)
         /\ job'[u][o][j] = "deferred" => job[u][o][j] = "deferred" \/ EnqueuedNext(u, o, j)
         /\ work'[u][o][j] \in {"picked", "busy"} =>
              work[u][o][j] \in {"picked", "busy"} \/ job[u][o][j] = "queued"
<1> USE DEF Waiting
<1>0. /\ job[u][o] \in [Jobs -> JobStatus] /\ work[u][o] \in [Jobs -> WorkState] /\ j \in Jobs
      /\ "final" \in Jobs /\ Kinds \subseteq Jobs
  <2>1. job[u][o] \in [Jobs -> JobStatus] /\ work[u][o] \in [Jobs -> WorkState]
    BY DEF TypeOK
  <2> QED BY <2>1 DEF Jobs
<1>1. CASE SameChain(u, o)
  BY <1>1 DEF SameChain, SameJobs
<1>2. CASE IsAsked(u, o) \/ IsStarted(u, o)
  BY <1>2 DEF IsAsked, IsStarted, Chains, Unstarted
<1>3. CASE MovesOn(u, o) \/ IsTied(u, o)
  BY <1>3 DEF MovesOn, IsTied, SameJobs
<1>4. CASE IsEnqueued(u, o)
  <2>1. PICK k \in First(op[u][o].todo) : job'[u][o] = EnqueuedJob(job[u][o], Deps(u, o), k)
    BY <1>4 DEF IsEnqueued
  <2>2. work'[u][o] = work[u][o] /\ op[u][o].pc = "enqueue"
    BY <1>4 DEF IsEnqueued
  <2>3. j # k => job'[u][o][j] = job[u][o][j]
    BY <1>0, <2>1 DEF EnqueuedJob
  <2>4. j = k => EnqueuedNext(u, o, j) /\ job'[u][o][j] # "none"
    BY <1>0, <2>1, <2>2 DEF EnqueuedJob, EnqueuedNext
  <2> QED BY <2>2, <2>3, <2>4
<1>5. CASE IsClosed(u, o)
  <2>1. /\ work'[u][o] = work[u][o] /\ op[u][o].pc = "enqueue" /\ op[u][o].todo = {}
        /\ job'[u][o] = EnqueuedJob(job[u][o], Deps(u, o), "final")
    BY <1>5 DEF IsClosed
  <2>2. j # "final" => job'[u][o][j] = job[u][o][j]
    BY <1>0, <2>1 DEF EnqueuedJob
  <2>3. j = "final" => EnqueuedNext(u, o, j) /\ job'[u][o][j] # "none"
    BY <1>0, <2>1 DEF EnqueuedJob, EnqueuedNext
  <2> QED BY <2>1, <2>2, <2>3
<1>6. CASE Works(u, o)
  <2>1. PICK i \in Jobs : \/ Takes(u, o, i) \/ EndsWell(u, o, i) \/ EndsBadly(u, o, i)
                          \/ CountsOut(u, o, i) \/ Proceeds(u, o, i)
    BY <1>6 DEF Works
  <2>5. AtWork(u, o, i) => job[u][o][i] # "none"
    BY DEF AtWork, JobsInOrder
  <2>2. CASE Proceeds(u, o, i)
    BY <1>0, <2>2 DEF Proceeds, Sets
  <2>3. CASE Takes(u, o, i) \/ EndsBadly(u, o, i) \/ CountsOut(u, o, i)
    BY <1>0, <2>3, <2>5 DEF Takes, EndsBadly, CountsOut, Sets, Marks
  <2>4. CASE EndsWell(u, o, i)
    <3>1. /\ job'[u][o] = FinishedJob(job[u][o], Deps(u, o), i)
          /\ work'[u][o] = [work[u][o] EXCEPT ![i] = "succeeded"]
      BY <2>4 DEF EndsWell, Sets
    <3>2. \/ job'[u][o][j] = job[u][o][j]
          \/ job'[u][o][j] = "finished" /\ job[u][o][j] # "none"
          \/ job[u][o][j] = "deferred" /\ job'[u][o][j] = "queued"
      BY <1>0, <2>4, <2>5, <3>1 DEF FinishedJob, EndsWell
    <3>3. work'[u][o][j] = work[u][o][j] \/ work'[u][o][j] = "succeeded"
      BY <1>0, <3>1
    <3> QED BY <3>2, <3>3
  <2> QED BY <2>1, <2>2, <2>3, <2>4
<1>7. CASE LosesJob(u, o)
  <2>1. PICK k \in Kinds : /\ row[u][k].run = o /\ row[u][k].rq
                           /\ job'[u][o] = DeletedJob(job[u][o], Deps(u, o), k)
    BY <1>7 DEF LosesJob
  <2>2. job'[u][o][j] = job[u][o][j] \/ job'[u][o][j] = "deleted"
    BY <1>0, <2>1 DEF DeletedJob
  <2>3. job[u][o][j] = "none" => job'[u][o][j] = "none"
    BY <1>0, <2>1 DEF DeletedJob, RowsMatch, RowMatches
  <2>4. work'[u][o] = work[u][o]
    BY <1>7 DEF LosesJob
  <2> QED BY <2>2, <2>3, <2>4
<1> QED BY <1>1, <1>2, <1>3, <1>4, <1>5, <1>6, <1>7 DEF ChainStep

\* Two chains of a unit are never enqueued at the same time.
LEMMA StepOneAtATime ==
  ASSUME TypeOK, Cancelling, "slow" \notin Faults, [Next]_vars, NEW u \in Units, OneAtATime(u)
  PROVE  OneAtATime(u)'
<1> DEFINE Orch == Enqueueing \union {"restage"}
<1>1. ASSUME NEW o \in Ops, ChainStep(u, o), op'[u][o].pc \in Orch, op[u][o].pc \notin Orch
      PROVE  Turn(u) /\ ~SameChain(u, o)
  <2> USE DEF Enqueueing
  <2>1. CASE SameChain(u, o) \/ Works(u, o) \/ LosesJob(u, o)
    BY <1>1, <2>1 DEF SameChain, Works, LosesJob
  <2>2. CASE IsStarted(u, o) \/ IsAsked(u, o)
    BY <1>1, <2>2 DEF IsStarted, IsAsked, SameChain
  <2>3. CASE MovesOn(u, o)
    BY <1>1, <2>3 DEF MovesOn, Goes, SameChain
  <2>4. CASE IsEnqueued(u, o) \/ IsTied(u, o) \/ IsClosed(u, o)
    BY <1>1, <2>4 DEF IsEnqueued, IsTied, IsClosed, Goes
  <2> QED BY <1>1, <2>1, <2>2, <2>3, <2>4 DEF ChainStep
<1>2. SUFFICES ASSUME NEW o \in Ops, NEW p \in Ops, op'[u][o].pc \in Orch, op'[u][p].pc \in Orch,
                      o # p
               PROVE  FALSE
  BY DEF OneAtATime
<1>3. SameChain(u, o) \/ SameChain(u, p)
  BY <1>2, OneChainSteps DEF OneChain, Elsewhere, SameChain, SameJobs
<1>4. ChainStep(u, o) /\ ChainStep(u, p)
  BY ChainSteps
<1>5. ASSUME NEW q \in Ops, op[u][q].pc \in Orch
      PROVE  ~Turn(u)
  BY <1>5, NoTurn
<1> HIDE DEF Orch
<1>6. SameChain(u, o) => op[u][o].pc \in Orch
  BY <1>2 DEF SameChain
<1>7. SameChain(u, p) => op[u][p].pc \in Orch
  BY <1>2 DEF SameChain
<1>8. op[u][o].pc \in Orch /\ op[u][p].pc \in Orch
  BY <1>1, <1>2, <1>3, <1>4, <1>5, <1>6, <1>7
<1> QED BY <1>2, <1>8 DEF OneAtATime, Orch

\* What is given of the operation o of unit u before a step.
OrderBefore(u, o) ==
  /\ ChainStep(u, o) /\ UnitStep(u)
  /\ OneAtATime(u) /\ ChainInOrder(u, o) /\ RowsInOrder(u, o)

\* A row that is as it was, or that has been tied to its job.
LEMMA RowKeptMatches ==
  ASSUME TypeOK, "slow" \notin Faults, NEW u \in Units, NEW o \in Ops, OrderBefore(u, o),
         NEW k \in Kinds, row[u][k].run = o, row'[u][k].rq = row[u][k].rq
  PROVE  /\ k \in op'[u][o].plan /\ op'[u][o].pc \notin Unstarted
         /\ row[u][k].rq => job'[u][o][k] # "none"
         /\ \A i \in Kinds \union {"final"} :
              After(i, k) /\ job'[u][o][i] # "none" => row[u][k].rq
         /\ job'[u][o][k] \in Waiting =>
              /\ row[u][k].st \in {"new", "failed"}
              /\ row[u][k].rq => row[u][k].st = "new"
         /\ work'[u][o][k] \in {"picked", "busy"} => row[u][k].st # "done"
<1> USE DEF OrderBefore, ChainInOrder, RowsInOrder
<1>1. RowMatches(u, o, k)
  BY DEF RowsMatch
<1>2. k \in op[u][o].plan /\ op[u][o].pc \notin Unstarted
  BY <1>1 DEF RowMatches
<1>3. k \in op'[u][o].plan /\ op'[u][o].pc \notin Unstarted
  BY <1>2, StartedStays
<1>4. /\ job[u][o][k] \notin Waiting => job'[u][o][k] \notin Waiting \/ EnqueuedNext(u, o, k)
      /\ job[u][o][k] # "none" => job'[u][o][k] # "none"
      /\ work'[u][o][k] \in {"picked", "busy"} =>
           work[u][o][k] \in {"picked", "busy"} \/ job[u][o][k] = "queued"
  BY <1>2, JobsStay
<1>5. EnqueuedNext(u, o, k) => job[u][o][k] = "none"
  BY DEF EnqueuedNext, ChainBegun, Ahead, Enqueueing, First
<1>6. ASSUME NEW i \in Kinds \union {"final"}, After(i, k), job'[u][o][i] # "none"
      PROVE  row[u][k].rq
  <2>1. job[u][o][i] # "none" \/ EnqueuedNext(u, o, i)
    BY <1>2, <1>6, JobsStay
  <2>2. CASE job[u][o][i] # "none"
    BY <1>1, <1>6, <2>2 DEF RowMatches
  <2>3. CASE EnqueuedNext(u, o, i)
    <3>1. k \notin op[u][o].todo
      <4>1. ASSUME i \in First(op[u][o].todo), k \in op[u][o].todo
            PROVE  FALSE
        <5>1. Rank[i] <= Rank[k] /\ i \in Kinds
          BY <4>1 DEF First, TypeOK, Op
        <5>2. Rank[i] \in Int /\ Rank[k] \in Int /\ i # "final"
          BY <5>1 DEF Rank, Kinds, AllocKinds, CleanupKinds
        <5> QED BY <1>6, <5>1, <5>2 DEF After
      <4> QED BY <2>3, <4>1 DEF EnqueuedNext
    <3> QED BY <1>2, <2>3, <3>1 DEF EnqueuedNext, RowsFresh, Enqueueing
  <2> QED BY <2>1, <2>2, <2>3
<1> QED BY <1>1, <1>3, <1>4, <1>5, <1>6 DEF RowMatches, Waiting

\* The rows keep agreeing with the jobs.
LEMMA StepRowsMatch ==
  ASSUME TypeOK, "slow" \notin Faults, NEW u \in Units, NEW o \in Ops, OrderBefore(u, o),
         ChainInOrder(u, o)'
  PROVE  RowsMatch(u, o)'
<1> USE DEF OrderBefore
<1> SUFFICES ASSUME NEW k \in Kinds, row'[u][k].run = o PROVE RowMatches(u, o, k)'
  BY DEF RowsMatch, RowMatches
<1>0. o # 0 /\ Kinds \subseteq Jobs
  BY ConstantsAssumption DEF Ops, Jobs
<1>1. CASE row'[u][k] = row[u][k]
  BY <1>1, RowKeptMatches DEF RowMatches, Waiting
<1>2. ASSUME row'[u][k] # row[u][k], NEW p \in Ops, RowsMade(u, p)
      PROVE  RowMatches(u, o, k)'
  <2>1. row'[u][k] = NewRow(p) /\ k \in op'[u][p].plan
    BY <1>2 DEF RowsMade
  <2>2. p = o /\ row'[u][k].st = "new" /\ ~row'[u][k].rq
    BY <2>1 DEF NewRow
  <2>3. op[u][o].pc \in Unstarted /\ op'[u][o].pc = "enqueue"
    BY <1>2, <2>2 DEF RowsMade, Unstarted
  <2>4. IsStarted(u, o)
    BY <2>3 DEF ChainStep, SameChain, IsAsked, MovesOn, Goes, IsEnqueued, IsTied, IsClosed, Works,
       LosesJob, Unstarted
  <2>5. \A i \in Kinds \union {"final"} : job'[u][o][i] = "none" /\ work'[u][o][i] = "idle"
    <3>1. \A i \in Jobs : job[u][o][i] = "none" /\ work[u][o][i] = "idle"
      BY <2>3 DEF ChainInOrder, ChainBegun
    <3>2. work'[u][o] = work[u][o] /\
          (job'[u][o] = job[u][o] \/ job'[u][o] = [job[u][o] EXCEPT !["netbird"] = "queued"])
      BY <2>4 DEF IsStarted
    <3>3. job[u][o] \in [Jobs -> JobStatus]
      BY DEF TypeOK
    <3> QED BY <3>1, <3>2, <3>3 DEF Jobs, Kinds, AllocKinds, CleanupKinds
  <2> QED BY <2>1, <2>2, <2>3, <2>5 DEF RowMatches, Unstarted
<1>3. CASE RowsGone(u)
  <2>1. row'[u][k] = row[u][k] \/ row'[u][k].run = 0
    BY <1>3 DEF RowsGone, NoRow
  <2> QED BY <1>0, <1>1, <2>1
<1>4. ASSUME row'[u][k] # row[u][k], NEW p \in Ops, RowTied(u, p)
      PROVE  RowMatches(u, o, k)'
  <2>1. /\ k \in First(op[u][p].todo) /\ row[u][k].run = p
        /\ row'[u][k].run = p /\ row'[u][k].st = row[u][k].st
        /\ op[u][p].pc = "setid" /\ op'[u][p].pc = "enqueue"
    BY <1>4 DEF RowTied
  <2>2. p = o
    BY <2>1
  <2>3. IsTied(u, o)
    BY <2>1, <2>2 DEF ChainStep, SameChain, IsAsked, MovesOn, Goes, IsEnqueued, IsStarted, Chains,
       IsClosed, Works, LosesJob
  <2>4. job'[u][o] = job[u][o] /\ work'[u][o] = work[u][o] /\ op'[u][o].plan = op[u][o].plan
    BY <2>3 DEF IsTied, SameJobs, KeepsPlan
  <2>5. job[u][o][k] # "none"
    BY <2>1, <2>2 DEF ChainInOrder, ChainBegun
  <2>6. k \in op[u][o].plan
    BY <2>1, <2>2 DEF RowsInOrder, RowsMatch, RowMatches
  <2>7. row[u][k].st = "new"
    BY <2>1, <2>2, <2>6 DEF RowsInOrder, RowsFresh, Enqueueing
  <2>8. row'[u][k].rq
    BY <1>4, <2>1 DEF RowTied
  <2> QED BY <2>1, <2>2, <2>4, <2>5, <2>6, <2>7, <2>8 DEF RowMatches, Unstarted
<1>5. ASSUME row'[u][k] # row[u][k], NEW p \in Ops, NEW i \in Kinds, RowSaved(u, p, i)
      PROVE  RowMatches(u, o, k)'
  <2>1. i = k /\ row[u][k].run = p /\ row'[u][k].run = p /\ row'[u][k].rq = row[u][k].rq
    BY <1>5 DEF RowSaved, Saved
  <2>2. p = o
    BY <2>1
  <2>3. /\ work'[u][o][k] # "idle"
        /\ work'[u][o][k] \in {"picked", "busy"} => row'[u][k].st # "done"
    BY <1>5, <2>1, <2>2 DEF RowSaved, Saved
  <2>4. job'[u][o][k] \notin Waiting
    BY <1>0, <2>3 DEF ChainInOrder, JobsInOrder, Waiting
  <2> QED BY <2>1, <2>2, <2>3, <2>4, RowKeptMatches DEF RowMatches, Waiting
<1>6. ASSUME row'[u][k] # row[u][k], NEW p \in Ops, NEW c \in Cancellers, NEW i \in Kinds,
             RowCancelled(u, c, i, p)
      PROVE  RowMatches(u, o, k)'
  <2>1. /\ i = k /\ row[u][k].run = p /\ row'[u][k].run = p /\ row'[u][k].rq = row[u][k].rq
        /\ row'[u][k].st = "failed"
        /\ row[u][k].rq => job'[u][p] = DeletedJob(job[u][p], Deps(u, p), k)
    BY <1>6 DEF RowCancelled, Saved
  <2>2. p = o
    BY <2>1
  <2>3. row[u][k].rq => job'[u][o][k] = "deleted"
    <3>1. job[u][o] \in [Jobs -> JobStatus]
      BY DEF TypeOK
    <3> QED BY <1>0, <2>1, <2>2, <3>1 DEF DeletedJob
  <2> QED BY <2>1, <2>2, <2>3, RowKeptMatches DEF RowMatches, Waiting
<1>7. CASE RowsKept(u)
  BY <1>1, <1>7 DEF RowsKept
<1> QED BY <1>1, <1>2, <1>3, <1>4, <1>5, <1>6, <1>7
     DEF UnitStep, RowsRead, FailureRead, CancelMissed

\* While a chain is enqueued, nobody else touches the rows of the unit.
LEMMA RowsWhileEnqueued ==
  ASSUME "slow" \notin Faults, NEW u \in Units, NEW o \in Ops, OneAtATime(u), UnitStep(u),
         op[u][o].pc \in Enqueueing
  PROVE  (RowsKept(u) /\ LeftKept(u)) \/ RowTied(u, o)
<1>1. ~Turn(u)
  BY NoTurn
<1>2. ASSUME NEW p \in Ops, RowsMade(u, p)
      PROVE  FALSE
  <2>1. op[u][p].pc = "restage"
    BY <1>1, <1>2 DEF RowsMade
  <2>2. p = o
    BY <2>1 DEF OneAtATime
  <2> QED BY <2>1, <2>2 DEF Enqueueing
<1>3. ASSUME NEW p \in Ops, RowTied(u, p)
      PROVE  p = o
  BY <1>3 DEF RowTied, OneAtATime, Enqueueing
<1> QED BY <1>1, <1>2, <1>3
     DEF UnitStep, RowsGone, RowsRead, RowSaved, FailureRead, RowCancelled, CancelMissed

\* A chain starts with the rows that have just been made for it.
LEMMA StartsFresh ==
  ASSUME NEW u \in Units, NEW o \in Ops, ChainStep(u, o),
         op[u][o].pc \in Unstarted, op'[u][o].pc \notin Unstarted, op'[u][o].plan # {},
         op[u][o].plan = {}
  PROVE  /\ op'[u][o].pc = "enqueue" /\ op'[u][o].todo = op'[u][o].plan
         /\ \A k \in op'[u][o].plan : row'[u][k] = NewRow(o)
<1>1. IsStarted(u, o)
  BY DEF ChainStep, SameChain, IsAsked, MovesOn, Goes, KeepsPlan, IsEnqueued, IsTied, IsClosed, Works,
     LosesJob, Unstarted
<1> QED BY <1>1 DEF IsStarted

\* The rows of a chain stay untouched while it is enqueued.
LEMMA StepRowsFresh ==
  ASSUME TypeOK, "slow" \notin Faults, NEW u \in Units, NEW o \in Ops, OrderBefore(u, o),
         ChainInOrder(u, o)'
  PROVE  RowsFresh(u, o)'
<1> USE DEF OrderBefore, ChainInOrder, RowsInOrder
<1> SUFFICES ASSUME op'[u][o].pc \in Enqueueing, NEW k \in op'[u][o].plan
             PROVE  /\ row'[u][k].run = o /\ row'[u][k].st = "new"
                    /\ k \notin op'[u][o].todo => row'[u][k].rq
  BY DEF RowsFresh
<1>1. CASE op[u][o].pc \in Unstarted
  <2>1. op[u][o].plan = {} /\ op'[u][o].plan # {}
    BY <1>1 DEF ChainBegun
  <2>2. k \in op'[u][o].todo /\ row'[u][k] = NewRow(o)
    BY <1>1, <2>1, StartsFresh DEF Enqueueing, Unstarted
  <2> QED BY <2>2 DEF NewRow
<1>2. CASE op[u][o].pc \notin Unstarted
  <2>1. op[u][o].pc \in Enqueueing
    <3>1. op[u][o].pc \notin Over
      BY <1>2, StartedStays DEF Over, Enqueueing
    <3> QED BY <1>2, <3>1 DEF Enqueueing, Unstarted, Over, TypeOK, Op, OpPc
  <2>2. op'[u][o].plan = op[u][o].plan
    BY <1>2, StartedStays
  <2>3. /\ row[u][k].run = o /\ row[u][k].st = "new"
        /\ k \notin op[u][o].todo => row[u][k].rq
    BY <2>1, <2>2 DEF RowsFresh
  <2>4. k \in Kinds
    BY <2>2 DEF TypeOK, Op
  <2>5. RowsKept(u) \/ RowTied(u, o)
    BY <2>1, RowsWhileEnqueued
  <2>6. /\ row'[u][k].run = o /\ row'[u][k].st = "new"
        /\ row[u][k].rq => row'[u][k].rq
    BY <2>3, <2>4, <2>5 DEF RowsKept, RowTied
  <2>7. ASSUME k \in op[u][o].todo, k \notin op'[u][o].todo
        PROVE  row'[u][k].rq
    <3>1. IsTied(u, o)
      BY <2>1, <2>7 DEF ChainStep, SameChain, IsAsked, MovesOn, Goes, IsEnqueued, IsStarted, Chains,
         IsClosed, Works, LosesJob, Enqueueing
    <3> QED BY <2>7, <3>1 DEF IsTied
  <2> QED BY <2>3, <2>6, <2>7
<1> QED BY <1>1, <1>2

\* A step replaces the rows that wait together, or none of them.
LEMMA StepRowsTogether ==
  ASSUME TypeOK, TypeOK', "slow" \notin Faults, NEW u \in Units, NEW o \in Ops, OrderBefore(u, o),
         ChainInOrder(u, o)', RowsFresh(u, o)'
  PROVE  RowsTogether(u, o)'
<1> USE DEF OrderBefore, ChainInOrder, RowsInOrder
<1> SUFFICES ASSUME NEW k \in op'[u][o].plan, NEW d \in op'[u][o].plan, NEW i \in Kinds \union {"final"},
                    job'[u][o][k] = "deferred", After(i, k), job'[u][o][i] # "none",
                    row'[u][d].run = o
             PROVE  row'[u][k].run = o
  BY DEF RowsTogether
<1>0. op'[u][o].pc \notin Unstarted
  BY DEF ChainBegun
<1>1. CASE op'[u][o].pc \in Enqueueing
  BY <1>1 DEF RowsFresh
<1>2. CASE op'[u][o].pc \in Over /\ op[u][o].pc \in Unstarted
  <2>1. op[u][o].plan = {}
    BY <1>2 DEF ChainBegun
  <2>2. op'[u][o].pc = "enqueue"
    BY <1>0, <1>2, <2>1, StartsFresh
  <2> QED BY <1>2, <2>2 DEF Over
<1>3. CASE op'[u][o].pc \in Over /\ op[u][o].pc \notin Unstarted
  <2>0. op'[u][o].plan = op[u][o].plan
    BY <1>3, StartedStays
  <2>1. k \in Kinds /\ d \in Kinds
    BY <2>0 DEF TypeOK, Op
  <2>2. CASE op[u][o].pc \in Enqueueing
    <3>1. row[u][k].run = o
      BY <2>0, <2>2 DEF RowsFresh
    <3>2. RowsKept(u) \/ RowTied(u, o)
      BY <2>2, RowsWhileEnqueued
    <3> QED BY <2>1, <3>1, <3>2 DEF RowsKept, RowTied
  <2>3. CASE op[u][o].pc \notin Enqueueing
    <3>1. op[u][o].pc \in Over
      BY <1>3, <2>3 DEF Over, Unstarted, Enqueueing, TypeOK, Op, OpPc
    <3>2. job[u][o][k] = "deferred" /\ job[u][o][i] # "none"
      BY <1>3, <2>1, <3>1, JobsStay DEF EnqueuedNext, Over
    <3>3. \A p \in Ops : RowsMade(u, p) => p # o
      BY <3>1 DEF RowsMade, Over
    <3>4. row[u][d].run = o
      <4>1. CASE row'[u][d] = row[u][d]
        BY <4>1
      <4>2. o # 0
        BY ConstantsAssumption DEF Ops
      <4>3. ASSUME NEW p \in Ops, RowsMade(u, p)
            PROVE  row[u][d].run = o
        BY <2>1, <3>3, <4>3 DEF RowsMade, NewRow
      <4>4. CASE RowsGone(u)
        BY <2>1, <4>2, <4>4 DEF RowsGone, NoRow
      <4>5. ASSUME NEW p \in Ops, RowTied(u, p)
            PROVE  row[u][d].run = o
        BY <2>1, <4>5 DEF RowTied
      <4>6. ASSUME NEW p \in Ops, NEW j \in Kinds, RowSaved(u, p, j)
            PROVE  row[u][d].run = o
        BY <2>1, <4>6 DEF RowSaved, Saved
      <4>7. ASSUME NEW p \in Ops, NEW j \in Kinds, NEW c \in Cancellers, RowCancelled(u, c, j, p)
            PROVE  row[u][d].run = o
        BY <2>1, <4>7 DEF RowCancelled, Saved
      <4>8. CASE RowsKept(u)
        BY <2>1, <4>8 DEF RowsKept
      <4> QED BY <4>3, <4>4, <4>5, <4>6, <4>7, <4>8
           DEF UnitStep, RowsRead, FailureRead, CancelMissed
    <3>5. row[u][k].run = o
      BY <2>0, <3>2, <3>4 DEF RowsTogether
    <3>6. row[u][k].st = "new" /\ RequestKinds(k) \subseteq RequestKinds(d) /\ d \in RequestKinds(k)
      <4>1. row[u][k].rq /\ (row[u][k].rq => row[u][k].st = "new")
        BY <2>1, <3>2, <3>5 DEF RowsMatch, RowMatches
      <4>2. op[u][o].plan \subseteq AllocKinds \/ op[u][o].plan = CleanupKinds
        BY <2>0 DEF ChainBegun
      <4> QED BY <2>0, <4>1, <4>2 DEF RequestKinds, AllocKinds, CleanupKinds
    <3>7. ASSUME NEW p \in Ops, RowsMade(u, p)
          PROVE  row'[u][k].run = o
      <4>1. row'[u][d] = row[u][d]
        BY <2>1, <3>3, <3>4, <3>7 DEF RowsMade, NewRow
      <4>2. d \notin op'[u][p].plan
        BY <2>1, <3>3, <3>7, <4>1, <3>4 DEF RowsMade, NewRow
      <4>3. CASE op'[u][p].plan \in {AllocKinds, CleanupKinds}
        <5>1. k \notin op'[u][p].plan
          BY <3>6, <4>2, <4>3 DEF RequestKinds, AllocKinds, CleanupKinds
        <5> QED BY <2>1, <3>5, <3>7, <5>1 DEF RowsMade
      <4>4. CASE op'[u][p].plan = FailedStages(u) /\ IsFinished(u, AllocKinds)
        <5>1. k \notin AllocKinds
          <6>1. row[u][k].run # 0
            BY <3>5, ConstantsAssumption DEF Ops
          <6> QED BY <3>6, <4>4, <6>1 DEF IsFinished, Unfinished, Rows
        <5>2. k \notin FailedStages(u)
          BY <5>1 DEF FailedStages, AllocKinds
        <5> QED BY <2>1, <3>5, <3>7, <4>4, <5>2 DEF RowsMade
      <4> QED BY <3>7, <4>3, <4>4 DEF RowsMade
    <3>8. CASE RowsGone(u)
      <4>1. PICK S \in {CleanupKinds, Kinds} : \A j \in Kinds :
              row'[u][j] = IF j \in S THEN NoRow ELSE row[u][j]
        BY <3>8 DEF RowsGone
      <4>2. d \notin S
        BY <2>1, <4>1, ConstantsAssumption DEF NoRow, Ops
      <4>3. k \notin S
        BY <2>1, <3>6, <4>2 DEF RequestKinds, AllocKinds, CleanupKinds, Kinds
      <4> QED BY <2>1, <3>5, <4>1, <4>3
    <3>9. ASSUME NEW p \in Ops, RowTied(u, p)
          PROVE  row'[u][k].run = o
      BY <2>1, <3>5, <3>9 DEF RowTied
    <3>10. ASSUME NEW p \in Ops, NEW j \in Kinds, RowSaved(u, p, j)
           PROVE  row'[u][k].run = o
      BY <2>1, <3>5, <3>10 DEF RowSaved, Saved
    <3>11. ASSUME NEW p \in Ops, NEW j \in Kinds, NEW c \in Cancellers, RowCancelled(u, c, j, p)
           PROVE  row'[u][k].run = o
      BY <2>1, <3>5, <3>11 DEF RowCancelled, Saved
    <3>12. CASE RowsKept(u)
      BY <2>1, <3>5, <3>12 DEF RowsKept
    <3> QED BY <3>7, <3>8, <3>9, <3>10, <3>11, <3>12
         DEF UnitStep, RowsRead, FailureRead, CancelMissed
  <2> QED BY <2>2, <2>3
<1>4. op'[u][o].pc \in OpPc
  BY DEF TypeOK, Op
<1> QED BY <1>0, <1>1, <1>2, <1>3, <1>4 DEF Over, Unstarted, Enqueueing, OpPc

\* What a cancellation reads are the unfinished rows of one request.
LEMMA SnapshotIs ==
  ASSUME NEW u \in Units, NEW S, NEW k, NEW o
  PROVE  <<k, o>> \in Snapshot(u, S) <=>
           /\ k \in S /\ row[u][k].run = o /\ o # 0 /\ row[u][k].st \in {"new", "running"}
<1>1. <<k, o>> \in Snapshot(u, S) <=> \E i \in Unfinished(u, S) : <<k, o>> = <<i, row[u][i].run>>
  BY DEF Snapshot
<1> QED BY <1>1 DEF Unfinished, Rows

\* What a step adds to the stages that a cancellation has yet to cancel, or takes.
LEMMA LeftSteps ==
  ASSUME NEW u \in Units, UnitStep(u), Cancelling, NEW c \in Cancellers,
         NEW k \in Kinds, NEW o \in Ops
  PROVE  /\ <<k, o>> \in left'[u][c] \ left[u][c] =>
              /\ Turn(u) /\ RowsKept(u)
              /\ \E S \in {AllocKinds, CleanupKinds} : left'[u][c] = Snapshot(u, S)
         /\ <<k, o>> \in left[u][c] \ left'[u][c] =>
              \/ row'[u][k].run # o \/ row'[u][k].st = "failed"
              \/ left'[u][c] = {} \/ \E S \in {AllocKinds, CleanupKinds} : left'[u][c] = Snapshot(u, S)
<1>1. CASE left'[u][c] = left[u][c]
  BY <1>1
<1>2. ASSUME left'[u][c] # left[u][c], NEW p \in Ops, NEW S \in {AllocKinds, CleanupKinds}, RowsRead(u, p, S)
      PROVE  left'[u][c] = Snapshot(u, S) /\ Turn(u) /\ RowsKept(u)
  BY <1>2 DEF RowsRead, LeftBecomes
<1>3. ASSUME left'[u][c] # left[u][c], NEW p \in Ops, NEW i \in Kinds, FailureRead(u, p, i)
      PROVE  /\ Turn(u) /\ RowsKept(u)
             /\ left'[u][c] = {} \/ \E S \in {AllocKinds, CleanupKinds} : left'[u][c] = Snapshot(u, S)
  BY <1>3 DEF FailureRead, LeftBecomes, RequestKinds
<1>4. ASSUME left'[u][c] # left[u][c], NEW p \in Ops, NEW i \in Kinds, NEW d \in Cancellers,
             RowCancelled(u, d, i, p)
      PROVE  /\ left'[u][c] = left[u][c] \ {<<i, p>>}
             /\ row'[u][i].st = "failed"
  BY <1>4 DEF RowCancelled, Saved, LeftBecomes
<1>5. ASSUME left'[u][c] # left[u][c], NEW p \in Ops, NEW i \in Kinds, NEW d \in Cancellers,
             CancelMissed(u, d, i, p)
      PROVE  left'[u][c] = {}
  BY <1>5 DEF CancelMissed, LeftBecomes
<1> QED BY <1>1, <1>2, <1>3, <1>4, <1>5
     DEF UnitStep, RowsGone, RowsMade, RowTied, RowSaved, LeftKept

\* A row of a chain that is over has been there before, and was new if it is.
LEMMA OldRow ==
  ASSUME TypeOK, NEW u \in Units, NEW o \in Ops, UnitStep(u), op[u][o].pc \in Over, NEW k \in Kinds,
         row'[u][k].run = o
  PROVE  row[u][k].run = o /\ (row'[u][k].st = "new" => row[u][k].st = "new")
<1>1. CASE row'[u][k] = row[u][k]
  BY <1>1
<1>2. o # 0
  BY ConstantsAssumption DEF Ops
<1>3. ASSUME NEW p \in Ops, RowsMade(u, p)
      PROVE  row'[u][k] = row[u][k]
  <2>1. p # o
    BY <1>3 DEF RowsMade, Over
  <2> QED BY <1>3, <2>1 DEF RowsMade, NewRow
<1>4. CASE RowsGone(u)
  BY <1>2, <1>4 DEF RowsGone, NoRow
<1>5. ASSUME NEW p \in Ops, RowTied(u, p)
      PROVE  row[u][k].run = o /\ (row'[u][k].st = "new" => row[u][k].st = "new")
  BY <1>5 DEF RowTied
<1>6. ASSUME NEW p \in Ops, NEW j \in Kinds, RowSaved(u, p, j)
      PROVE  row[u][k].run = o /\ (row'[u][k].st = "new" => row[u][k].st = "new")
  BY <1>6 DEF RowSaved, Saved
<1>7. ASSUME NEW p \in Ops, NEW j \in Kinds, NEW c \in Cancellers, RowCancelled(u, c, j, p)
      PROVE  row[u][k].run = o /\ (row'[u][k].st = "new" => row[u][k].st = "new")
  BY <1>7 DEF RowCancelled, Saved
<1>8. CASE RowsKept(u)
  BY <1>8 DEF RowsKept
<1> QED BY <1>1, <1>3, <1>4, <1>5, <1>6, <1>7, <1>8
     DEF UnitStep, RowsRead, FailureRead, CancelMissed

\* A cancellation goes through the stages it has read in order.
LEMMA StepLeftInOrder ==
  ASSUME TypeOK, Cancelling, "slow" \notin Faults, NEW u \in Units, NEW o \in Ops, OrderBefore(u, o)
  PROVE  LeftInOrder(u, o)'
<1> USE DEF OrderBefore, ChainInOrder, RowsInOrder
<1> SUFFICES ASSUME NEW c \in Cancellers, NEW d \in Kinds, <<d, o>> \in left'[u][c]
             PROVE  /\ d \in op'[u][o].plan /\ op'[u][o].pc \in Over
                    /\ \A k \in Kinds : row'[u][k].run = o /\ row'[u][k].st = "new" /\ Rank[d] < Rank[k]
                                          => <<k, o>> \in left'[u][c]
  BY DEF LeftInOrder
<1>0. o # 0
  BY ConstantsAssumption DEF Ops
<1>1. ASSUME NEW S \in {AllocKinds, CleanupKinds}, left'[u][c] = Snapshot(u, S),
             d \in op[u][o].plan, op[u][o].pc \in Over,
             NEW k \in Kinds, row'[u][k].run = o, row'[u][k].st = "new"
      PROVE  <<k, o>> \in left'[u][c]
  <2>1. row[u][k].run = o /\ row[u][k].st = "new"
    BY <1>1, OldRow
  <2>2. d \in S
    BY <1>1, SnapshotIs
  <2>3. k \in op[u][o].plan
    BY <2>1 DEF RowsMatch, RowMatches
  <2>4. k \in S
    <3>1. op[u][o].plan \subseteq AllocKinds \/ op[u][o].plan = CleanupKinds
      BY <2>3 DEF ChainBegun
    <3> QED BY <1>1, <2>2, <2>3, <3>1 DEF AllocKinds, CleanupKinds
  <2> QED BY <1>0, <1>1, <2>1, <2>4, SnapshotIs
<1>2. d \in op[u][o].plan /\ op[u][o].pc \in Over
  <2>1. CASE <<d, o>> \in left[u][c]
    BY <2>1 DEF LeftInOrder
  <2>2. CASE <<d, o>> \notin left[u][c]
    <3>1. PICK S \in {AllocKinds, CleanupKinds} : Turn(u) /\ left'[u][c] = Snapshot(u, S)
      BY <2>2, LeftSteps
    <3>2. row[u][d].run = o
      BY <3>1, SnapshotIs
    <3>3. d \in op[u][o].plan /\ op[u][o].pc \notin Unstarted
      BY <3>2 DEF RowsMatch, RowMatches
    <3>4. op[u][o].pc \notin Enqueueing
      BY <3>1, NoTurn
    <3>5. op[u][o].pc \in OpPc
      BY DEF TypeOK, Op
    <3> QED BY <3>3, <3>4, <3>5 DEF Unstarted, Enqueueing, Over, OpPc
  <2> QED BY <2>1, <2>2
<1>3. d \in op'[u][o].plan /\ op'[u][o].pc \in Over
  <2>1. op[u][o].pc \notin Unstarted
    BY <1>2 DEF Unstarted, Over
  <2> QED BY <1>2, <2>1, StartedStays
<1>4. ASSUME NEW k \in Kinds, row'[u][k].run = o, row'[u][k].st = "new", Rank[d] < Rank[k]
      PROVE  <<k, o>> \in left'[u][c]
  <2>1. row[u][k].run = o /\ row[u][k].st = "new"
    BY <1>2, <1>4, OldRow
  <2>2. CASE \E S \in {AllocKinds, CleanupKinds} : left'[u][c] = Snapshot(u, S)
    BY <1>1, <1>2, <1>4, <2>2
  <2>3. CASE ~\E S \in {AllocKinds, CleanupKinds} : left'[u][c] = Snapshot(u, S)
    <3>1. <<d, o>> \in left[u][c]
      BY <2>3, LeftSteps
    <3>2. <<k, o>> \in left[u][c]
      BY <1>4, <2>1, <3>1 DEF LeftInOrder
    <3> QED BY <1>4, <2>3, <3>2, LeftSteps
  <2> QED BY <2>2, <2>3
<1> QED BY <1>3, <1>4

\* InOrder is inductive when nobody acts between two turns of the loop.
LEMMA StepInOrder ==
  ASSUME TypeOK, TypeOK', "slow" \notin Faults, InOrder, [Next]_vars
  PROVE  InOrder'
<1>1. Cancelling /\ Cancelling'
  BY StepCancelling DEF InOrder
<1>2. \A u \in Units : OneAtATime(u)'
  BY <1>1, StepOneAtATime DEF InOrder
<1>3. ASSUME NEW u \in Units, NEW o \in Ops
      PROVE  ChainInOrder(u, o)' /\ RowsInOrder(u, o)'
  <2>1. OrderBefore(u, o)
    BY <1>1, ChainSteps, UnitSteps DEF OrderBefore, InOrder
  <2>2. ChainStep(u, o) /\ ChainBegun(u, o) /\ JobsInOrder(u, o)
    BY <2>1 DEF OrderBefore, ChainInOrder
  <2>3. RowsMatch(u, o) /\ RowsTogether(u, o) /\ LeftInOrder(u, o)
    BY <2>1 DEF OrderBefore, RowsInOrder
  <2>4. ChainBegun(u, o)'
    BY <2>2, <2>3, StepChainBegun
  <2>5. JobsInOrder(u, o)'
    BY <2>2, <2>3, <2>4, StepJobsInOrder
  <2>6. ChainInOrder(u, o)'
    BY <2>4, <2>5 DEF ChainInOrder
  <2>7. RowsFresh(u, o)' /\ RowsMatch(u, o)'
    BY <2>1, <2>6, StepRowsFresh, StepRowsMatch
  <2>8. RowsTogether(u, o)' /\ LeftInOrder(u, o)'
    BY <1>1, <2>1, <2>6, <2>7, StepRowsTogether, StepLeftInOrder
  <2> QED BY <2>6, <2>7, <2>8 DEF RowsInOrder
<1> QED BY <1>1, <1>2, <1>3 DEF InOrder

\* InOrder holds before the first request.
LEMMA InitInOrder ==
  ASSUME Init
  PROVE  InOrder
<1> USE KindValues
<1>1. ASSUME NEW u \in Units, NEW o \in Ops
      PROVE  /\ op[u][o] = NoOp /\ row[u] = [k \in Kinds |-> NoRow]
             /\ \A j \in Jobs : job[u][o][j] = "none" /\ work[u][o][j] = "idle"
             /\ \A c \in Cancellers : left[u][c] = {}
             /\ o # 0
  BY ConstantsAssumption DEF Init, Ops
<1>2. ASSUME NEW u \in Units, NEW o \in Ops
      PROVE  ChainInOrder(u, o) /\ RowsInOrder(u, o)
  <2>1. ChainBegun(u, o)
    BY <1>1 DEF ChainBegun, NoOp, Enqueueing
  <2>2. JobsInOrder(u, o)
    BY <1>1 DEF JobsInOrder, Ran
  <2>3. RowsFresh(u, o) /\ RowsTogether(u, o) /\ LeftInOrder(u, o)
    BY <1>1 DEF RowsFresh, RowsTogether, LeftInOrder, NoOp, Enqueueing
  <2>4. RowsMatch(u, o)
    BY <1>1 DEF RowsMatch, RowMatches, NoRow
  <2> QED BY <2>1, <2>2, <2>3, <2>4 DEF ChainInOrder, RowsInOrder
<1>3. \A u \in Units : OneAtATime(u)
  BY <1>1 DEF OneAtATime, NoOp, Enqueueing
<1> QED BY <1>2, <1>3, InitCancelling DEF InOrder

\* The last of some stages are as late as any of them.
LEMMA LastIsLast ==
  ASSUME NEW S, S \subseteq AllocKinds \/ S \subseteq CleanupKinds, NEW k \in S
  PROVE  \E d \in Last(S) : d \in S /\ (d = k \/ Rank[k] < Rank[d])
<1>1. Rank["stack"] = 1 /\ Rank["net"] = 2 /\ Rank["user"] = 3
  BY DEF Rank, Kinds, AllocKinds, CleanupKinds
<1>2. Rank["cuser"] = 1 /\ Rank["cnet"] = 2 /\ Rank["cstack"] = 3
  BY DEF Rank, Kinds, AllocKinds, CleanupKinds
<1>3. ASSUME S \subseteq AllocKinds
      PROVE  \E d \in S : (\A i \in S : Rank[i] <= Rank[d]) /\ (d = k \/ Rank[k] < Rank[d])
  <2>1. CASE "user" \in S
    BY <1>1, <1>3, <2>1 DEF AllocKinds
  <2>2. CASE "user" \notin S /\ "net" \in S
    BY <1>1, <1>3, <2>2 DEF AllocKinds
  <2>3. CASE S = {"stack"}
    BY <1>1, <2>3
  <2> QED BY <1>3, <2>1, <2>2, <2>3 DEF AllocKinds
<1>4. ASSUME S \subseteq CleanupKinds
      PROVE  \E d \in S : (\A i \in S : Rank[i] <= Rank[d]) /\ (d = k \/ Rank[k] < Rank[d])
  <2>1. CASE "cstack" \in S
    BY <1>2, <1>4, <2>1 DEF CleanupKinds
  <2>2. CASE "cstack" \notin S /\ "cnet" \in S
    BY <1>2, <1>4, <2>2 DEF CleanupKinds
  <2>3. CASE S = {"cuser"}
    BY <1>2, <2>3
  <2> QED BY <1>4, <2>1, <2>2, <2>3 DEF CleanupKinds
<1> QED BY <1>3, <1>4 DEF Last

\* Between a job and a stage before it there is a stage the job depends on.
LEMMA DepsBetween ==
  ASSUME TypeOK, NEW u \in Units, NEW o \in Ops, ChainBegun(u, o),
         NEW j \in op[u][o].plan \union {"final"}, NEW k \in op[u][o].plan, After(j, k)
  PROVE  \E d \in Deps(u, o)[j] : d \in op[u][o].plan /\ (d = k \/ Rank[k] < Rank[d])
<1> DEFINE plan == op[u][o].plan
           S == IF j = "final" THEN plan ELSE {i \in plan : Rank[i] < Rank[j]}
<1>1. plan \subseteq Kinds /\ (plan \subseteq AllocKinds \/ plan \subseteq CleanupKinds)
  BY DEF ChainBegun, TypeOK, Op
<1>2. j \in Jobs /\ j # "netbird" /\ "final" \notin Kinds
  BY <1>1 DEF Jobs, Kinds, AllocKinds, CleanupKinds
<1>3. Last(S) \subseteq Deps(u, o)[j]
  BY <1>2 DEF Deps
<1>4. k \in S /\ S \subseteq plan
  BY <1>1, <1>2 DEF After
<1>5. S \subseteq AllocKinds \/ S \subseteq CleanupKinds
  BY <1>1, <1>4
<1> HIDE DEF S
<1>6. PICK d \in Last(S) : d \in S /\ (d = k \/ Rank[k] < Rank[d])
  BY <1>4, <1>5, LastIsLast
<1> QED BY <1>3, <1>4, <1>6

\* InOrder implies that the stages run in order: a job waits for the last stages
\* before it, those ran on top of the ones before them, and there are three ranks.
LEMMA OrderFollows ==
  ASSUME TypeOK, InOrder
  PROVE  StagesRunInOrder
<1> SUFFICES ASSUME NEW u \in Units, NEW o \in Ops, NEW j \in op[u][o].plan \union {"final"},
                    Ran(u, o, j)
             PROVE  /\ \A k \in op[u][o].plan : After(j, k) => work[u][o][k] = "succeeded"
                    /\ j = "user" /\ Netbird => work[u][o]["netbird"] = "succeeded"
  <2>1. \A u \in Units, o \in Ops : \A j \in op[u][o].plan \union {"final"}, k \in op[u][o].plan :
          j = "final" \/ Rank[k] < Rank[j] => After(j, k)
    BY DEF After, TypeOK, Op
  <2> QED BY <2>1 DEF StagesRunInOrder, Ran
<1>0. /\ op[u][o].plan \subseteq Kinds /\ Kinds \subseteq Jobs /\ "final" \in Jobs /\ "final" \notin Kinds
  <2>1. op[u][o].plan \subseteq Kinds
    BY DEF TypeOK, Op
  <2> QED BY <2>1 DEF Jobs, Kinds, AllocKinds, CleanupKinds
<1>1. ChainBegun(u, o) /\ JobsInOrder(u, o)
  BY DEF InOrder, ChainInOrder
<1>2. \A i \in Jobs : Ran(u, o, i) => \A d \in Deps(u, o)[i] : work[u][o][d] = "succeeded"
  BY <1>1 DEF JobsInOrder
<1>3. \A k \in op[u][o].plan : Rank[k] \in {1, 2, 3}
  BY <1>0 DEF Rank, Kinds, AllocKinds, CleanupKinds
<1>4. ASSUME NEW i \in op[u][o].plan \union {"final"}, Ran(u, o, i), NEW k \in op[u][o].plan, After(i, k)
      PROVE  \/ work[u][o][k] = "succeeded"
             \/ \E d \in op[u][o].plan : /\ Ran(u, o, d) /\ After(d, k)
                                         /\ i = "final" \/ Rank[d] < Rank[i]
  <2>1. PICK d \in Deps(u, o)[i] : d \in op[u][o].plan /\ (d = k \/ Rank[k] < Rank[d])
    BY <1>1, <1>4, DepsBetween
  <2>2. work[u][o][d] = "succeeded"
    BY <1>0, <1>2, <1>4, <2>1
  <2>3. Ran(u, o, d) /\ (d = k \/ After(d, k))
    BY <1>0, <2>1, <2>2 DEF Ran, After
  <2>4. i = "final" \/ Rank[d] < Rank[i]
    <3>1. i \in Jobs /\ d # "netbird"
      BY <1>0, <1>4, <2>1 DEF Kinds, AllocKinds, CleanupKinds
    <3>2. After(i, d)
      BY <2>1, <3>1, DepsBefore
    <3> QED BY <3>2 DEF After
  <2> QED BY <2>1, <2>2, <2>3, <2>4
<1>5. ASSUME NEW i \in op[u][o].plan, Ran(u, o, i), NEW k \in op[u][o].plan, After(i, k)
      PROVE  work[u][o][k] = "succeeded"
  <2>1. Rank[k] < Rank[i] /\ i \in op[u][o].plan \union {"final"} /\ i # "final"
    BY <1>0, <1>5 DEF After
  <2>2. CASE Rank[i] = 2
    <3>1. \A d \in op[u][o].plan : ~(After(d, k) /\ Rank[d] < Rank[i])
      BY <1>0, <1>3, <2>2 DEF After
    <3> QED BY <1>4, <1>5, <2>1, <3>1
  <2>3. CASE Rank[i] = 3
    <3>1. CASE work[u][o][k] # "succeeded"
      <4>1. PICK d \in op[u][o].plan : Ran(u, o, d) /\ After(d, k) /\ Rank[d] < Rank[i]
        BY <1>4, <1>5, <2>1, <3>1
      <4>2. \A e \in op[u][o].plan : ~(After(e, k) /\ Rank[e] < Rank[d])
        <5>1. d \in Kinds /\ d # "final" /\ Rank[k] < Rank[d] /\ Rank[d] \in {1, 2, 3} /\ Rank[k] \in {1, 2, 3}
          BY <1>0, <1>3, <4>1 DEF After
        <5>2. Rank[k] = 1 /\ Rank[d] = 2
          BY <1>3, <2>3, <4>1, <5>1
        <5>3. ASSUME NEW e \in op[u][o].plan, After(e, k), Rank[e] < Rank[d]
              PROVE  FALSE
          <6>1. Rank[e] \in {1, 2, 3} /\ Rank[k] < Rank[e]
            BY <1>0, <1>3, <5>3 DEF After
          <6> QED BY <5>2, <5>3, <6>1
        <5> QED BY <5>3
      <4>3. d \in op[u][o].plan \union {"final"} /\ d # "final"
        BY <1>0
      <4> QED BY <1>4, <4>1, <4>2, <4>3
    <3> QED BY <3>1
  <2>4. Rank[i] # 1
    BY <1>3, <1>5, <2>1
  <2> QED BY <1>3, <2>2, <2>3, <2>4
<1>6. \A k \in op[u][o].plan : After(j, k) => work[u][o][k] = "succeeded"
  BY <1>4, <1>5
<1>7. ASSUME j = "user", Netbird
      PROVE  work[u][o]["netbird"] = "succeeded"
  <2>1. "netbird" \in Deps(u, o)["user"]
    BY <1>0, <1>7, KindValues DEF Deps
  <2>2. "user" \in Jobs
    BY DEF Jobs, Kinds, AllocKinds
  <2> QED BY <1>2, <1>7, <2>1, <2>2
<1> QED BY <1>6, <1>7

\* Stages run in the order of the request and on top of stages that have succeeded,
\* and the finalizer after all of them, for any number of units and operations,
\* whatever is asked while the unit is busy and whichever jobs and workers die.  It is
\* assumed that nobody acts between two turns of the loop of _enqueue_request: a job
\* enqueued behind one that has been cancelled would not wait.
THEOREM StagesInOrder ==
  ASSUME "slow" \notin Faults
  PROVE  Spec => []StagesRunInOrder
<1>1. TypeOK /\ TypeOK' /\ InOrder /\ [Next]_vars => InOrder'
  BY StepInOrder
<1>2. TypeOK /\ InOrder => StagesRunInOrder
  BY OrderFollows
<1> QED BY <1>1, <1>2, InitInOrder, TypeCorrect, PTL DEF Spec

-----------------------------------------------------------------------------
(* No request of a quiet unit hangs.                                          *)

\* A unit has all the stages of its requests, from the job that inserts them on.
RowsComplete(u) ==
  /\ \A S \in {AllocKinds, CleanupKinds} : Rows(u, S) \in {{}, S}
  /\ u \in units => op[u][1].pc = "queued" \/ (op[u][1].pc # "idle" /\ HasStages(u, AllocKinds))
  /\ creq[u] # 0 => HasStages(u, CleanupKinds)

\* A chain that has been begun is completed, and provisioning never fails.
ChainWhole(u, o) ==
  /\ op[u][o].pc = "failed" => op[u][o].plan = {}
  /\ op[u][o].pc = "done" /\ op[u][o].plan # {} =>
       \A j \in op[u][o].plan \union {"final"} : job[u][o][j] # "none"
  /\ op[u][o].plan # {} /\ op[u][o].plan \subseteq AllocKinds /\ Netbird =>
       job[u][o]["netbird"] \notin {"none", "failed"}

UnderWay(u, o, k) ==
  row[u][k].run = o /\ (row[u][k].st \in {"new", "running"} \/ work[u][o][k] \in {"picked", "busy"})

\* While a stage of a chain is under way, none of its stages is replaced.
RowsShared(u, o) ==
  \A k, d \in op[u][o].plan : UnderWay(u, o, k) => row[u][d].run = o

\* Somebody is about to cancel the stage.
BeingCancelled(u, o, k) == \E c \in Cancellers : <<k, o>> \in left[u][c]

\* An unfinished stage has a job, is worked on or is about to be cancelled.
Attended(u, o) ==
  op[u][o].pc = "done" => \A k \in Kinds : row[u][k].run = o /\ row[u][k].st \in {"new", "running"} =>
    \/ job[u][o][k] \in {"queued", "deferred"}
    \/ work[u][o][k] \in {"picked", "busy"}
    \/ BeingCancelled(u, o, k)

\* A job that waits, waits for another one: one that can still succeed, or whose
\* failure is about to be handled.
Awaited(u, o) ==
  \A k \in op[u][o].plan : job[u][o][k] = "deferred" =>
    /\ \E d \in Deps(u, o)[k] : job[u][o][d] # "finished"
    /\ row[u][k].run = o => \A d \in Deps(u, o)[k] :
         \/ job[u][o][d] \in {"finished", "queued", "started", "deferred"}
         \/ work[u][o][d] = "exc"
         \/ BeingCancelled(u, o, k)

\* A failure is handled once.
HandledOnce(u, o) ==
  \A k \in Kinds : left[u][<<o, k>>] # {} => work[u][o][k] = "ended"

\* A cancellation has read stages of one chain: the others are finished by then.
LeftAlike(u) == \A c \in Cancellers : \A s, t \in left[u][c] : s[2] = t[2]

Settling ==
  /\ \A u \in Units : RowsComplete(u) /\ LeftAlike(u)
  /\ \A u \in Units, o \in Ops :
       ChainWhole(u, o) /\ RowsShared(u, o) /\ Attended(u, o) /\ Awaited(u, o) /\ HandledOnce(u, o)

\* The jobs of an operation change by its own steps and by cancellations only.
LEMMA OwnJobs ==
  ASSUME TypeOK, "crash" \notin Faults, [Next]_vars, NEW u \in Units, NEW o \in Ops
  PROVE  \/ SameJobs(u, o)
         \/ Orchestration(u, o) \/ Execution(u, o)
         \/ \E c \in Cancellers : CancelStage(u, c)
<1>1. ASSUME job' = job, work' = work
      PROVE  SameJobs(u, o)
  BY <1>1 DEF SameJobs
<1>2. ASSUME NEW v \in Units, NEW p \in Ops, v # u \/ p # o,
             job' = job \/ \E r : job' = [job EXCEPT ![v][p] = r],
             work' = work \/ \E r : work' = [work EXCEPT ![v][p] = r]
      PROVE  SameJobs(u, o)
  <2>1. job'[u][o] = job[u][o]
    <3>1. ASSUME NEW r, job' = [job EXCEPT ![v][p] = r]
          PROVE  job'[u][o] = job[u][o]
      BY <1>2, <3>1 DEF TypeOK
    <3> QED BY <1>2, <3>1
  <2>2. work'[u][o] = work[u][o]
    <3>1. ASSUME NEW r, work' = [work EXCEPT ![v][p] = r]
          PROVE  work'[u][o] = work[u][o]
      BY <1>2, <3>1 DEF TypeOK
    <3> QED BY <1>2, <3>1
  <2> QED BY <2>1, <2>2 DEF SameJobs
<1>3. ASSUME NEW v \in Units, WebRequest(v)
      PROVE  SameJobs(u, o)
  BY <1>1, <1>3 DEF WebRequest, CreateAllocationsRequests, DeleteCleanupRequest, LockSandbox, UnlockSandbox,
     RestartRequest, CancelAllocationRequest, CancelCleanupRequest, CancelRequest, CreateCleanupRequest,
     CreateCleanupRequestForce
<1>4. ASSUME NEW v \in Units, NEW p \in Ops, WebContinues(v, p)
      PROVE  SameJobs(u, o)
  BY <1>1, <1>4 DEF WebContinues, CancelDone, DeleteSandbox
<1>5. ASSUME NEW v \in Units, NEW p \in Ops, Orchestration(v, p)
      PROVE  /\ work' = work
             /\ job' = job \/ \E r : job' = [job EXCEPT ![v][p] = r]
  <2>1. CASE CreateAllocationJobs(v, p) \/ RestartStageHandlers(v, p) \/ CreateCleanupJobs(v, p)
    <3>1. /\ work' = work
          /\ job' = job \/ \E S : StartChain(v, p, S)
      BY <2>1 DEF CreateAllocationJobs, RestartStageHandlers, CreateCleanupJobs, FailOrchestration
    <3>2. ASSUME NEW S, StartChain(v, p, S)
          PROVE  job' = job \/ \E r : job' = [job EXCEPT ![v][p] = r]
      <4> DEFINE r == EnqueuedJob(job[v][p], Deps(v, p), "netbird")
      <4>1. job' = job \/ job' = [job EXCEPT ![v][p] = r]
        BY <3>2 DEF StartChain
      <4> HIDE DEF r
      <4> QED BY <4>1
    <3> QED BY <3>1, <3>2
  <2>2. CASE ReplaceSandbox(v, p) \/ SetJobId(v, p)
    BY <2>2 DEF ReplaceSandbox, SetJobId, FailOrchestration
  <2>3. CASE EnqueueStage(v, p)
    BY <2>3 DEF EnqueueStage
  <2>4. CASE EnqueueFinalizer(v, p)
    BY <2>4 DEF EnqueueFinalizer
  <2> QED BY <1>5, <2>1, <2>2, <2>3, <2>4 DEF Orchestration
<1>6. ASSUME NEW v \in Units, NEW p \in Ops, Execution(v, p)
      PROVE  /\ job' = job \/ \E r : job' = [job EXCEPT ![v][p] = r]
             /\ work' = work \/ \E r : work' = [work EXCEPT ![v][p] = r]
  <2>1. ASSUME NEW j, NEW w, SetWork(v, p, j, w)
        PROVE  \E r : work' = [work EXCEPT ![v][p] = r]
    BY <2>1 DEF SetWork
  <2>2. ASSUME NEW j, NEW st, SetJob(v, p, j, st) \/ Succeed(v, p, j)
        PROVE  \E r : job' = [job EXCEPT ![v][p] = r]
    BY <2>2 DEF SetJob, Succeed
  <2>3. ASSUME NEW k \in Jobs, TakeJob(v, p, k)
        PROVE  /\ job' = job \/ \E r : job' = [job EXCEPT ![v][p] = r]
               /\ work' = work \/ \E r : work' = [work EXCEPT ![v][p] = r]
    BY <2>1, <2>2, <2>3 DEF TakeJob
  <2>4. ASSUME NEW k \in Kinds, \/ ExecuteStart(v, p, k) \/ ExecuteEnd(v, p, k)
                                \/ ExecuteFail(v, p, k) \/ RequestExceptionHandler(v, p, k)
        PROVE  /\ job' = job \/ \E r : job' = [job EXCEPT ![v][p] = r]
               /\ work' = work \/ \E r : work' = [work EXCEPT ![v][p] = r]
    BY <2>1, <2>2, <2>4 DEF ExecuteStart, ExecuteEnd, ExecuteFail, RequestExceptionHandler
  <2>5. CASE ProvisionNetbird(v, p) \/ MarkSandboxAsReady(v, p) \/ DecrementPoolSize(v, p)
               \/ DeleteAllocationUnit(v, p)
    BY <2>1, <2>2, <2>5 DEF ProvisionNetbird, MarkSandboxAsReady, DecrementPoolSize, DeleteAllocationUnit
  <2> QED BY <1>6, <2>3, <2>4, <2>5, KindValues DEF Execution
<1>7. ASSUME NEW v \in Units, NEW c \in Cancellers, CancelStage(v, c), v # u
      PROVE  SameJobs(u, o)
  <2>1. /\ work' = work
        /\ \/ job' = job
           \/ \E s : job' = [job EXCEPT ![v][s[2]] = DeletedJob(@, Deps(v, s[2]), s[1])]
    BY Zenon, <1>7 DEF CancelStage
  <2>2. ASSUME NEW s, job' = [job EXCEPT ![v][s[2]] = DeletedJob(@, Deps(v, s[2]), s[1])]
        PROVE  job'[u] = job[u]
    BY <1>7, <2>2 DEF TypeOK
  <2> QED BY <2>1, <2>2 DEF SameJobs
<1>8. ASSUME NEW v \in Units, NEW p \in Ops, Crash(v, p)
      PROVE  SameJobs(u, o)
  BY <1>8 DEF Crash, CrashOrchestration, CrashJob
<1>9. CASE UNCHANGED vars
  BY <1>1, <1>9 DEF vars
<1> QED BY <1>2, <1>3, <1>4, <1>5, <1>6, <1>7, <1>8, <1>9 DEF Next

\* What the jobs of a chain and their stages have to do with each other in a step: who
\* deletes a job, what becomes of a stage that a worker leaves, who handles a failure.
StageFacts(u, o) ==
  /\ job'[u][o]["netbird"] = "failed" => job[u][o]["netbird"] = "failed"
  /\ \A k \in Kinds :
       /\ job'[u][o][k] = "deleted" =>
            \/ job[u][o][k] = "deleted"
            \/ \E d \in Kinds, c \in Cancellers : RowCancelled(u, c, d, o) /\ row[u][d].rq
       /\ job'[u][o][k] = "failed" =>
            job[u][o][k] = "failed" \/ row[u][k].run # o \/ work'[u][o][k] = "exc"
       /\ work[u][o][k] \in {"picked", "busy"} =>
            \/ work'[u][o][k] \in {"picked", "busy"}
            \/ row[u][k].run # o \/ row'[u][k].st \in {"done", "failed"}
       /\ work[u][o][k] = "exc" => work'[u][o][k] = "exc" \/ FailureRead(u, o, k)

\* A worker that turns to job j.
LEMMA FactsWorked ==
  ASSUME TypeOK, NEW u \in Units, NEW o \in Ops, NEW j \in Jobs, NEW w, SetWork(u, o, j, w),
         \/ job' = job \/ SetJob(u, o, j, "started") \/ Succeed(u, o, j)
         \/ SetJob(u, o, j, "failed") /\ j # "netbird" /\ (j \in Kinds => row[u][j].run # o \/ w = "exc"),
         j \in Kinds /\ work[u][o][j] \in {"picked", "busy"} =>
           w \in {"picked", "busy"} \/ row[u][j].run # o \/ row'[u][j].st \in {"done", "failed"},
         j \in Kinds /\ work[u][o][j] = "exc" => FailureRead(u, o, j)
  PROVE  StageFacts(u, o)
<1>0. /\ Kinds \subseteq Jobs /\ "netbird" \in Jobs /\ "netbird" \notin Kinds
      /\ job[u][o] \in [Jobs -> JobStatus] /\ work[u][o] \in [Jobs -> WorkState]
  <2>1. job[u][o] \in [Jobs -> JobStatus] /\ work[u][o] \in [Jobs -> WorkState]
    BY DEF TypeOK
  <2> QED BY <2>1 DEF Jobs, Kinds, AllocKinds, CleanupKinds
<1>1. \A i \in Jobs : work'[u][o][i] = IF i = j THEN w ELSE work[u][o][i]
  <2>1. work'[u][o] = [work[u][o] EXCEPT ![j] = w]
    BY WorkAt DEF Sets
  <2> QED BY <1>0, <2>1
<1>2. \A i \in Jobs :
        /\ job'[u][o][i] = "deleted" => job[u][o][i] = "deleted"
        /\ job'[u][o][i] = "failed" =>
             job[u][o][i] = "failed" \/ (i = j /\ j # "netbird" /\ (j \in Kinds => row[u][j].run # o \/ w = "exc"))
  <2>1. CASE job' = job
    BY <2>1
  <2>2. CASE SetJob(u, o, j, "started")
    <3>1. job'[u][o] = [job[u][o] EXCEPT ![j] = "started"]
      BY <2>2, StatusAt DEF Marks
    <3> QED BY <1>0, <3>1
  <2>3. CASE Succeed(u, o, j)
    <3>1. job'[u][o] = FinishedJob(job[u][o], Deps(u, o), j)
      BY <2>3, SucceedAt
    <3>2. \A i \in Jobs : job'[u][o][i] \in {"finished", "queued", job[u][o][i]}
      BY <1>0, <3>1 DEF FinishedJob
    <3> QED BY <3>2
  <2>4. CASE SetJob(u, o, j, "failed") /\ j # "netbird" /\ (j \in Kinds => row[u][j].run # o \/ w = "exc")
    <3>1. job'[u][o] = [job[u][o] EXCEPT ![j] = "failed"]
      BY <2>4, StatusAt DEF Marks
    <3> QED BY <1>0, <2>4, <3>1
  <2> QED BY <2>1, <2>2, <2>3, <2>4
<1>3. job'[u][o]["netbird"] = "failed" => job[u][o]["netbird"] = "failed"
  BY <1>0, <1>2
<1>4. ASSUME NEW k \in Kinds
      PROVE  /\ job'[u][o][k] = "deleted" => job[u][o][k] = "deleted"
             /\ job'[u][o][k] = "failed" =>
                  job[u][o][k] = "failed" \/ row[u][k].run # o \/ work'[u][o][k] = "exc"
             /\ work[u][o][k] \in {"picked", "busy"} =>
                  \/ work'[u][o][k] \in {"picked", "busy"}
                  \/ row[u][k].run # o \/ row'[u][k].st \in {"done", "failed"}
             /\ work[u][o][k] = "exc" => work'[u][o][k] = "exc" \/ FailureRead(u, o, k)
  BY <1>0, <1>1, <1>2
<1> QED BY <1>3, <1>4 DEF StageFacts

\* The workers of a chain.
LEMMA FactsExecution ==
  ASSUME TypeOK, NEW u \in Units, NEW o \in Ops, JobsInOrder(u, o), Execution(u, o)
  PROVE  StageFacts(u, o)
<1> USE KindValues
<1>0. "final" \notin Kinds /\ "netbird" \notin Kinds /\ "netbird" # "final"
  BY DEF Kinds, AllocKinds, CleanupKinds
<1>1. ASSUME NEW j \in Kinds \union {"netbird"}, TakeJob(u, o, j)
      PROVE  StageFacts(u, o)
  <2>1. SetWork(u, o, j, "picked") /\ SetJob(u, o, j, "started") /\ job[u][o][j] = "queued"
    BY <1>1 DEF TakeJob
  <2>2. work[u][o][j] = "idle"
    BY <2>1 DEF JobsInOrder
  <2> QED BY <2>1, <2>2, FactsWorked
<1>2. ASSUME NEW k \in Kinds, NEW st, SaveStage(u, o, k, st)
      PROVE  row'[u][k].st = st
  <2>1. SaveStage(u, 0, k, st)
    BY <1>2 DEF SaveStage
  <2> QED BY <2>1, RowAtMost DEF Saved
<1>3. ASSUME NEW k \in Kinds, ExecuteStart(u, o, k)
      PROVE  StageFacts(u, o)
  <2>1. \/ SetWork(u, o, k, "busy") /\ job' = job
        \/ SetWork(u, o, k, "ended") /\ SetJob(u, o, k, "failed") /\ row[u][k].run # o
    BY <1>3 DEF ExecuteStart
  <2>2. work[u][o][k] = "picked"
    BY <1>3 DEF ExecuteStart
  <2> QED BY <1>0, <2>1, <2>2, FactsWorked
<1>4. ASSUME NEW k \in Kinds, ExecuteEnd(u, o, k)
      PROVE  StageFacts(u, o)
  <2>1. \/ SetWork(u, o, k, "succeeded") /\ Succeed(u, o, k) /\ SaveStage(u, o, k, "done")
        \/ SetWork(u, o, k, "ended") /\ SetJob(u, o, k, "failed") /\ row[u][k].run # o
    BY <1>4 DEF ExecuteEnd
  <2>2. work[u][o][k] = "busy"
    BY <1>4 DEF ExecuteEnd
  <2> QED BY <1>0, <1>2, <2>1, <2>2, FactsWorked
<1>5. ASSUME NEW k \in Kinds, ExecuteFail(u, o, k)
      PROVE  StageFacts(u, o)
  <2>1. /\ SetJob(u, o, k, "failed") /\ work[u][o][k] = "busy"
        /\ \/ SetWork(u, o, k, "exc") /\ SaveStage(u, o, k, "failed")
           \/ SetWork(u, o, k, "ended") /\ row[u][k].run # o
    BY <1>5 DEF ExecuteFail
  <2> QED BY <1>0, <1>2, <2>1, FactsWorked
<1>6. ASSUME NEW k \in Kinds, RequestExceptionHandler(u, o, k)
      PROVE  StageFacts(u, o)
  <2>1. PICK T \in {{}, Snapshot(u, RequestKinds(k))} :
          /\ row[u][k].run = o /\ row[u][k].rq /\ HasStages(u, RequestKinds(k))
               => T = Snapshot(u, RequestKinds(k))
          /\ left' = [left EXCEPT ![u][<<o, k>>] = T]
    BY <1>6 DEF RequestExceptionHandler
  <2>2. <<o, k>> \in Cancellers
    BY DEF Cancellers
  <2>3. LeftBecomes(u, <<o, k>>, T)
    BY <2>1, <2>2, LeftAtMost
  <2>4. work[u][o][k] = "exc" /\ Turn(u) /\ row' = row /\ SetWork(u, o, k, "ended") /\ job' = job
    BY <1>6 DEF RequestExceptionHandler
  <2>5. work'[u][o][k] = "ended"
    BY <2>4 DEF SetWork, TypeOK
  <2>6. FailureRead(u, o, k)
    BY <2>1, <2>3, <2>4, <2>5 DEF FailureRead, RowsKept
  <2> QED BY <2>4, <2>6, FactsWorked
<1>7. CASE ProvisionNetbird(u, o)
  <2>1. SetWork(u, o, "netbird", "succeeded") /\ Succeed(u, o, "netbird")
    BY <1>7 DEF ProvisionNetbird
  <2> QED BY <1>0, <2>1, FactsWorked
<1>8. CASE MarkSandboxAsReady(u, o) \/ DecrementPoolSize(u, o) \/ DeleteAllocationUnit(u, o)
  <2>1. /\ \E w : SetWork(u, o, "final", w)
        /\ \/ SetJob(u, o, "final", "started") \/ Succeed(u, o, "final")
           \/ SetJob(u, o, "final", "failed")
    BY <1>8 DEF MarkSandboxAsReady, DecrementPoolSize, DeleteAllocationUnit
  <2> QED BY <1>0, <2>1, FactsWorked
<1> QED BY <1>1, <1>3, <1>4, <1>5, <1>6, <1>7, <1>8 DEF Execution

\* The orchestration job of a chain.
LEMMA FactsOrchestration ==
  ASSUME TypeOK, NEW u \in Units, NEW o \in Ops, Orchestration(u, o)
  PROVE  StageFacts(u, o)
<1>1. job[u][o] \in [Jobs -> JobStatus] /\ Kinds \subseteq Jobs /\ "netbird" \in Jobs /\ "final" \in Jobs
  <2>1. job[u][o] \in [Jobs -> JobStatus]
    BY DEF TypeOK
  <2> QED BY <2>1, KindValues
<1>2. ASSUME NEW j \in Jobs, job' = [job EXCEPT ![u][o] = EnqueuedJob(@, Deps(u, o), j)], work' = work
      PROVE  StageFacts(u, o)
  <2> DEFINE js == EnqueuedJob(job[u][o], Deps(u, o), j)
  <2>1. job' = [job EXCEPT ![u][o] = js] /\ js = EnqueuedJob(job[u][o], Deps(u, o), j)
    BY <1>2
  <2> HIDE DEF js
  <2>2. job'[u][o] = js
    BY <2>1 DEF TypeOK
  <2>3. \A i \in Jobs : job'[u][o][i] \in {"queued", "deferred", job[u][o][i]}
    BY <1>1, <2>1, <2>2 DEF EnqueuedJob
  <2> QED BY <1>1, <1>2, <2>3 DEF StageFacts
<1>3. ASSUME job' = job, work' = work
      PROVE  StageFacts(u, o)
  BY <1>3 DEF StageFacts
<1>4. ASSUME NEW S, StartChain(u, o, S), work' = work
      PROVE  StageFacts(u, o)
  BY <1>1, <1>2, <1>3, <1>4 DEF StartChain
<1>5. CASE CreateAllocationJobs(u, o) \/ RestartStageHandlers(u, o) \/ CreateCleanupJobs(u, o)
  <2>1. /\ work' = work
        /\ job' = job \/ \E S : StartChain(u, o, S)
    BY <1>5 DEF CreateAllocationJobs, RestartStageHandlers, CreateCleanupJobs, FailOrchestration
  <2> QED BY <1>3, <1>4, <2>1
<1>6. CASE ReplaceSandbox(u, o) \/ SetJobId(u, o)
  BY <1>3, <1>6 DEF ReplaceSandbox, SetJobId, FailOrchestration
<1>7. CASE EnqueueStage(u, o)
  <2>1. PICK k \in First(op[u][o].todo) : job' = [job EXCEPT ![u][o] = EnqueuedJob(@, Deps(u, o), k)]
    BY <1>7 DEF EnqueueStage
  <2>2. k \in Kinds
    BY DEF First, TypeOK, Op
  <2> QED BY <1>1, <1>2, <1>7, <2>1, <2>2 DEF EnqueueStage
<1>8. CASE EnqueueFinalizer(u, o)
  BY <1>1, <1>2, <1>8 DEF EnqueueFinalizer
<1> QED BY <1>5, <1>6, <1>7, <1>8 DEF Orchestration

\* Who cancels a stage of a chain.
LEMMA FactsCancelStage ==
  ASSUME TypeOK, NEW u \in Units, NEW o \in Ops, NEW c \in Cancellers, CancelStage(u, c)
  PROVE  StageFacts(u, o)
<1>1. PICK s \in left[u][c] :
        /\ Turn(u) /\ \A t \in left[u][c] : Rank[t[1]] <= Rank[s[1]]
        /\ work' = work
        /\ \/ job' = job
           \/ /\ row[u][s[1]].run = s[2] /\ SaveStage(u, s[2], s[1], "failed")
              /\ row[u][s[1]].rq /\ job' = [job EXCEPT ![u][s[2]] = DeletedJob(@, Deps(u, s[2]), s[1])]
              /\ left' = [left EXCEPT ![u][c] = @ \ {s}]
  BY Zenon DEF CancelStage
<1>2. CASE job' = job
  BY <1>1, <1>2 DEF StageFacts
<1> DEFINE k == s[1]
           p == s[2]
           js == DeletedJob(job[u][p], Deps(u, p), k)
<1>3. k \in Kinds /\ p \in Ops /\ s = <<k, p>>
  BY Pairs DEF TypeOK
<1>4. CASE /\ row[u][k].run = p /\ SaveStage(u, p, k, "failed")
           /\ row[u][k].rq /\ job' = [job EXCEPT ![u][p] = js]
           /\ left' = [left EXCEPT ![u][c] = @ \ {s}]
  <2>0. js = DeletedJob(job[u][p], Deps(u, p), k) /\ \A t \in left[u][c] : Rank[t[1]] <= Rank[k]
    BY <1>1
  <2> HIDE DEF k, p, js
  <2>1. /\ job'[u][p] = js
        /\ \A v \in Units, q \in Ops : v # u \/ q # p => job'[v][q] = job[v][q]
    BY <1>3, <1>4 DEF TypeOK
  <2>2. CASE o # p
    <3>1. job'[u][o] = job[u][o]
      BY <2>1, <2>2
    <3> QED BY <1>1, <3>1 DEF StageFacts
  <2>3. CASE o = p
    <3>1. Saved(u, k, "failed")
      <4>1. SaveStage(u, 0, k, "failed")
        BY <1>4 DEF SaveStage
      <4> QED BY <1>3, <4>1, RowAtMost
    <3>2. LeftBecomes(u, c, left[u][c] \ {s})
      BY <1>4, LeftAtMost
    <3>3. RowCancelled(u, c, k, o) /\ row[u][k].rq
      BY <1>1, <1>3, <1>4, <2>0, <2>1, <2>3, <3>1, <3>2 DEF RowCancelled
    <3>4. \A i \in Jobs : job'[u][o][i] \in {"deleted", job[u][o][i]}
      <4>1. job[u][o] \in [Jobs -> JobStatus]
        BY DEF TypeOK
      <4> QED BY <2>0, <2>1, <2>3, <4>1 DEF DeletedJob
    <3>5. job'[u][o]["netbird"] = "failed" => job[u][o]["netbird"] = "failed"
      BY <3>4, KindValues
    <3>6. \A i \in Kinds : job'[u][o][i] = "failed" => job[u][o][i] = "failed"
      BY <3>4, KindValues
    <3> QED BY <1>1, <1>3, <3>3, <3>5, <3>6 DEF StageFacts
  <2> QED BY <2>2, <2>3
<1> QED BY <1>1, <1>2, <1>4

\* Whoever steps.
LEMMA StageSteps ==
  ASSUME TypeOK, "crash" \notin Faults, [Next]_vars, NEW u \in Units, NEW o \in Ops, JobsInOrder(u, o)
  PROVE  StageFacts(u, o)
<1>1. CASE SameJobs(u, o)
  BY <1>1 DEF SameJobs, StageFacts
<1> QED BY <1>1, OwnJobs, FactsOrchestration, FactsExecution, FactsCancelStage

\* Past the web request, an operation is moved on by its orchestration job only.
LEMMA OwnOperation ==
  ASSUME TypeOK, Cancelling, "crash" \notin Faults, [Next]_vars, NEW u \in Units, NEW o \in Ops,
         op[u][o].pc \notin {"idle", "cancel", "delete"}
  PROVE  op'[u][o] = op[u][o] \/ Orchestration(u, o)
<1>1. ASSUME op' = op
      PROVE  op'[u][o] = op[u][o]
  BY <1>1
<1>2. ASSUME NEW v \in Units, NEW p \in Ops, v # u \/ p # o,
             \E r : op' = [op EXCEPT ![v][p] = r]
      PROVE  op'[u][o] = op[u][o]
  <2>1. ASSUME NEW r, op' = [op EXCEPT ![v][p] = r]
        PROVE  op'[u][o] = op[u][o]
    BY <1>2, <2>1 DEF TypeOK
  <2> QED BY <1>2, <2>1
<1>3. ASSUME NEW v \in Units, NEW p \in Ops, NEW pc, SetPc(v, p, pc)
      PROVE  \E r : op' = [op EXCEPT ![v][p] = r]
  BY <1>3 DEF SetPc
<1>4. ASSUME NEW v \in Units, NEW p \in Ops, op[v][p].pc \in {"idle", "cancel", "delete"},
             \E r : op' = [op EXCEPT ![v][p] = r]
      PROVE  op'[u][o] = op[u][o]
  BY <1>2, <1>4
<1>5. ASSUME NEW v \in Units, WebRequest(v)
      PROVE  op'[u][o] = op[u][o]
  <2>1. 1 \in Ops
    BY ConstantsAssumption DEF Ops
  <2>2. CASE CreateAllocationsRequests(v)
    BY <1>4, <2>1, <2>2 DEF CreateAllocationsRequests
  <2>3. CASE DeleteCleanupRequest(v) \/ LockSandbox(v) \/ UnlockSandbox(v)
    BY <2>3 DEF DeleteCleanupRequest, LockSandbox, UnlockSandbox
  <2>4. ASSUME NEW p \in Ops, \/ RestartRequest(v, p) \/ CancelAllocationRequest(v, p)
                              \/ CancelCleanupRequest(v, p) \/ CreateCleanupRequest(v, p)
        PROVE  op'[u][o] = op[u][o]
    BY <1>4, <2>4 DEF RestartRequest, CancelAllocationRequest, CancelCleanupRequest, CancelRequest,
       CreateCleanupRequest, Asks
  <2>5. ASSUME NEW p \in Ops, CreateCleanupRequestForce(v, p)
        PROVE  op'[u][o] = op[u][o]
    <3> DEFINE r1 == [NoOp EXCEPT !.kind = "force", !.pc = "failed"]
               r2 == [NoOp EXCEPT !.kind = "force", !.sb = sandbox[v], !.req = creq[v],
                                  !.pc = IF IsFinished(v, AllocKinds) THEN "delete" ELSE "cancel"]
    <3>1. op' = [op EXCEPT ![v][p] = r1] \/ op' = [op EXCEPT ![v][p] = r2]
      BY <2>5 DEF CreateCleanupRequestForce
    <3> HIDE DEF r1, r2
    <3> QED BY <1>4, <2>5, <3>1 DEF CreateCleanupRequestForce, Asks
  <2> QED BY <1>5, <2>2, <2>3, <2>4, <2>5 DEF WebRequest
<1>6. ASSUME NEW v \in Units, NEW p \in Ops, WebContinues(v, p)
      PROVE  op'[u][o] = op[u][o]
  BY <1>3, <1>4, <1>6 DEF WebContinues, CancelDone, DeleteSandbox
<1>7. ASSUME NEW v \in Units, NEW p \in Ops, Orchestration(v, p)
      PROVE  op'[u][o] = op[u][o] \/ Orchestration(u, o)
  <2>1. CASE v = u /\ p = o
    BY <1>7, <2>1
  <2>2. CASE v # u \/ p # o
    <3>1. ASSUME NEW S, StartChain(v, p, S)
          PROVE  \E r : op' = [op EXCEPT ![v][p] = r]
      BY <3>1 DEF StartChain
    <3>2. ASSUME SetJobId(v, p)
          PROVE  \E r : op' = [op EXCEPT ![v][p] = r]
      BY <1>3, <3>2 DEF SetJobId, FailOrchestration
    <3>3. \E r : op' = [op EXCEPT ![v][p] = r]
      BY <1>3, <1>7, <3>1, <3>2 DEF Orchestration, CreateAllocationJobs, ReplaceSandbox, RestartStageHandlers,
         CreateCleanupJobs, EnqueueStage, EnqueueFinalizer, FailOrchestration
    <3> QED BY <1>2, <2>2, <3>3
  <2> QED BY <2>1, <2>2
<1>8. ASSUME NEW v \in Units, NEW p \in Ops, Execution(v, p)
      PROVE  op' = op
  BY <1>8 DEF Execution, TakeJob, ExecuteStart, ExecuteEnd, ExecuteFail, RequestExceptionHandler,
     ProvisionNetbird, MarkSandboxAsReady, DecrementPoolSize, DeleteAllocationUnit
<1>9. ASSUME NEW v \in Units, NEW c \in Cancellers, CancelStage(v, c)
      PROVE  op'[u][o] = op[u][o]
  <2>1. op' = op \/ (left[v][c] # {} /\ c[2] = "web" /\ SetPc(v, c[1], "failed"))
    BY Zenon, <1>9 DEF CancelStage
  <2>2. ASSUME left[v][c] # {}, c[2] = "web", SetPc(v, c[1], "failed")
        PROVE  op'[u][o] = op[u][o]
    <3>1. c[1] \in Ops /\ c = <<c[1], "web">>
      BY <2>2 DEF Cancellers
    <3>2. op[v][c[1]].pc = "cancel"
      BY <2>2, <3>1 DEF Cancelling
    <3> QED BY <1>3, <1>4, <2>2, <3>1, <3>2
  <2> QED BY <2>1, <2>2
<1>10. ASSUME NEW v \in Units, NEW p \in Ops, Crash(v, p)
       PROVE  FALSE
  BY <1>10 DEF Crash, CrashOrchestration, CrashJob
<1>11. CASE UNCHANGED vars
  BY <1>11 DEF vars
<1> QED BY <1>5, <1>6, <1>7, <1>8, <1>9, <1>10, <1>11 DEF Next

\* An orchestration job that has begun a chain, or is about to create the unit, gives up
\* only if a stage that it enqueues is gone.
LEMMA ChainNotAbandoned ==
  ASSUME TypeOK, Cancelling, "crash" \notin Faults, [Next]_vars, NEW u \in Units, NEW o \in Ops,
         op'[u][o].pc = "failed",
         op[u][o].pc \in Enqueueing \/ (op[u][o].pc = "queued" /\ op[u][o].kind \in {"none", "create"})
  PROVE  op[u][o].pc = "setid" /\ \E k \in First(op[u][o].todo) : row[u][k].run # o
<1>1. Orchestration(u, o)
  BY OwnOperation DEF Enqueueing
<1>2. ASSUME NEW pc, SetPc(u, o, pc)
      PROVE  op'[u][o].pc = pc
  BY <1>2 DEF SetPc, TypeOK, Op
<1>3. ASSUME NEW S, StartChain(u, o, S)
      PROVE  FALSE
  <2>1. op'[u][o].pc = "enqueue"
    BY <1>3 DEF StartChain, TypeOK, Op
  <2> QED BY <2>1
<1>4. CASE SetJobId(u, o)
  <2>1. PICK k \in First(op[u][o].todo) :
          IF row[u][k].run = o
            THEN op' = [op EXCEPT ![u][o] = [@ EXCEPT !.pc = "enqueue", !.todo = op[u][o].todo \ {k}]]
            ELSE FailOrchestration(u, o)
    BY <1>4 DEF SetJobId
  <2>2. ASSUME op' = [op EXCEPT ![u][o] = [@ EXCEPT !.pc = "enqueue", !.todo = op[u][o].todo \ {k}]]
        PROVE  FALSE
    <3> DEFINE r == [op[u][o] EXCEPT !.pc = "enqueue", !.todo = op[u][o].todo \ {k}]
    <3>1. op' = [op EXCEPT ![u][o] = r]
      BY <2>2
    <3>2. r.pc = "enqueue"
      BY DEF TypeOK, Op
    <3> HIDE DEF r
    <3>3. op'[u][o] = r
      BY <3>1 DEF TypeOK
    <3> QED BY <3>2, <3>3
  <2>3. row[u][k].run # o
    BY <2>1, <2>2
  <2> QED BY <1>4, <2>3 DEF SetJobId
<1> QED BY <1>1, <1>2, <1>3, <1>4 DEF Orchestration, CreateAllocationJobs, ReplaceSandbox, RestartStageHandlers,
     CreateCleanupJobs, EnqueueStage, EnqueueFinalizer, Orchestrates, Enqueueing

\* The stages of a unit stay, except that a cleanup request takes its own with it and the
\* unit takes all of them.
RowsStay(u) ==
  /\ u \in units' => u \in units \/ op'[u][1].pc = "queued"
  /\ creq'[u] # 0 => creq[u] # 0 \/ \A k \in CleanupKinds : row'[u][k].run # 0
  /\ \A k \in Kinds : row[u][k].run # 0 =>
       row'[u][k].run # 0 \/ (creq'[u] = 0 /\ (k \in CleanupKinds \/ u \notin units'))

\* Whoever steps.
LEMMA RowsStaySteps ==
  ASSUME TypeOK, [Next]_vars, NEW u \in Units
  PROVE  RowsStay(u)
<1> DEFINE Keeps == \A k \in Kinds : row[u][k].run # 0 => row'[u][k].run # 0
<1>0. /\ 1 \in Ops
      /\ row \in [Units -> [Kinds -> Row]] /\ creq \in [Units -> {0} \union Ops]
      /\ \A p \in Ops : p # 0
  BY ConstantsAssumption DEF Ops, TypeOK
<1>1. ASSUME Keeps, units' \subseteq units, creq' = creq
      PROVE  RowsStay(u)
  BY <1>1 DEF RowsStay
<1>2. ASSUME row' = row
      PROVE  Keeps
  BY <1>2
<1>3. ASSUME NEW v \in Units, NEW p \in Ops, NEW k \in Kinds, NEW st, SaveStage(v, p, k, st)
      PROVE  Keeps
  <2>1. \A i \in Kinds : row'[u][i].run = row[u][i].run
    BY <1>0, <1>3 DEF SaveStage, Row
  <2> QED BY <2>1
<1>4. ASSUME NEW v \in Units, NEW p \in Ops, NEW S, Restage(v, p, S)
      PROVE  Keeps
  <2>1. \A i \in Kinds : row'[u][i] = row[u][i] \/ row'[u][i].run = p
    BY <1>0, <1>4 DEF Restage, NewRow
  <2> QED BY <1>0, <2>1
<1>5. ASSUME NEW v \in Units, NEW p \in Ops, SetJobId(v, p)
      PROVE  RowsStay(u)
  <2>1. ASSUME NEW k \in First(op[v][p].todo), row' = [row EXCEPT ![v][k].rq = TRUE]
        PROVE  Keeps
    <3>1. k \in Kinds
      BY DEF First, TypeOK, Op
    <3>2. \A i \in Kinds : row'[u][i].run = row[u][i].run
      BY <1>0, <2>1, <3>1 DEF Row
    <3> QED BY <3>2
  <2> QED BY <1>1, <1>2, <1>5, <2>1 DEF SetJobId, FailOrchestration
<1> HIDE DEF Keeps
<1>6. ASSUME NEW v \in Units, WebRequest(v)
      PROVE  RowsStay(u)
  <2>1. CASE CreateAllocationsRequests(v)
    <3>1. CASE v = u
      <4> DEFINE r == [NoOp EXCEPT !.kind = "create", !.pc = "queued"]
      <4>1. op' = [op EXCEPT ![v][1] = r] /\ r.pc = "queued"
        BY <2>1 DEF CreateAllocationsRequests, NoOp
      <4> HIDE DEF r
      <4>2. op'[u][1] = r
        BY <1>0, <3>1, <4>1 DEF TypeOK
      <4> QED BY <2>1, <3>1, <4>1, <4>2 DEF CreateAllocationsRequests, RowsStay
    <3>2. CASE v # u
      BY <2>1, <3>2 DEF CreateAllocationsRequests, RowsStay
    <3> QED BY <3>1, <3>2
  <2>2. CASE DeleteCleanupRequest(v)
    <3>1. CASE v = u
      <4>1. \A k \in Kinds : k \notin CleanupKinds => row'[u][k] = row[u][k]
        BY <1>0, <2>2, <3>1 DEF DeleteCleanupRequest
      <4>2. creq'[u] = 0 /\ units' = units
        BY <1>0, <2>2, <3>1 DEF DeleteCleanupRequest
      <4> QED BY <4>1, <4>2 DEF RowsStay
    <3>2. CASE v # u
      <4>1. row'[u] = row[u] /\ creq'[u] = creq[u] /\ units' = units
        BY <1>0, <2>2, <3>2 DEF DeleteCleanupRequest
      <4> QED BY <4>1 DEF RowsStay
    <3> QED BY <3>1, <3>2
  <2>3. CASE LockSandbox(v) \/ UnlockSandbox(v)
    BY <1>1, <1>2, <2>3 DEF LockSandbox, UnlockSandbox
  <2>4. ASSUME NEW p \in Ops, \/ RestartRequest(v, p) \/ CancelAllocationRequest(v, p)
                              \/ CancelCleanupRequest(v, p) \/ CreateCleanupRequest(v, p)
                              \/ CreateCleanupRequestForce(v, p)
        PROVE  RowsStay(u)
    BY <1>1, <1>2, <2>4 DEF RestartRequest, CancelAllocationRequest, CancelCleanupRequest, CancelRequest,
       CreateCleanupRequest, CreateCleanupRequestForce
  <2> QED BY <1>6, <2>1, <2>2, <2>3, <2>4 DEF WebRequest
<1>7. ASSUME NEW v \in Units, NEW p \in Ops, WebContinues(v, p)
      PROVE  RowsStay(u)
  BY <1>1, <1>2, <1>7 DEF WebContinues, CancelDone, DeleteSandbox
<1>8. ASSUME NEW v \in Units, NEW p \in Ops, Orchestration(v, p)
      PROVE  RowsStay(u)
  <2>1. CASE CreateCleanupJobs(v, p)
    <3>1. CASE FailOrchestration(v, p)
      BY <1>1, <1>2, <3>1 DEF FailOrchestration
    <3>2. CASE ~FailOrchestration(v, p)
      <4>1. /\ creq' = [creq EXCEPT ![v] = IF @ = 0 THEN p ELSE @] /\ units' = units
            /\ Restage(v, p, CleanupKinds)
        BY <2>1, <3>2 DEF CreateCleanupJobs
      <4>2. Keeps
        BY <1>4, <4>1
      <4>3. CASE v = u
        <5>1. \A k \in CleanupKinds : row'[u][k].run # 0
          BY <1>0, <4>1, <4>3, KindValues DEF Restage, NewRow
        <5> QED BY <4>1, <4>2, <5>1 DEF RowsStay, Keeps
      <4>4. CASE v # u
        <5>1. creq'[u] = creq[u]
          BY <1>0, <4>1, <4>4
        <5> QED BY <4>1, <4>2, <5>1 DEF RowsStay, Keeps
      <4> QED BY <4>3, <4>4
    <3> QED BY <3>1, <3>2
  <2>2. CASE CreateAllocationJobs(v, p) \/ RestartStageHandlers(v, p)
    <3>1. /\ units' = units /\ creq' = creq
          /\ row' = row \/ \E S : Restage(v, p, S)
      BY <2>2 DEF CreateAllocationJobs, RestartStageHandlers, FailOrchestration
    <3> QED BY <1>1, <1>2, <1>4, <3>1
  <2>3. CASE ReplaceSandbox(v, p) \/ EnqueueStage(v, p) \/ EnqueueFinalizer(v, p)
    BY <1>1, <1>2, <2>3 DEF ReplaceSandbox, EnqueueStage, EnqueueFinalizer, FailOrchestration
  <2> QED BY <1>5, <1>8, <2>1, <2>2, <2>3 DEF Orchestration
<1>9. ASSUME NEW v \in Units, NEW p \in Ops, Execution(v, p)
      PROVE  RowsStay(u)
  <2>1. CASE DeleteAllocationUnit(v, p)
    <3>1. CASE sandbox[v] # 0
      BY <1>1, <1>2, <2>1, <3>1 DEF DeleteAllocationUnit
    <3>2. CASE sandbox[v] = 0
      <4>1. /\ units' = units \ {v} /\ creq' = [creq EXCEPT ![v] = 0]
            /\ row' = [row EXCEPT ![v] = [k \in Kinds |-> NoRow]]
        BY <2>1, <3>2 DEF DeleteAllocationUnit
      <4>2. CASE v = u
        <5>1. creq'[u] = 0 /\ u \notin units'
          BY <1>0, <4>1, <4>2
        <5> QED BY <5>1 DEF RowsStay
      <4>3. CASE v # u
        <5>1. creq'[u] = creq[u] /\ row'[u] = row[u]
          BY <1>0, <4>1, <4>3
        <5> QED BY <4>1, <5>1 DEF RowsStay
      <4> QED BY <4>2, <4>3
    <3> QED BY <3>1, <3>2
  <2>2. ASSUME NEW k \in Kinds, \/ TakeJob(v, p, k) \/ ExecuteStart(v, p, k) \/ ExecuteEnd(v, p, k)
                                \/ ExecuteFail(v, p, k) \/ RequestExceptionHandler(v, p, k)
        PROVE  RowsStay(u)
    BY <1>1, <1>2, <1>3, <2>2 DEF TakeJob, ExecuteStart, ExecuteEnd, ExecuteFail, RequestExceptionHandler
  <2>3. CASE TakeJob(v, p, "netbird") \/ ProvisionNetbird(v, p) \/ MarkSandboxAsReady(v, p)
             \/ DecrementPoolSize(v, p)
    BY <1>1, <1>2, <2>3 DEF TakeJob, ProvisionNetbird, MarkSandboxAsReady, DecrementPoolSize
  <2> QED BY <1>9, <2>1, <2>2, <2>3 DEF Execution
<1>10. ASSUME NEW v \in Units, NEW c \in Cancellers, CancelStage(v, c)
       PROVE  RowsStay(u)
  <2>1. PICK s \in left[v][c] : /\ units' = units /\ creq' = creq
                                /\ row' = row \/ SaveStage(v, s[2], s[1], "failed")
    BY Zenon, <1>10 DEF CancelStage
  <2>2. s[1] \in Kinds /\ s[2] \in Ops
    BY Pairs DEF TypeOK
  <2> QED BY <1>1, <1>2, <1>3, <2>1, <2>2
<1>11. ASSUME NEW v \in Units, NEW p \in Ops, Crash(v, p)
       PROVE  RowsStay(u)
  BY <1>1, <1>2, <1>11 DEF Crash, CrashOrchestration, CrashJob, FailOrchestration
<1>12. CASE UNCHANGED vars
  BY <1>1, <1>2, <1>12 DEF vars
<1> QED BY <1>6, <1>7, <1>8, <1>9, <1>10, <1>11, <1>12 DEF Next

\* The rows of a request come and go together, and a created unit gets its own.
LEMMA StepRowsComplete ==
  ASSUME TypeOK, Cancelling, FirstCreates, "crash" \notin Faults, [Next]_vars, NEW u \in Units,
         RowsComplete(u)
  PROVE  RowsComplete(u)'
<1>0. /\ 1 \in Ops /\ \A p \in Ops : p # 0
      /\ AllocKinds \subseteq Kinds /\ CleanupKinds \subseteq Kinds
      /\ \A k \in AllocKinds : k \notin CleanupKinds
  BY ConstantsAssumption DEF Ops, Kinds, AllocKinds, CleanupKinds
<1>1. \A S \in {AllocKinds, CleanupKinds} : Rows(u, S)' \in {{}, S}
  <2> SUFFICES ASSUME NEW S \in {AllocKinds, CleanupKinds}
               PROVE  \/ \A k \in S : row'[u][k].run = 0
                      \/ \A k \in S : row'[u][k].run # 0
    BY DEF Rows
  <2>1. (\A k \in S : row[u][k].run = 0) \/ (\A k \in S : row[u][k].run # 0)
    BY DEF RowsComplete, Rows
  <2>2. UnitStep(u)
    BY UnitSteps
  <2>3. ASSUME \A k \in Kinds : row'[u][k].run = row[u][k].run
        PROVE  (\A k \in S : row'[u][k].run = 0) \/ (\A k \in S : row'[u][k].run # 0)
    BY <1>0, <2>1, <2>3
  <2>4. CASE RowsKept(u)
    BY <2>3, <2>4 DEF RowsKept
  <2>5. CASE RowsGone(u)
    BY <1>0, <2>1, <2>5 DEF RowsGone, NoRow
  <2>6. ASSUME NEW p \in Ops, RowsMade(u, p)
        PROVE  (\A k \in S : row'[u][k].run = 0) \/ (\A k \in S : row'[u][k].run # 0)
    <3>1. \A k \in Kinds : row'[u][k] = IF k \in op'[u][p].plan THEN NewRow(p) ELSE row[u][k]
      BY <2>6 DEF RowsMade
    <3>2. CASE op'[u][p].plan \in {AllocKinds, CleanupKinds}
      BY <1>0, <2>1, <3>1, <3>2 DEF NewRow
    <3>3. CASE op'[u][p].plan = FailedStages(u) /\ HasStages(u, AllocKinds)
      <4>1. FailedStages(u) \subseteq AllocKinds
        BY DEF FailedStages, AllocKinds
      <4>2. \A k \in AllocKinds : row[u][k].run # 0
        BY <3>3 DEF HasStages, Rows
      <4>3. \A k \in AllocKinds : row'[u][k].run # 0
        BY <1>0, <3>1, <4>2 DEF NewRow
      <4>4. \A k \in CleanupKinds : row'[u][k] = row[u][k]
        BY <1>0, <3>1, <3>3, <4>1
      <4> QED BY <2>1, <4>3, <4>4
    <3> QED BY <2>6, <3>2, <3>3 DEF RowsMade
  <2>7. ASSUME NEW p \in Ops, RowTied(u, p)
        PROVE  \A k \in Kinds : row'[u][k].run = row[u][k].run
    BY <2>7 DEF RowTied
  <2>8. ASSUME NEW p \in Ops, NEW i \in Kinds, RowSaved(u, p, i)
        PROVE  \A k \in Kinds : row'[u][k].run = row[u][k].run
    BY <2>8 DEF RowSaved, Saved
  <2>9. ASSUME NEW p \in Ops, NEW i \in Kinds, NEW c \in Cancellers, RowCancelled(u, c, i, p)
        PROVE  \A k \in Kinds : row'[u][k].run = row[u][k].run
    BY <2>9 DEF RowCancelled, Saved
  <2> QED BY <2>2, <2>3, <2>4, <2>5, <2>6, <2>7, <2>8, <2>9
       DEF UnitStep, RowsRead, FailureRead, CancelMissed
<1>2. RowsStay(u)
  BY RowsStaySteps
<1>3. creq'[u] # 0 => HasStages(u, CleanupKinds)'
  <2> SUFFICES ASSUME creq'[u] # 0
               PROVE  \A k \in CleanupKinds : row'[u][k].run # 0
    BY DEF HasStages, Rows
  <2>1. creq[u] # 0 => \A k \in CleanupKinds : row[u][k].run # 0
    BY DEF RowsComplete, HasStages, Rows
  <2> QED BY <1>0, <1>2, <2>1 DEF RowsStay
<1>4. ASSUME u \in units', op'[u][1].pc # "queued"
      PROVE  op'[u][1].pc # "idle" /\ HasStages(u, AllocKinds)'
  <2>1. u \in units /\ ChainStep(u, 1)
    BY <1>0, <1>2, <1>4, ChainSteps DEF RowsStay
  <2>2. CASE op[u][1].pc = "queued"
    <3>1. op[u][1].kind \in {"none", "create"}
      BY <1>0 DEF FirstCreates
    <3>2. op'[u][1].pc # "failed"
      BY <1>0, <2>2, <3>1, ChainNotAbandoned
    <3>3. IsStarted(u, 1)
      BY <1>4, <2>1, <2>2, <3>1, <3>2 DEF ChainStep, SameChain, IsAsked, MovesOn, Goes, IsEnqueued, IsTied,
         IsClosed, Works, LosesJob
    <3>4. \A k \in AllocKinds : row'[u][k] = NewRow(1)
      BY <2>2, <3>1, <3>3 DEF IsStarted, Chains
    <3>5. \A k \in AllocKinds : row'[u][k].run # 0
      BY <1>0, <3>4 DEF NewRow
    <3>6. op'[u][1].pc = "enqueue"
      BY <3>3 DEF IsStarted
    <3> QED BY <3>5, <3>6 DEF HasStages, Rows
  <2>3. CASE op[u][1].pc # "queued"
    <3>1. op[u][1].pc # "idle" /\ \A k \in AllocKinds : row[u][k].run # 0
      BY <2>1, <2>3 DEF RowsComplete, HasStages, Rows
    <3>2. \A k \in AllocKinds : row'[u][k].run # 0
      BY <1>0, <1>2, <1>4, <3>1 DEF RowsStay
    <3>3. op'[u][1].pc # "idle"
      BY <2>1, <3>1 DEF ChainStep, SameChain, IsAsked, MovesOn, Goes, IsStarted, IsEnqueued, IsTied,
         IsClosed, Works, LosesJob
    <3> QED BY <3>2, <3>3 DEF HasStages, Rows
  <2> QED BY <2>2, <2>3
<1> QED BY <1>1, <1>3, <1>4 DEF RowsComplete

\* The NetBird job stays.
LEMMA NetbirdStays ==
  ASSUME TypeOK, NEW u \in Units, NEW o \in Ops, ChainStep(u, o), job'[u][o]["netbird"] = "none"
  PROVE  job[u][o]["netbird"] = "none"
<1>0. /\ job[u][o] \in [Jobs -> JobStatus] /\ "netbird" \in Jobs
  <2>1. job[u][o] \in [Jobs -> JobStatus]
    BY DEF TypeOK
  <2> QED BY <2>1, KindValues
<1>1. CASE SameJobs(u, o)
  BY <1>1 DEF SameJobs
<1>2. CASE IsStarted(u, o)
  BY <1>0, <1>2 DEF IsStarted
<1>3. CASE IsEnqueued(u, o)
  BY <1>0, <1>3 DEF IsEnqueued, EnqueuedJob
<1>4. CASE IsClosed(u, o)
  BY <1>0, <1>4 DEF IsClosed, EnqueuedJob
<1>5. CASE Works(u, o)
  <2>1. PICK j \in Jobs : \/ Takes(u, o, j) \/ EndsWell(u, o, j) \/ EndsBadly(u, o, j)
                          \/ CountsOut(u, o, j) \/ Proceeds(u, o, j)
    BY <1>5 DEF Works
  <2>2. CASE EndsWell(u, o, j)
    BY <1>0, <2>2 DEF EndsWell, FinishedJob
  <2>3. CASE ~EndsWell(u, o, j)
    BY <1>0, <2>1, <2>3 DEF Takes, EndsBadly, CountsOut, Proceeds, Marks
  <2> QED BY <2>2, <2>3
<1>6. CASE LosesJob(u, o)
  BY <1>0, <1>6 DEF LosesJob, DeletedJob
<1> QED BY <1>1, <1>2, <1>3, <1>4, <1>5, <1>6 DEF ChainStep, SameChain, IsAsked, MovesOn, IsTied

\* Where the step of a chain can lead to.
LEMMA ChainGoes ==
  ASSUME NEW u \in Units, NEW o \in Ops, ChainStep(u, o), ChainBegun(u, o)
  PROVE  /\ op[u][o].pc \in Unstarted => IsStarted(u, o) \/ op'[u][o].plan = {}
         /\ op'[u][o].pc = "done" => op[u][o].pc = "done" \/ op'[u][o].plan = {} \/ IsClosed(u, o)
         /\ op'[u][o].pc = "failed" => op[u][o].pc = "failed" \/ op'[u][o].plan = {} \/ op[u][o].pc \in Enqueueing
<1> USE DEF Unstarted, Enqueueing
<1>1. op[u][o].pc \in Unstarted => op[u][o].plan = {}
  BY DEF ChainBegun
<1>2. CASE SameChain(u, o) \/ Works(u, o) \/ LosesJob(u, o)
  BY <1>1, <1>2 DEF SameChain, Works, LosesJob
<1>3. CASE IsAsked(u, o)
  BY <1>3 DEF IsAsked
<1>4. CASE MovesOn(u, o)
  BY <1>1, <1>4 DEF MovesOn, Goes, KeepsPlan
<1>5. CASE IsStarted(u, o)
  BY <1>5 DEF IsStarted
<1>6. CASE IsEnqueued(u, o) \/ IsTied(u, o) \/ IsClosed(u, o)
  BY <1>6 DEF IsEnqueued, IsTied, IsClosed, Goes
<1> QED BY <1>2, <1>3, <1>4, <1>5, <1>6 DEF ChainStep

\* A chain that has been begun is completed.
LEMMA StepChainWhole ==
  ASSUME TypeOK, Cancelling, "crash" \notin Faults, [Next]_vars, NEW u \in Units, NEW o \in Ops,
         OrderBefore(u, o), ChainWhole(u, o)
  PROVE  ChainWhole(u, o)'
<1> USE DEF OrderBefore, ChainInOrder, RowsInOrder
<1>0. /\ ChainStep(u, o) /\ ChainBegun(u, o) /\ JobsInOrder(u, o) /\ RowsMatch(u, o) /\ RowsFresh(u, o)
      /\ op[u][o].plan \subseteq Kinds /\ op[u][o].todo \subseteq op[u][o].plan
  BY DEF ChainBegun, TypeOK, Op
<1>1. /\ op[u][o].pc \in Unstarted => IsStarted(u, o) \/ op'[u][o].plan = {}
      /\ op'[u][o].pc = "done" => op[u][o].pc = "done" \/ op'[u][o].plan = {} \/ IsClosed(u, o)
      /\ op'[u][o].pc = "failed" => op[u][o].pc = "failed" \/ op'[u][o].plan = {} \/ op[u][o].pc \in Enqueueing
  BY <1>0, ChainGoes
<1>2. op[u][o].pc \notin Unstarted => op'[u][o].plan = op[u][o].plan
  BY <1>0, StartedStays
<1>3. ASSUME op'[u][o].pc = "failed"
      PROVE  op'[u][o].plan = {}
  <2>1. CASE op[u][o].pc = "failed"
    BY <1>2, <2>1 DEF ChainWhole, Unstarted
  <2>2. CASE op[u][o].pc \in Enqueueing
    <3>1. PICK k \in First(op[u][o].todo) : row[u][k].run # o
      BY <1>3, <2>2, ChainNotAbandoned
    <3> QED BY <1>0, <2>2, <3>1 DEF RowsFresh, First
  <2> QED BY <1>1, <1>3, <2>1, <2>2
<1>4. ASSUME op'[u][o].pc = "done", op'[u][o].plan # {}, NEW j \in op'[u][o].plan \union {"final"}
      PROVE  job'[u][o][j] # "none"
  <2>1. CASE op[u][o].pc = "done"
    <3>1. job[u][o][j] # "none" /\ j \in Kinds \union {"final"}
      BY <1>0, <1>2, <1>4, <2>1 DEF ChainWhole, Unstarted
    <3> QED BY <1>0, <2>1, <3>1, JobsStay DEF Unstarted
  <2>2. CASE IsClosed(u, o)
    <3>1. /\ op[u][o].pc = "enqueue" /\ op[u][o].todo = {}
          /\ job'[u][o] = EnqueuedJob(job[u][o], Deps(u, o), "final")
      BY <2>2 DEF IsClosed
    <3>2. CASE j = "final"
      <4>1. job[u][o] \in [Jobs -> JobStatus] /\ "final" \in Jobs
        BY KindValues DEF TypeOK
      <4> QED BY <3>1, <3>2, <4>1 DEF EnqueuedJob
    <3>3. CASE j \in op[u][o].plan
      <4>1. row[u][j].run = o /\ row[u][j].rq /\ j \in Kinds
        BY <1>0, <3>1, <3>3 DEF RowsFresh, Enqueueing
      <4>2. job[u][o][j] # "none"
        BY <1>0, <4>1 DEF RowsMatch, RowMatches
      <4> QED BY <1>0, <3>1, <4>1, <4>2, JobsStay DEF Unstarted
    <3> QED BY <1>2, <1>4, <3>1, <3>2, <3>3 DEF Unstarted
  <2> QED BY <1>1, <1>4, <2>1, <2>2
<1>5. ASSUME op'[u][o].plan # {}, op'[u][o].plan \subseteq AllocKinds, Netbird
      PROVE  job'[u][o]["netbird"] \notin {"none", "failed"}
  <2>1. CASE IsStarted(u, o)
    <3>1. job[u][o] \in [Jobs -> JobStatus] /\ "netbird" \in Jobs
      BY KindValues DEF TypeOK
    <3> QED BY <1>5, <2>1, <3>1 DEF IsStarted
  <2>2. CASE op[u][o].pc \notin Unstarted
    <3>1. job[u][o]["netbird"] \notin {"none", "failed"}
      BY <1>2, <1>5, <2>2 DEF ChainWhole
    <3>2. StageFacts(u, o)
      BY <1>0, StageSteps
    <3> QED BY <1>0, <3>1, <3>2, NetbirdStays DEF StageFacts
  <2> QED BY <1>1, <1>5, <2>1, <2>2
<1> QED BY <1>3, <1>4, <1>5 DEF ChainWhole

\* A row of a chain that has been started has been there before; it is unfinished only if
\* it was, or if a worker has begun with it.
LEMMA RowBefore ==
  ASSUME TypeOK, NEW u \in Units, NEW o \in Ops, UnitStep(u), op[u][o].pc \notin Unstarted, NEW k \in Kinds,
         row'[u][k].run = o
  PROVE  /\ row[u][k].run = o
         /\ row'[u][k].st \in {"new", "running"} => row[u][k].st \in {"new", "running"} \/ work[u][o][k] = "picked"
<1>1. CASE row'[u][k] = row[u][k]
  BY <1>1
<1>2. o # 0
  BY ConstantsAssumption DEF Ops
<1>3. ASSUME NEW p \in Ops, RowsMade(u, p)
      PROVE  row'[u][k] = row[u][k]
  <2>1. p # o
    BY <1>3 DEF RowsMade, Unstarted
  <2> QED BY <1>3, <2>1 DEF RowsMade, NewRow
<1>4. CASE RowsGone(u)
  BY <1>2, <1>4 DEF RowsGone, NoRow
<1>5. ASSUME NEW p \in Ops, RowTied(u, p)
      PROVE  row[u][k].run = o /\ row'[u][k].st = row[u][k].st
  BY <1>5 DEF RowTied
<1>6. ASSUME NEW p \in Ops, NEW j \in Kinds, RowSaved(u, p, j)
      PROVE  /\ row[u][k].run = o
             /\ row'[u][k].st \in {"new", "running"} => row[u][k].st \in {"new", "running"} \/ work[u][o][k] = "picked"
  <2>1. CASE k # j
    BY <1>6, <2>1 DEF RowSaved, Saved
  <2>2. CASE k = j
    BY <1>6, <2>2 DEF RowSaved, Saved
  <2> QED BY <2>1, <2>2
<1>7. ASSUME NEW p \in Ops, NEW j \in Kinds, NEW c \in Cancellers, RowCancelled(u, c, j, p)
      PROVE  row[u][k].run = o /\ (row'[u][k].st = row[u][k].st \/ row'[u][k].st = "failed")
  BY <1>7 DEF RowCancelled, Saved
<1>8. CASE RowsKept(u)
  BY <1>8 DEF RowsKept
<1> QED BY <1>1, <1>3, <1>4, <1>5, <1>6, <1>7, <1>8
     DEF UnitStep, RowsRead, FailureRead, CancelMissed

\* The work of a chain changes by its workers only.
LEMMA WorkChanges ==
  ASSUME NEW u \in Units, NEW o \in Ops, ChainStep(u, o)
  PROVE  work'[u][o] = work[u][o] \/ Works(u, o)
BY DEF ChainStep, SameChain, SameJobs, IsAsked, MovesOn, IsStarted, IsEnqueued, IsTied, IsClosed, LosesJob

\* The stages of a chain that is over have their jobs, and these are tied to them.
LEMMA AllTied ==
  ASSUME TypeOK, NEW u \in Units, NEW o \in Ops, ChainWhole(u, o), RowsMatch(u, o), ChainBegun(u, o),
         op[u][o].pc \notin Unstarted \union Enqueueing, NEW k \in op[u][o].plan
  PROVE  /\ op[u][o].pc = "done" /\ job[u][o][k] # "none"
         /\ row[u][k].run = o => row[u][k].rq
<1>1. op[u][o].pc \in OpPc /\ k \in Kinds
  BY DEF TypeOK, Op
<1>2. op[u][o].pc = "done"
  BY <1>1 DEF ChainWhole, OpPc, Unstarted, Enqueueing
<1>3. job[u][o][k] # "none" /\ job[u][o]["final"] # "none"
  BY <1>2 DEF ChainWhole
<1> QED BY <1>1, <1>2, <1>3 DEF RowsMatch, RowMatches, After

\* A stage under way was under way before.
LEMMA UnderWayBefore ==
  ASSUME TypeOK, "slow" \notin Faults, NEW u \in Units, NEW o \in Ops, OrderBefore(u, o), ChainWhole(u, o),
         op[u][o].pc \notin Unstarted, NEW k \in op[u][o].plan, UnderWay(u, o, k)'
  PROVE  UnderWay(u, o, k)
<1> USE DEF OrderBefore, ChainInOrder, RowsInOrder
<1>0. /\ k \in Kinds /\ ChainStep(u, o) /\ UnitStep(u) /\ RowsMatch(u, o) /\ ChainBegun(u, o) /\ JobsInOrder(u, o)
  BY DEF TypeOK, Op
<1>1. /\ row[u][k].run = o
      /\ row'[u][k].st \in {"new", "running"} => row[u][k].st \in {"new", "running"} \/ work[u][o][k] = "picked"
  BY <1>0, RowBefore DEF UnderWay
<1>2. ASSUME work'[u][o][k] \in {"picked", "busy"}, work[u][o][k] \notin {"picked", "busy"}
      PROVE  row[u][k].st = "new"
  <2>1. job[u][o][k] = "queued"
    BY <1>0, <1>2, JobsStay
  <2>2. Works(u, o)
    BY <1>0, <1>2, WorkChanges
  <2>3. op[u][o].pc \notin Enqueueing \union Unstarted
    BY <1>0, <2>2, NobodyWorks
  <2>4. row[u][k].rq
    BY <1>0, <1>1, <2>3, AllTied
  <2> QED BY <1>0, <1>1, <2>1, <2>4 DEF RowsMatch, RowMatches
<1> QED BY <1>1, <1>2 DEF UnderWay

\* The stages of a chain stay as long as one of them is under way: a restart replaces the
\* stages that have failed, and those of a worker that is still at work among them.
LEMMA StepRowsShared ==
  ASSUME TypeOK, TypeOK', "slow" \notin Faults, NEW u \in Units, NEW o \in Ops, OrderBefore(u, o),
         ChainWhole(u, o), RowsShared(u, o)
  PROVE  RowsShared(u, o)'
<1> USE DEF OrderBefore, ChainInOrder, RowsInOrder
<1> SUFFICES ASSUME NEW k \in op'[u][o].plan, NEW d \in op'[u][o].plan, UnderWay(u, o, k)'
             PROVE  row'[u][d].run = o
  BY DEF RowsShared
<1>0. /\ k \in Kinds /\ d \in Kinds /\ ChainStep(u, o) /\ UnitStep(u) /\ ChainBegun(u, o) /\ RowsMatch(u, o)
      /\ o # 0
  BY ConstantsAssumption DEF TypeOK, Op, Ops
<1>1. CASE op[u][o].pc \in Unstarted
  <2>1. op[u][o].plan = {} /\ IsStarted(u, o)
    BY <1>0, <1>1, ChainGoes DEF ChainBegun
  <2>2. row'[u][d] = NewRow(o)
    BY <2>1 DEF IsStarted
  <2> QED BY <2>2 DEF NewRow
<1>2. CASE op[u][o].pc \notin Unstarted
  <2>1. op'[u][o].plan = op[u][o].plan
    BY <1>0, <1>2, StartedStays
  <2>2. k \in op[u][o].plan /\ d \in op[u][o].plan
    BY <2>1
  <2>3. UnderWay(u, o, k)
    BY <1>2, <2>2, UnderWayBefore
  <2>4. row[u][d].run = o /\ row[u][k].run = o
    BY <2>2, <2>3 DEF RowsShared, UnderWay
  <2>5. row'[u][k].run = o
    BY DEF UnderWay
  <2>6. op[u][o].plan \subseteq AllocKinds \/ op[u][o].plan = CleanupKinds
    BY DEF ChainBegun
  <2>7. CASE row'[u][d].run = row[u][d].run
    BY <2>4, <2>7
  <2>8. CASE RowsGone(u)
    <3>1. PICK S \in {CleanupKinds, Kinds} : \A i \in Kinds :
            row'[u][i] = IF i \in S THEN NoRow ELSE row[u][i]
      BY <2>8 DEF RowsGone
    <3>2. k \notin S
      BY <1>0, <2>5, <3>1 DEF NoRow
    <3>3. d \notin S
      BY <1>0, <2>2, <2>6, <3>2 DEF AllocKinds, CleanupKinds
    <3> QED BY <1>0, <2>4, <3>1, <3>3
  <2>9. ASSUME NEW p \in Ops, RowsMade(u, p)
        PROVE  row'[u][d].run = o
    <3>1. \A i \in Kinds : row'[u][i] = IF i \in op'[u][p].plan THEN NewRow(p) ELSE row[u][i]
      BY <2>9 DEF RowsMade
    <3>2. p # o
      BY <1>2, <2>9 DEF RowsMade, Unstarted
    <3>3. k \notin op'[u][p].plan
      BY <1>0, <2>5, <3>1, <3>2 DEF NewRow
    <3>4. d \notin op'[u][p].plan
      <4>1. CASE op'[u][p].plan \in {AllocKinds, CleanupKinds}
        BY <2>2, <2>6, <3>3, <4>1 DEF AllocKinds, CleanupKinds
      <4>2. CASE op'[u][p].plan = FailedStages(u) /\ IsFinished(u, AllocKinds)
        <5>1. CASE op[u][o].plan = CleanupKinds
          BY <2>2, <4>2, <5>1 DEF FailedStages, CleanupKinds
        <5>2. CASE op[u][o].plan \subseteq AllocKinds
          <6>1. row[u][k].st \notin {"new", "running"}
            BY <1>0, <2>2, <2>4, <4>2, <5>2 DEF IsFinished, Unfinished, Rows
          <6>2. row[u][k].st # "done"
            BY <1>0, <2>3, <2>4, <6>1 DEF UnderWay, RowsMatch, RowMatches
          <6>3. row[u][k].st \in RowState
            BY <1>0 DEF TypeOK, Row
          <6>4. row[u][k].st = "failed"
            BY <6>1, <6>2, <6>3 DEF RowState
          <6>5. k \in FailedStages(u)
            BY <2>2, <5>2, <6>4 DEF FailedStages, AllocKinds
          <6> QED BY <3>3, <4>2, <6>5
        <5> QED BY <2>6, <5>1, <5>2
      <4> QED BY <2>9, <4>1, <4>2 DEF RowsMade
    <3> QED BY <1>0, <2>4, <3>1, <3>4
  <2>10. ASSUME NEW p \in Ops, RowTied(u, p)
         PROVE  row'[u][d].run = row[u][d].run
    BY <1>0, <2>10 DEF RowTied
  <2>11. ASSUME NEW p \in Ops, NEW i \in Kinds, RowSaved(u, p, i)
         PROVE  row'[u][d].run = row[u][d].run
    BY <1>0, <2>11 DEF RowSaved, Saved
  <2>12. ASSUME NEW p \in Ops, NEW i \in Kinds, NEW c \in Cancellers, RowCancelled(u, c, i, p)
         PROVE  row'[u][d].run = row[u][d].run
    BY <1>0, <2>12 DEF RowCancelled, Saved
  <2>13. CASE RowsKept(u)
    BY <1>0, <2>4, <2>13 DEF RowsKept
  <2> QED BY <1>0, <2>7, <2>8, <2>9, <2>10, <2>11, <2>12, <2>13
       DEF UnitStep, RowsRead, FailureRead, CancelMissed
<1> QED BY <1>1, <1>2

\* What is given of a unit before a step.
SettlesBefore(u) ==
  /\ Cancelling /\ UnitStep(u)
  /\ OneAtATime(u) /\ RowsComplete(u) /\ LeftAlike(u)
  /\ \A o \in Ops : /\ OrderBefore(u, o) /\ StageFacts(u, o)
                    /\ ChainWhole(u, o) /\ RowsShared(u, o) /\ Attended(u, o) /\ Awaited(u, o)
                    /\ HandledOnce(u, o)

\* The unfinished stages of a request are all of the same operation.
LEMMA SnapshotAlike ==
  ASSUME TypeOK, NEW u \in Units, NEW S \in {AllocKinds, CleanupKinds},
         \A o \in Ops : ChainBegun(u, o) /\ RowsMatch(u, o) /\ RowsShared(u, o)
  PROVE  \A s, t \in Snapshot(u, S) : s[2] = t[2]
<1> DEFINE x == IF S = AllocKinds THEN "user" ELSE "cuser"
<1>1. ASSUME NEW s \in Snapshot(u, S)
      PROVE  s[2] = row[u][x].run
  <2>1. PICK k \in Unfinished(u, S) : s = <<k, row[u][k].run>>
    BY <1>1 DEF Snapshot
  <2>2. k \in S /\ k \in Kinds /\ row[u][k].run # 0 /\ row[u][k].st \in {"new", "running"}
    BY KindValues DEF Unfinished, Rows
  <2> DEFINE o == row[u][k].run
  <2>3. o \in Ops
    BY <2>2 DEF TypeOK, Row
  <2>4. k \in op[u][o].plan
    BY <2>2, <2>3 DEF RowsMatch, RowMatches
  <2>5. x \in op[u][o].plan
    BY <2>2, <2>3, <2>4 DEF ChainBegun, AllocKinds, CleanupKinds
  <2>6. UnderWay(u, o, k)
    BY <2>2 DEF UnderWay
  <2>7. row[u][x].run = o
    BY <2>3, <2>4, <2>5, <2>6 DEF RowsShared
  <2> QED BY <2>1, <2>7
<1> QED BY <1>1

\* A cancellation keeps to the stages of one chain.
LEMMA StepLeftAlike ==
  ASSUME TypeOK, NEW u \in Units, SettlesBefore(u)
  PROVE  LeftAlike(u)'
<1> SUFFICES ASSUME NEW c \in Cancellers
             PROVE  \A s, t \in left'[u][c] : s[2] = t[2]
  BY DEF LeftAlike
<1>0. \A S \in {AllocKinds, CleanupKinds} : \A s, t \in Snapshot(u, S) : s[2] = t[2]
  <2>1. \A o \in Ops : ChainBegun(u, o) /\ RowsMatch(u, o) /\ RowsShared(u, o)
    BY DEF SettlesBefore, OrderBefore, ChainInOrder, RowsInOrder
  <2> QED BY <2>1, SnapshotAlike
<1>1. \A s, t \in left[u][c] : s[2] = t[2]
  BY DEF SettlesBefore, LeftAlike
<1>2. CASE left'[u][c] \subseteq left[u][c]
  BY <1>1, <1>2
<1>3. CASE \E S \in {AllocKinds, CleanupKinds} : left'[u][c] = Snapshot(u, S)
  BY <1>0, <1>3
<1>4. UnitStep(u)
  BY DEF SettlesBefore
<1>5. ASSUME NEW p \in Ops, NEW S \in {AllocKinds, CleanupKinds}, RowsRead(u, p, S)
      PROVE  left'[u][c] = left[u][c] \/ left'[u][c] = Snapshot(u, S)
  BY <1>5 DEF RowsRead, LeftBecomes
<1>6. ASSUME NEW p \in Ops, NEW i \in Kinds, FailureRead(u, p, i)
      PROVE  \/ left'[u][c] \subseteq left[u][c]
             \/ \E S \in {AllocKinds, CleanupKinds} : left'[u][c] = Snapshot(u, S)
  BY <1>6 DEF FailureRead, LeftBecomes, RequestKinds
<1>7. ASSUME NEW p \in Ops, NEW i \in Kinds, NEW d \in Cancellers,
             RowCancelled(u, d, i, p) \/ CancelMissed(u, d, i, p)
      PROVE  left'[u][c] \subseteq left[u][c]
  BY <1>7 DEF RowCancelled, CancelMissed, LeftBecomes
<1> QED BY <1>2, <1>3, <1>4, <1>5, <1>6, <1>7
     DEF UnitStep, RowsGone, RowsMade, RowTied, RowSaved, LeftKept

\* What becomes of a job that nobody has taken, when its chain is over.
LEMMA JobFate ==
  ASSUME TypeOK, NEW u \in Units, NEW o \in Ops, ChainStep(u, o), op[u][o].pc \in Over, JobsInOrder(u, o),
         NEW k \in Kinds
  PROVE  /\ job[u][o][k] = "queued" =>
              \/ job'[u][o][k] = "queued"
              \/ job'[u][o][k] = "started" /\ work'[u][o][k] = "picked"
              \/ job'[u][o][k] = "deleted"
         /\ job[u][o][k] = "deferred" => job'[u][o][k] \in {"queued", "deferred", "deleted"}
<1>0. /\ job[u][o] \in [Jobs -> JobStatus] /\ work[u][o] \in [Jobs -> WorkState] /\ k \in Jobs /\ k # "final"
  <2>1. job[u][o] \in [Jobs -> JobStatus] /\ work[u][o] \in [Jobs -> WorkState]
    BY DEF TypeOK
  <2> QED BY <2>1 DEF Jobs, Kinds, AllocKinds, CleanupKinds
<1>1. CASE SameJobs(u, o)
  BY <1>1 DEF SameJobs
<1>2. CASE Works(u, o)
  <2>1. PICK j \in Jobs : \/ Takes(u, o, j) \/ EndsWell(u, o, j) \/ EndsBadly(u, o, j)
                          \/ CountsOut(u, o, j) \/ Proceeds(u, o, j)
    BY <1>2 DEF Works
  <2>2. job[u][o][k] \in {"queued", "deferred"} => work[u][o][k] = "idle"
    BY <1>0 DEF JobsInOrder
  <2>3. CASE EndsWell(u, o, j)
    BY <1>0, <2>2, <2>3 DEF EndsWell, FinishedJob, AtWork
  <2>4. CASE Takes(u, o, j)
    BY <1>0, <2>4 DEF Takes, Marks, Sets
  <2>5. CASE EndsBadly(u, o, j)
    BY <1>0, <2>2, <2>5 DEF EndsBadly, Marks, AtWork
  <2>6. CASE CountsOut(u, o, j) \/ Proceeds(u, o, j)
    BY <1>0, <2>6 DEF CountsOut, Proceeds, Marks
  <2> QED BY <2>1, <2>3, <2>4, <2>5, <2>6
<1>3. CASE LosesJob(u, o)
  BY <1>0, <1>3 DEF LosesJob, DeletedJob
<1> QED BY <1>1, <1>2, <1>3 DEF ChainStep, SameChain, IsAsked, MovesOn, IsStarted, IsEnqueued, IsTied,
     IsClosed, Chains, Over

\* A job that waits is deleted only when its stage is cancelled, since those who cancel a
\* stage cancel the later ones first.
LEMMA NotDeleted ==
  ASSUME TypeOK, NEW u \in Units, SettlesBefore(u), NEW o \in Ops, op[u][o].pc = "done",
         NEW k \in Kinds, row[u][k].run = o, row'[u][k].st \in {"new", "running"},
         job[u][o][k] \in {"queued", "deferred"}
  PROVE  job'[u][o][k] # "deleted"
<1> SUFFICES ASSUME job'[u][o][k] = "deleted"
             PROVE  FALSE
  OBVIOUS
<1> USE DEF SettlesBefore, OrderBefore, ChainInOrder, RowsInOrder
<1>1. PICK d \in Kinds, c \in Cancellers : RowCancelled(u, c, d, o) /\ row[u][d].rq
  BY DEF StageFacts
<1>2. job[u][o] \in [Jobs -> JobStatus] /\ k \in Jobs /\ d # "netbird" /\ k # "final" /\ d # "final"
  <2>1. job[u][o] \in [Jobs -> JobStatus]
    BY DEF TypeOK
  <2> QED BY <2>1 DEF Jobs, Kinds, AllocKinds, CleanupKinds
<1>3. k = d \/ (job[u][o][k] = "deferred" /\ d \in Deps(u, o)[k])
  <2>1. job'[u][o] = DeletedJob(job[u][o], Deps(u, o), d)
    BY <1>1 DEF RowCancelled
  <2> QED BY <1>2, <2>1 DEF DeletedJob
<1>4. k # d
  BY <1>1 DEF RowCancelled, Saved
<1>5. Rank[d] < Rank[k]
  BY <1>2, <1>3, <1>4, DepsBefore DEF After
<1>6. RowMatches(u, o, k)
  BY DEF RowsMatch
<1>7. k \in op[u][o].plan
  BY <1>6 DEF RowMatches
<1>8. row[u][k].rq
  BY <1>7, AllTied DEF Unstarted, Enqueueing
<1>9. row[u][k].st = "new"
  BY <1>3, <1>4, <1>6, <1>8 DEF RowMatches
<1>10. <<k, o>> \in left[u][c]
  <2>1. <<d, o>> \in left[u][c]
    BY <1>1 DEF RowCancelled
  <2> QED BY <1>5, <1>9, <2>1 DEF LeftInOrder
<1>11. Rank[k] <= Rank[d]
  <2>1. \A t \in left[u][c] : Rank[t[1]] <= Rank[d]
    BY <1>1 DEF RowCancelled
  <2> QED BY <1>10, <2>1
<1>12. Rank[k] \in Int /\ Rank[d] \in Int
  BY DEF Rank, Kinds, AllocKinds, CleanupKinds
<1> QED BY <1>5, <1>11, <1>12

\* A cancellation reaches the stages it has read, unless they are finished by then: it
\* gives up only when the stages of its chain have been replaced.
LEMMA CancellationGoesOn ==
  ASSUME TypeOK, NEW u \in Units, SettlesBefore(u), NEW o \in Ops, NEW k \in Kinds,
         row[u][k].run = o, row[u][k].st \in {"new", "running"}, row'[u][k].st \in {"new", "running"},
         BeingCancelled(u, o, k)
  PROVE  BeingCancelled(u, o, k)'
<1> USE DEF SettlesBefore, OrderBefore, ChainInOrder, RowsInOrder
<1>1. PICK c \in Cancellers : <<k, o>> \in left[u][c]
  BY DEF BeingCancelled
<1>2. SUFFICES <<k, o>> \in left'[u][c]
  BY DEF BeingCancelled
<1>3. CASE left'[u][c] = left[u][c]
  BY <1>1, <1>3
<1>4. ASSUME NEW p \in Ops, NEW S \in {AllocKinds, CleanupKinds}, RowsRead(u, p, S)
      PROVE  left'[u][c] = left[u][c]
  <2>1. op[u][p].pc = "idle" /\ LeftBecomes(u, <<p, "web">>, Snapshot(u, S))
    BY <1>4 DEF RowsRead
  <2>2. c # <<p, "web">>
    <3>1. left[u][<<p, "web">>] = {}
      BY <2>1 DEF Cancelling
    <3> QED BY <1>1, <3>1
  <2> QED BY <2>1, <2>2 DEF LeftBecomes
<1>5. ASSUME NEW p \in Ops, NEW i \in Kinds, FailureRead(u, p, i)
      PROVE  left'[u][c] = left[u][c]
  <2>1. work[u][p][i] = "exc" /\ \E T : LeftBecomes(u, <<p, i>>, T)
    BY <1>5 DEF FailureRead
  <2>2. c # <<p, i>>
    <3>1. left[u][<<p, i>>] = {}
      BY <2>1 DEF HandledOnce
    <3> QED BY <1>1, <3>1
  <2> QED BY <2>1, <2>2 DEF LeftBecomes
<1>6. ASSUME NEW p \in Ops, NEW i \in Kinds, NEW d \in Cancellers, RowCancelled(u, d, i, p)
      PROVE  <<k, o>> \in left'[u][c]
  <2>1. Saved(u, i, "failed") /\ LeftBecomes(u, d, left[u][d] \ {<<i, p>>})
    BY <1>6 DEF RowCancelled
  <2>2. i # k
    BY <2>1 DEF Saved
  <2> QED BY <1>1, <2>1, <2>2 DEF LeftBecomes
<1>7. ASSUME NEW p \in Ops, NEW i \in Kinds, NEW d \in Cancellers, CancelMissed(u, d, i, p)
      PROVE  <<k, o>> \in left'[u][c]
  <2>1. /\ <<i, p>> \in left[u][d] /\ row[u][i].run # p
        /\ LeftBecomes(u, d, {})
    BY <1>7 DEF CancelMissed
  <2>2. CASE c = d
    <3>1. <<k, o>>[2] = <<i, p>>[2]
      BY <1>1, <2>1, <2>2 DEF LeftAlike
    <3>2. p = o
      BY <3>1
    <3>3. i \in op[u][o].plan
      BY <2>1, <3>2 DEF LeftInOrder
    <3>4. k \in op[u][o].plan
      BY DEF RowsMatch, RowMatches
    <3>5. row[u][i].run = o
      BY <3>3, <3>4 DEF RowsShared, UnderWay
    <3> QED BY <2>1, <3>2, <3>5
  <2>3. CASE c # d
    BY <1>1, <2>1, <2>3 DEF LeftBecomes
  <2> QED BY <2>2, <2>3
<1>8. UnitStep(u)
  OBVIOUS
<1> QED BY <1>3, <1>4, <1>5, <1>6, <1>7, <1>8
     DEF UnitStep, RowsGone, RowsMade, RowTied, RowSaved, LeftKept

\* Unfinished stages are attended to.
LEMMA StepAttended ==
  ASSUME TypeOK, TypeOK', "slow" \notin Faults, NEW u \in Units, SettlesBefore(u), NEW o \in Ops,
         ChainInOrder(u, o)', RowsInOrder(u, o)', ChainWhole(u, o)'
  PROVE  Attended(u, o)'
<1> USE DEF SettlesBefore
<1> SUFFICES ASSUME op'[u][o].pc = "done", NEW k \in Kinds, row'[u][k].run = o,
                    row'[u][k].st \in {"new", "running"}
             PROVE  \/ job'[u][o][k] \in {"queued", "deferred"}
                    \/ work'[u][o][k] \in {"picked", "busy"}
                    \/ BeingCancelled(u, o, k)'
  BY DEF Attended
<1>0. /\ ChainStep(u, o) /\ UnitStep(u) /\ ChainBegun(u, o) /\ JobsInOrder(u, o) /\ RowsMatch(u, o)
      /\ StageFacts(u, o) /\ ChainWhole(u, o)
  BY DEF OrderBefore, ChainInOrder, RowsInOrder
<1>1. k \in op'[u][o].plan
  BY DEF RowsInOrder, RowsMatch, RowMatches
<1>2. CASE op[u][o].pc # "done"
  <2>1. IsClosed(u, o)
    BY <1>0, <1>1, <1>2, ChainGoes
  <2>2. job[u][o][k] \in {"none", "queued", "deferred"}
    BY <1>0, <2>1, KindValues DEF IsClosed, ChainBegun, Enqueueing
  <2>3. job'[u][o][k] = job[u][o][k]
    <3>1. job[u][o] \in [Jobs -> JobStatus] /\ k \in Jobs /\ k # "final"
      <4>1. job[u][o] \in [Jobs -> JobStatus]
        BY DEF TypeOK
      <4> QED BY <4>1 DEF Jobs, Kinds, AllocKinds, CleanupKinds
    <3> QED BY <2>1, <3>1 DEF IsClosed, EnqueuedJob
  <2>4. job'[u][o][k] # "none"
    BY <1>1 DEF ChainWhole
  <2> QED BY <2>2, <2>3, <2>4
<1>3. CASE op[u][o].pc = "done"
  <2>1. /\ row[u][k].run = o
        /\ row[u][k].st \in {"new", "running"} \/ work[u][o][k] = "picked"
    BY <1>0, <1>3, RowBefore DEF Unstarted
  <2>2. CASE work[u][o][k] \in {"picked", "busy"}
    BY <1>0, <2>1, <2>2 DEF StageFacts
  <2>3. CASE job[u][o][k] \in {"queued", "deferred"}
    <3>1. job'[u][o][k] # "deleted"
      BY <1>3, <2>1, <2>3, NotDeleted
    <3> QED BY <1>0, <1>3, <2>3, <3>1, JobFate DEF Over
  <2>4. CASE row[u][k].st \in {"new", "running"} /\ BeingCancelled(u, o, k)
    BY <2>1, <2>4, CancellationGoesOn
  <2> QED BY <1>3, <2>1, <2>2, <2>3, <2>4 DEF Attended
<1> QED BY <1>2, <1>3

\* A worker that has handed its failure over is done.
LEMMA EndedStays ==
  ASSUME TypeOK, NEW u \in Units, NEW o \in Ops, ChainStep(u, o), JobsInOrder(u, o),
         NEW k \in Kinds, work[u][o][k] = "ended"
  PROVE  work'[u][o][k] = "ended"
<1>0. /\ work[u][o] \in [Jobs -> WorkState] /\ k \in Jobs /\ k # "final"
      /\ job[u][o][k] \notin {"none", "deferred", "queued"}
  <2>1. work[u][o] \in [Jobs -> WorkState]
    BY DEF TypeOK
  <2>2. k \in Jobs /\ k # "final"
    BY DEF Jobs, Kinds, AllocKinds, CleanupKinds
  <2> QED BY <2>1, <2>2 DEF JobsInOrder
<1>1. CASE Works(u, o)
  <2>1. PICK j \in Jobs : \/ Takes(u, o, j) \/ EndsWell(u, o, j) \/ EndsBadly(u, o, j)
                          \/ CountsOut(u, o, j) \/ Proceeds(u, o, j)
    BY <1>1 DEF Works
  <2>2. j # k
    BY <1>0, <2>1 DEF Takes, EndsWell, EndsBadly, CountsOut, Proceeds, AtWork
  <2>3. \E w : Sets(u, o, j, w)
    BY <2>1 DEF Takes, EndsWell, EndsBadly, CountsOut, Proceeds
  <2> QED BY <1>0, <2>2, <2>3 DEF Sets
<1> QED BY <1>1, WorkChanges

\* A failure is handed over to its handler once.
LEMMA StepHandledOnce ==
  ASSUME TypeOK, NEW u \in Units, SettlesBefore(u), NEW o \in Ops
  PROVE  HandledOnce(u, o)'
<1> USE DEF SettlesBefore, OrderBefore, ChainInOrder
<1> SUFFICES ASSUME NEW k \in Kinds, left'[u][<<o, k>>] # {}
             PROVE  work'[u][o][k] = "ended"
  BY DEF HandledOnce
<1>0. "web" \notin Kinds /\ <<o, k>> \in Cancellers
  BY CancellerValues DEF Kinds, AllocKinds, CleanupKinds
<1>1. CASE left[u][<<o, k>>] # {}
  BY <1>1, EndedStays DEF HandledOnce
<1>2. ASSUME NEW p \in Ops, NEW S, RowsRead(u, p, S)
      PROVE  left'[u][<<o, k>>] = left[u][<<o, k>>]
  BY <1>0, <1>2 DEF RowsRead, LeftBecomes
<1>3. ASSUME NEW p \in Ops, NEW i \in Kinds, FailureRead(u, p, i)
      PROVE  left'[u][<<o, k>>] = left[u][<<o, k>>] \/ work'[u][o][k] = "ended"
  BY <1>0, <1>3 DEF FailureRead, LeftBecomes
<1>4. ASSUME NEW p \in Ops, NEW i \in Kinds, NEW d \in Cancellers,
             RowCancelled(u, d, i, p) \/ CancelMissed(u, d, i, p)
      PROVE  left'[u][<<o, k>>] \subseteq left[u][<<o, k>>]
  BY <1>0, <1>4 DEF RowCancelled, CancelMissed, LeftBecomes
<1>5. UnitStep(u)
  OBVIOUS
<1> QED BY <1>0, <1>1, <1>2, <1>3, <1>4, <1>5
     DEF UnitStep, RowsGone, RowsMade, RowTied, RowSaved, LeftKept

\* The stage of a job that waits for another one is new.
LEMMA DeferredIsNew ==
  ASSUME TypeOK, NEW u \in Units, NEW o \in Ops, ChainWhole(u, o), ChainBegun(u, o), RowsMatch(u, o),
         RowsFresh(u, o), NEW k \in op[u][o].plan, row[u][k].run = o, job[u][o][k] = "deferred"
  PROVE  row[u][k].st = "new" /\ op[u][o].pc \notin Unstarted
<1>1. k \in Kinds
  BY DEF TypeOK, Op
<1>2. op[u][o].pc \notin Unstarted
  BY <1>1 DEF RowsMatch, RowMatches
<1>3. CASE op[u][o].pc \in Enqueueing
  BY <1>2, <1>3 DEF RowsFresh
<1>4. CASE op[u][o].pc \notin Enqueueing
  <2>1. row[u][k].rq
    BY <1>2, <1>4, AllTied
  <2> QED BY <1>1, <1>2, <2>1 DEF RowsMatch, RowMatches
<1> QED BY <1>3, <1>4

\* A job that still waits after a step waits for a job that has not finished.
LEMMA StillWaits ==
  ASSUME TypeOK, NEW u \in Units, NEW o \in Ops, ChainStep(u, o), NEW k \in Kinds,
         job[u][o][k] = "deferred", job'[u][o][k] = "deferred", NEW d \in Deps(u, o)[k],
         job[u][o][d] # "finished",
         \A i \in Deps(u, o)[k] : job'[u][o][i] = "finished"
  PROVE  FALSE
<1>0. job[u][o] \in [Jobs -> JobStatus] /\ k \in Jobs /\ Deps(u, o)[k] \subseteq Jobs
  <2>1. job[u][o] \in [Jobs -> JobStatus] /\ op[u][o].plan \subseteq Kinds
    BY DEF TypeOK, Op
  <2>2. k \in Jobs
    BY KindValues
  <2> QED BY <2>1, <2>2, DepsBefore, KindValues
<1>1. CASE SameJobs(u, o)
  BY <1>1 DEF SameJobs
<1>2. CASE IsStarted(u, o)
  BY <1>0, <1>2 DEF IsStarted
<1>3. ASSUME NEW j, job'[u][o] = EnqueuedJob(job[u][o], Deps(u, o), j)
      PROVE  FALSE
  BY <1>0, <1>3 DEF EnqueuedJob
<1>4. CASE Works(u, o)
  <2>1. PICK j \in Jobs : \/ Takes(u, o, j) \/ EndsWell(u, o, j) \/ EndsBadly(u, o, j)
                          \/ CountsOut(u, o, j) \/ Proceeds(u, o, j)
    BY <1>4 DEF Works
  <2>2. CASE EndsWell(u, o, j)
    <3>1. job'[u][o] = FinishedJob(job[u][o], Deps(u, o), j)
      BY <2>2 DEF EndsWell
    <3>2. \A i \in Deps(u, o)[k] \ {j} : job[u][o][i] = "finished"
      BY <1>0, <3>1 DEF FinishedJob
    <3>3. j \in Deps(u, o)[k]
      BY <3>2
    <3>4. k # j
      BY <1>0, <3>1 DEF FinishedJob
    <3>5. job'[u][o][k] = "queued"
      BY <1>0, <3>1, <3>2, <3>3, <3>4 DEF FinishedJob, Released
    <3> QED BY <3>5
  <2>3. CASE ~EndsWell(u, o, j)
    BY <1>0, <2>1, <2>3 DEF Takes, EndsBadly, CountsOut, Proceeds, Marks
  <2> QED BY <2>2, <2>3
<1>5. CASE LosesJob(u, o)
  BY <1>0, <1>5 DEF LosesJob, DeletedJob
<1> QED BY <1>1, <1>2, <1>3, <1>4, <1>5 DEF ChainStep, SameChain, IsAsked, MovesOn, IsEnqueued, IsTied, IsClosed

\* A job that is enqueued to wait finds the jobs it depends on enqueued before it.
LEMMA EnqueuedToWait ==
  ASSUME TypeOK, "slow" \notin Faults, NEW u \in Units, NEW o \in Ops, OrderBefore(u, o), ChainWhole(u, o),
         NEW k \in op[u][o].plan, op[u][o].pc \notin Unstarted,
         job[u][o][k] # "deferred", job'[u][o][k] = "deferred"
  PROVE  /\ \E d \in Deps(u, o)[k] : job'[u][o][d] # "finished"
         /\ \A d \in Deps(u, o)[k] : job'[u][o][d] \in {"queued", "deferred"}
<1> USE DEF OrderBefore, ChainInOrder, RowsInOrder
<1>0. /\ job[u][o] \in [Jobs -> JobStatus] /\ k \in Kinds /\ k \in Jobs /\ k # "netbird" /\ k # "final"
      /\ op[u][o].plan \subseteq Kinds /\ op[u][o].todo \subseteq Kinds /\ Kinds \subseteq Jobs
      /\ "netbird" \in Jobs /\ "netbird" \notin Kinds
  <2>1. job[u][o] \in [Jobs -> JobStatus] /\ op[u][o].plan \subseteq Kinds /\ op[u][o].todo \subseteq Kinds
    BY DEF TypeOK, Op
  <2> QED BY <2>1 DEF Jobs, Kinds, AllocKinds, CleanupKinds
<1>1. EnqueuedNext(u, o, k)
  BY <1>0, JobsStay
<1>2. op[u][o].pc = "enqueue" /\ k \in First(op[u][o].todo)
  BY <1>0, <1>1 DEF EnqueuedNext
<1>3. ~Works(u, o) /\ ~LosesJob(u, o)
  BY <1>2, NobodyWorks DEF Enqueueing
<1>4. IsEnqueued(u, o)
  BY <1>2, <1>3 DEF ChainStep, SameChain, SameJobs, IsAsked, MovesOn, IsStarted, Chains, IsTied, IsClosed, First
<1>5. job'[u][o] = EnqueuedJob(job[u][o], Deps(u, o), k)
  <2>1. PICK i \in First(op[u][o].todo) : job'[u][o] = EnqueuedJob(job[u][o], Deps(u, o), i)
    BY <1>4 DEF IsEnqueued
  <2>2. i = k
    BY <1>0, <2>1 DEF EnqueuedJob
  <2> QED BY <2>1, <2>2
<1>6. ASSUME NEW d \in Deps(u, o)[k]
      PROVE  d \in Jobs /\ d # k /\ job[u][o][d] \in {"queued", "deferred"}
  <2>1. (d \in op[u][o].plan /\ After(k, d)) \/ (d = "netbird" /\ k = "user")
    BY <1>0, DepsBefore
  <2>2. job[u][o][d] \in {"none", "queued", "deferred"}
    BY <1>0, <1>2, <2>1 DEF ChainBegun, Enqueueing
  <2>3. CASE d \in op[u][o].plan /\ After(k, d)
    <3>1. Rank[d] < Rank[k] /\ Rank[d] \in Int /\ Rank[k] \in Int
      BY <1>0, <2>3 DEF After, Rank, Kinds, AllocKinds, CleanupKinds
    <3>2. d \notin op[u][o].todo
      BY <1>2, <3>1 DEF First
    <3>3. row[u][d].run = o /\ row[u][d].rq
      BY <1>2, <2>3, <3>2 DEF RowsFresh, Enqueueing
    <3>4. job[u][o][d] # "none"
      BY <1>0, <2>3, <3>3 DEF RowsMatch, RowMatches
    <3> QED BY <1>0, <2>2, <2>3, <3>1, <3>4
  <2>4. CASE d = "netbird" /\ k = "user"
    <3>1. Netbird
      <4>1. Deps(u, o)["user"] = Last({i \in op[u][o].plan : Rank[i] < Rank["user"]})
                                   \union (IF Netbird THEN {"netbird"} ELSE {})
        BY <1>0, <2>4 DEF Deps
      <4>2. "netbird" \notin Last({i \in op[u][o].plan : Rank[i] < Rank["user"]})
        BY <1>0 DEF Last
      <4> QED BY <2>4, <4>1, <4>2
    <3>2. op[u][o].plan \subseteq AllocKinds
      BY <2>4 DEF ChainBegun, AllocKinds, CleanupKinds
    <3>3. job[u][o]["netbird"] # "none"
      BY <3>1, <3>2 DEF ChainWhole
    <3> QED BY <1>0, <2>2, <2>4, <3>3
  <2> QED BY <2>1, <2>3, <2>4
<1>7. \A d \in Deps(u, o)[k] : job'[u][o][d] = job[u][o][d]
  BY <1>0, <1>5, <1>6 DEF EnqueuedJob
<1>8. \E d \in Deps(u, o)[k] : job[u][o][d] \notin Released
  BY <1>0, <1>5 DEF EnqueuedJob
<1> QED BY <1>6, <1>7, <1>8 DEF Released

\* The failure of a stage is handled by cancelling the stages that wait for it.
LEMMA FailureCancels ==
  ASSUME TypeOK, NEW u \in Units, SettlesBefore(u), NEW o \in Ops,
         NEW k \in op[u][o].plan, NEW d \in op[u][o].plan, After(k, d),
         row[u][k].run = o, row[u][k].st = "new", job[u][o][k] # "none", FailureRead(u, o, d)
  PROVE  BeingCancelled(u, o, k)'
<1> USE DEF SettlesBefore, OrderBefore, ChainInOrder, RowsInOrder
<1> DEFINE S == RequestKinds(d)
<1>0. /\ k \in Kinds /\ d \in Kinds /\ o # 0
      /\ S \in {AllocKinds, CleanupKinds} /\ d \in S /\ k \in S
  <2>1. k \in Kinds /\ d \in Kinds /\ o # 0
    BY ConstantsAssumption DEF TypeOK, Op, Ops
  <2>2. op[u][o].plan \subseteq AllocKinds \/ op[u][o].plan = CleanupKinds
    BY DEF ChainBegun
  <2> QED BY <2>1, <2>2 DEF RequestKinds, Kinds, AllocKinds, CleanupKinds
<1>1. row[u][d].run = o
  BY DEF RowsShared, UnderWay
<1>2. row[u][d].rq
  BY <1>0, <1>1 DEF RowsMatch, RowMatches
<1>3. HasStages(u, S)
  BY <1>0, <1>1 DEF RowsComplete, HasStages, Rows
<1>4. left'[u][<<o, d>>] = Snapshot(u, S)
  BY <1>1, <1>2, <1>3 DEF FailureRead, LeftBecomes
<1>5. <<k, o>> \in Snapshot(u, S)
  BY <1>0, SnapshotIs
<1>6. <<o, d>> \in Cancellers
  BY <1>0, CancellerValues
<1> QED BY <1>4, <1>5, <1>6 DEF BeingCancelled

\* A job that waits is not forgotten.
LEMMA StepAwaited ==
  ASSUME TypeOK, TypeOK', "slow" \notin Faults, NEW u \in Units, SettlesBefore(u), NEW o \in Ops,
         ChainInOrder(u, o)', RowsInOrder(u, o)', ChainWhole(u, o)'
  PROVE  Awaited(u, o)'
<1> USE DEF SettlesBefore
<1> SUFFICES ASSUME NEW k \in op'[u][o].plan, job'[u][o][k] = "deferred"
             PROVE  /\ \E d \in Deps(u, o)'[k] : job'[u][o][d] # "finished"
                    /\ row'[u][k].run = o => \A d \in Deps(u, o)'[k] :
                         \/ job'[u][o][d] \in {"finished", "queued", "started", "deferred"}
                         \/ work'[u][o][d] = "exc"
                         \/ BeingCancelled(u, o, k)'
  BY DEF Awaited
<1>0. /\ ChainStep(u, o) /\ UnitStep(u) /\ ChainBegun(u, o) /\ JobsInOrder(u, o) /\ RowsMatch(u, o)
      /\ RowsFresh(u, o) /\ StageFacts(u, o) /\ ChainWhole(u, o) /\ OrderBefore(u, o) /\ RowsShared(u, o)
  BY DEF OrderBefore, ChainInOrder, RowsInOrder
<1>1. k \in Kinds /\ k \in Jobs /\ k # "netbird"
  <2>1. k \in Kinds
    BY DEF TypeOK, Op
  <2> QED BY <2>1 DEF Jobs, Kinds, AllocKinds, CleanupKinds
<1>2. op[u][o].pc \notin Unstarted
  <2> SUFFICES ASSUME op[u][o].pc \in Unstarted
               PROVE  FALSE
    OBVIOUS
  <2>1. IsStarted(u, o)
    BY <1>0, ChainGoes
  <2>2. job[u][o][k] = "none"
    BY <1>0, <1>1 DEF ChainBegun
  <2>3. job[u][o] \in [Jobs -> JobStatus]
    BY DEF TypeOK
  <2> QED BY <1>1, <2>1, <2>2, <2>3 DEF IsStarted
<1>3. op'[u][o].plan = op[u][o].plan /\ Deps(u, o)' = Deps(u, o) /\ k \in op[u][o].plan
  BY <1>0, <1>2, StartedStays, DepsKept
<1>4. CASE job[u][o][k] # "deferred"
  BY <1>0, <1>2, <1>3, <1>4, EnqueuedToWait
<1>5. CASE job[u][o][k] = "deferred"
  <2>1. \E d \in Deps(u, o)[k] : job'[u][o][d] # "finished"
    <3>1. PICK d \in Deps(u, o)[k] : job[u][o][d] # "finished"
      BY <1>3, <1>5 DEF Awaited
    <3> QED BY <1>0, <1>1, <1>5, <3>1, StillWaits
  <2>2. ASSUME row'[u][k].run = o, NEW d \in Deps(u, o)[k]
        PROVE  \/ job'[u][o][d] \in {"finished", "queued", "started", "deferred"}
               \/ work'[u][o][d] = "exc"
               \/ BeingCancelled(u, o, k)'
    <3>1. row[u][k].run = o
      BY <1>0, <1>1, <1>2, <2>2, RowBefore
    <3>2. row[u][k].st = "new"
      BY <1>0, <1>3, <1>5, <3>1, DeferredIsNew
    <3>3. row'[u][k].st = "new"
      <4>1. CASE op'[u][o].pc \in Enqueueing
        BY <4>1 DEF RowsInOrder, RowsFresh
      <4>2. CASE op'[u][o].pc \notin Enqueueing
        <5>1. op'[u][o].pc \in OpPc /\ op'[u][o].pc \notin Unstarted
          BY <1>0, <1>2, StartedStays DEF TypeOK, Op
        <5>2. op'[u][o].pc = "done"
          BY <4>2, <5>1 DEF ChainWhole, OpPc, Unstarted, Enqueueing
        <5>3. job'[u][o]["final"] # "none"
          BY <5>2 DEF ChainWhole
        <5> QED BY <1>1, <2>2, <5>3 DEF RowsInOrder, RowsMatch, RowMatches, After
      <4> QED BY <4>1, <4>2
    <3>4. (d \in op[u][o].plan /\ After(k, d)) \/ (d = "netbird" /\ k = "user")
      BY <1>1, DepsBefore
    <3>5. job'[u][o] \in [Jobs -> JobStatus]
      BY DEF TypeOK
    <3>6. job'[u][o][d] # "deleted"
      BY <1>1, <1>3 DEF ChainInOrder, JobsInOrder
    <3>7. CASE d = "netbird" /\ k = "user"
      <4>1. Netbird
        <5>1. Deps(u, o)["user"] = Last({i \in op[u][o].plan : Rank[i] < Rank["user"]})
                                     \union (IF Netbird THEN {"netbird"} ELSE {})
          BY <1>1, <3>7 DEF Deps
        <5>2. op[u][o].plan \subseteq Kinds /\ "netbird" \notin Kinds
          BY DEF TypeOK, Op, Kinds, AllocKinds, CleanupKinds
        <5>3. "netbird" \notin Last({i \in op[u][o].plan : Rank[i] < Rank["user"]})
          BY <5>2 DEF Last
        <5> QED BY <3>7, <5>1, <5>3
      <4>2. op'[u][o].plan \subseteq AllocKinds
        BY <1>0, <1>3, <3>7 DEF ChainBegun, AllocKinds, CleanupKinds
      <4>3. job'[u][o]["netbird"] \notin {"none", "failed"}
        BY <4>1, <4>2 DEF ChainWhole
      <4>4. job'[u][o]["netbird"] \in JobStatus
        BY <3>5, KindValues
      <4> QED BY <3>6, <3>7, <4>3, <4>4 DEF JobStatus
    <3>8. CASE d \in op[u][o].plan /\ After(k, d)
      <4>0. d \in Kinds /\ d \in Jobs
        <5>1. d \in Kinds
          BY <3>8 DEF TypeOK, Op
        <5> QED BY <5>1, KindValues
      <4>1. row[u][d].run = o
        BY <1>0, <1>3, <3>1, <3>2, <3>8 DEF RowsShared, UnderWay
      <4>2. CASE job[u][o][d] \in {"finished", "queued", "started", "deferred"}
        <5>1. job'[u][o][d] # "none"
          BY <1>0, <1>2, <4>0, <4>2, JobsStay
        <5>2. job'[u][o][d] = "failed" => work'[u][o][d] = "exc"
          BY <1>0, <4>0, <4>1, <4>2 DEF StageFacts
        <5>3. job'[u][o][d] \in JobStatus
          BY <3>5, <4>0
        <5> QED BY <3>6, <5>1, <5>2, <5>3 DEF JobStatus
      <4>3. CASE work[u][o][d] = "exc"
        <5>1. work'[u][o][d] = "exc" \/ FailureRead(u, o, d)
          BY <1>0, <4>0, <4>3 DEF StageFacts
        <5>2. ASSUME FailureRead(u, o, d)
              PROVE  BeingCancelled(u, o, k)'
          BY <1>3, <1>5, <3>1, <3>2, <3>8, <5>2, FailureCancels
        <5> QED BY <5>1, <5>2
      <4>4. CASE BeingCancelled(u, o, k)
        BY <1>1, <3>1, <3>2, <3>3, <4>4, CancellationGoesOn
      <4> QED BY <1>3, <1>5, <3>1, <4>2, <4>3, <4>4 DEF Awaited
    <3> QED BY <3>4, <3>7, <3>8
  <2> QED BY <1>3, <2>1, <2>2
<1> QED BY <1>4, <1>5

\* Settling is inductive when no worker dies and nobody acts between two turns of the loop.
LEMMA StepSettling ==
  ASSUME TypeOK, TypeOK', "slow" \notin Faults, "crash" \notin Faults, FirstCreates, InOrder, InOrder',
         Settling, [Next]_vars
  PROVE  Settling'
<1>1. Cancelling
  BY DEF InOrder
<1>2. ASSUME NEW u \in Units
      PROVE  SettlesBefore(u)
  <2>1. UnitStep(u) /\ OneAtATime(u)
    BY UnitSteps DEF InOrder
  <2>2. ASSUME NEW o \in Ops
        PROVE  OrderBefore(u, o) /\ StageFacts(u, o)
    <3>1. ChainInOrder(u, o) /\ RowsInOrder(u, o)
      BY DEF InOrder
    <3>2. JobsInOrder(u, o)
      BY <3>1 DEF ChainInOrder
    <3>3. OrderBefore(u, o)
      BY <1>1, <2>1, <3>1, ChainSteps DEF OrderBefore
    <3> QED BY <3>2, <3>3, StageSteps
  <2> QED BY <1>1, <2>1, <2>2 DEF SettlesBefore, Settling
<1>3. ASSUME NEW u \in Units
      PROVE  RowsComplete(u)' /\ LeftAlike(u)'
  BY <1>1, <1>2, StepRowsComplete, StepLeftAlike DEF Settling
<1>4. ASSUME NEW u \in Units, NEW o \in Ops
      PROVE  (ChainWhole(u, o) /\ RowsShared(u, o) /\ Attended(u, o) /\ Awaited(u, o) /\ HandledOnce(u, o))'
  <2>1. SettlesBefore(u)
    BY <1>2
  <2>2. OrderBefore(u, o) /\ ChainWhole(u, o) /\ RowsShared(u, o)
    BY <2>1 DEF SettlesBefore
  <2>3. ChainInOrder(u, o)' /\ RowsInOrder(u, o)'
    BY DEF InOrder
  <2>4. ChainWhole(u, o)'
    BY <1>1, <2>2, StepChainWhole
  <2>5. RowsShared(u, o)'
    BY <2>2, StepRowsShared
  <2>6. Attended(u, o)' /\ Awaited(u, o)' /\ HandledOnce(u, o)'
    BY <2>1, <2>3, <2>4, StepAttended, StepAwaited, StepHandledOnce
  <2> QED BY <2>4, <2>5, <2>6
<1> QED BY <1>3, <1>4 DEF Settling

\* Settling holds before the first request.
LEMMA InitSettling ==
  ASSUME Init
  PROVE  Settling
<1>1. /\ units = {} /\ \A u \in Units : creq[u] = 0
      /\ \A u \in Units, k \in Kinds : row[u][k].run = 0
      /\ \A u \in Units, o \in Ops : op[u][o].pc = "idle" /\ op[u][o].plan = {}
      /\ \A u \in Units, c \in Cancellers : left[u][c] = {}
  BY DEF Init, NoRow, NoOp
<1>2. ASSUME NEW u \in Units
      PROVE  RowsComplete(u) /\ LeftAlike(u)
  <2>1. \A S \in {AllocKinds, CleanupKinds} : Rows(u, S) = {}
    BY <1>1, KindValues DEF Rows
  <2>2. RowsComplete(u)
    BY <1>1, <2>1 DEF RowsComplete
  <2> QED BY <1>1, <2>2 DEF LeftAlike
<1>3. ASSUME NEW u \in Units, NEW o \in Ops
      PROVE  ChainWhole(u, o) /\ RowsShared(u, o) /\ Attended(u, o) /\ Awaited(u, o) /\ HandledOnce(u, o)
  <2>1. HandledOnce(u, o)
    BY <1>1, CancellerValues DEF HandledOnce
  <2> QED BY <1>1, <2>1 DEF ChainWhole, RowsShared, Attended, Awaited
<1> QED BY <1>2, <1>3 DEF Settling

\* Settling implies that no request of a quiet unit hangs: a stage that is not finished
\* has a job that waits, this one waits for a job of the same chain that waits as well and
\* is enqueued earlier, and there are three ranks.
LEMMA SettledWhenQuiet ==
  ASSUME TypeOK, InOrder, Settling
  PROVE  QuietUnitIsSettled
<1> SUFFICES ASSUME NEW u \in units, Quiet(u)
             PROVE  /\ HasStages(u, AllocKinds) /\ IsFinished(u, AllocKinds)
                    /\ creq[u] # 0 => HasStages(u, CleanupKinds) /\ IsFinished(u, CleanupKinds)
  BY DEF QuietUnitIsSettled
<1>0. u \in Units /\ 1 \in Ops
  BY ConstantsAssumption DEF TypeOK, Ops
<1>1. RowsComplete(u)
  BY <1>0 DEF Settling
<1>2. HasStages(u, AllocKinds)
  BY <1>0, <1>1 DEF RowsComplete, Quiet
<1>3. creq[u] # 0 => HasStages(u, CleanupKinds)
  BY <1>1 DEF RowsComplete
<1> DEFINE Hangs(o, k) == row[u][k].run = o /\ job[u][o][k] = "deferred"
<1>4. ASSUME NEW o \in Ops, NEW k \in op[u][o].plan, Hangs(o, k)
      PROVE  \E d \in op[u][o].plan : Hangs(o, d) /\ Rank[d] < Rank[k]
  <2>1. /\ ChainWhole(u, o) /\ RowsShared(u, o) /\ Awaited(u, o)
        /\ ChainBegun(u, o) /\ JobsInOrder(u, o) /\ RowsMatch(u, o) /\ RowsFresh(u, o)
    BY <1>0 DEF Settling, InOrder, ChainInOrder, RowsInOrder
  <2>2. k \in Kinds /\ k \in Jobs /\ k # "final"
    <3>1. k \in Kinds
      BY <1>0 DEF TypeOK, Op
    <3> QED BY <3>1 DEF Jobs, Kinds, AllocKinds, CleanupKinds
  <2>3. row[u][k].st = "new"
    BY <1>0, <1>4, <2>1, DeferredIsNew
  <2>4. PICK d \in Deps(u, o)[k] : job[u][o][d] # "finished"
    BY <1>4, <2>1 DEF Awaited
  <2>5. (d \in op[u][o].plan /\ After(k, d)) \/ (d = "netbird" /\ k = "user")
    BY <1>0, <2>2, <2>4, DepsBefore
  <2>6. d \in Jobs
    <3>1. op[u][o].plan \subseteq Kinds
      BY <1>0 DEF TypeOK, Op
    <3> QED BY <2>5, <3>1, KindValues
  <2>7. job[u][o][d] = "deferred"
    <3>1. /\ job[u][o][d] \notin {"queued", "started"}
          /\ work[u][o][d] # "exc"
          /\ ~BeingCancelled(u, o, k)
      BY <2>6 DEF Quiet, BeingCancelled
    <3> QED BY <1>4, <2>1, <2>4, <3>1 DEF Awaited
  <2>8. d # "netbird"
    BY <2>1, <2>7 DEF JobsInOrder
  <2>9. row[u][d].run = o
    BY <1>4, <2>1, <2>3, <2>5, <2>8 DEF RowsShared, UnderWay
  <2> QED BY <2>2, <2>5, <2>7, <2>8, <2>9 DEF After
<1>5. ASSUME NEW o \in Ops, NEW k \in op[u][o].plan, Hangs(o, k)
      PROVE  FALSE
  <2> HIDE DEF Hangs
  <2>1. PICK d \in op[u][o].plan : Hangs(o, d) /\ Rank[d] < Rank[k]
    BY <1>4, <1>5
  <2>2. PICK e \in op[u][o].plan : Hangs(o, e) /\ Rank[e] < Rank[d]
    BY <1>4, <2>1
  <2>3. PICK f \in op[u][o].plan : Hangs(o, f) /\ Rank[f] < Rank[e]
    BY <1>4, <2>2
  <2>4. {k, d, e, f} \subseteq Kinds
    BY <1>0 DEF TypeOK, Op
  <2>5. \A i \in Kinds : Rank[i] \in {1, 2, 3}
    BY DEF Rank, Kinds, AllocKinds, CleanupKinds
  <2>6. Rank[k] \in {1, 2, 3} /\ Rank[d] \in {1, 2, 3} /\ Rank[e] \in {1, 2, 3} /\ Rank[f] \in {1, 2, 3}
    BY <2>4, <2>5
  <2> QED BY <2>1, <2>2, <2>3, <2>6
<1>6. ASSUME NEW S \in {AllocKinds, CleanupKinds}
      PROVE  IsFinished(u, S)
  <2> SUFFICES ASSUME NEW k \in S, row[u][k].run # 0, row[u][k].st \in {"new", "running"}
               PROVE  FALSE
    BY DEF IsFinished, Unfinished, Rows
  <2> DEFINE o == row[u][k].run
  <2>1. k \in Kinds /\ k \in Jobs
    BY KindValues
  <2>2. o \in Ops
    BY <1>0, <2>1 DEF TypeOK, Row
  <2>3. /\ ChainWhole(u, o) /\ Attended(u, o) /\ RowMatches(u, o, k)
    BY <1>0, <2>1, <2>2 DEF Settling, InOrder, RowsInOrder, RowsMatch
  <2>4. k \in op[u][o].plan /\ op[u][o].pc \notin Unstarted
    BY <2>3 DEF RowMatches
  <2>5. op[u][o].pc = "done"
    <3>1. op[u][o].pc \in {"idle", "done", "failed"}
      BY <2>2 DEF Quiet
    <3> QED BY <2>3, <2>4, <3>1 DEF ChainWhole, Unstarted
  <2>6. job[u][o][k] = "deferred"
    <3>1. /\ job[u][o][k] # "queued" /\ work[u][o][k] \notin {"picked", "busy"}
          /\ ~BeingCancelled(u, o, k)
      BY <2>1, <2>2 DEF Quiet, BeingCancelled
    <3> QED BY <2>1, <2>3, <2>5, <3>1 DEF Attended
  <2>7. Hangs(o, k)
    BY <2>6
  <2> QED BY <1>5, <2>2, <2>4, <2>7
<1> QED BY <1>2, <1>3, <1>6

\* No request of a quiet unit hangs, for any number of units and operations, whatever is
\* asked while the unit is busy and however its stages fail: whoever cancels or fails
\* takes the waiting stages along.  It is assumed that no worker dies, since rq calls no
\* exception handler then, and that nobody acts between two turns of the loop of
\* _enqueue_request, where a stage that fails early is not found by its handler.
THEOREM QuietIsSettled ==
  ASSUME "slow" \notin Faults, "crash" \notin Faults
  PROVE  Spec => []QuietUnitIsSettled
<1>1. TypeOK /\ TypeOK' /\ InOrder /\ [Next]_vars => InOrder'
  BY StepInOrder
<1>2. TypeOK /\ Protected /\ [Next]_vars => Protected'
  BY StepProtected
<1>3. /\ TypeOK /\ TypeOK' /\ Protected /\ InOrder /\ InOrder' /\ Settling /\ [Next]_vars => Settling'
  BY StepSettling DEF Protected
<1>4. TypeOK /\ InOrder /\ Settling => QuietUnitIsSettled
  BY SettledWhenQuiet
<1>5. Init => Protected
  BY InitProtected
<1>6. Init => InOrder /\ Settling
  BY InitInOrder, InitSettling
<1> QED BY <1>1, <1>2, <1>3, <1>4, <1>5, <1>6, TypeCorrect, PTL DEF Spec
-----------------------------------------------------------------------------
(***************************************************************************)
(* The rest is about operators that ask nothing of a unit that is busy,    *)
(* and a loop that enqueues the stages with nobody acting between two of   *)
(* its turns: for any finite set of units and any number of operations,    *)
(* with failing stages and dying workers.                                  *)
(*                                                                         *)
(* The argument: at most one operation of a unit is under way (Alone), so  *)
(* every step is that of the one that is, and this one owns the rows of    *)
(* its stages and knows the sandbox (Orderly).                             *)
(***************************************************************************)

(* One operation at a time. *)

\* Nothing of the operation is under way: a unit is quiet when all of its are.
Rested(u, o) ==
  /\ op[u][o].pc \in {"idle", "done", "failed"}
  /\ \A j \in Jobs : /\ job[u][o][j] \notin {"queued", "started"}
                     /\ work[u][o][j] \in {"idle", "succeeded", "ended", "dead"}
  /\ \A c \in Cancellers : c[1] = o => left[u][c] = {}

Alone(u) == \A o, p \in Ops : Rested(u, o) \/ Rested(u, p) \/ o = p

\* The job has never been enqueued.
Untouched(u, o, j) == job[u][o][j] = "none" /\ work[u][o][j] = "idle"

\* An operation has jobs for the stages of its chain only, and those that have been
\* started are with a worker, unless they were deleted.
JobsBelong(u, o) ==
  /\ op[u][o].plan = {} => \A j \in Jobs : Untouched(u, o, j)
  /\ \A k \in Kinds \ op[u][o].plan : Untouched(u, o, k)
  /\ ~Netbird \/ ~(op[u][o].plan \subseteq AllocKinds) => Untouched(u, o, "netbird")
  /\ \A j \in Jobs : job[u][o][j] = "started" => work[u][o][j] \in {"picked", "busy", "decremented"}
  /\ work[u][o]["final"] = "decremented" => op[u][o].plan = CleanupKinds

-----------------------------------------------------------------------------
(* One operation under way stays the only one. *)

\* A unit is quiet when all its operations rest.
LEMMA QuietRests ==
  ASSUME TypeOK, NEW u \in Units
  PROVE  Quiet(u) <=> \A o \in Ops : Rested(u, o)
<1>1. \A c \in Cancellers : c[1] \in Ops
  BY DEF Cancellers
<1> QED BY <1>1 DEF Quiet, Rested

\* A patient operator asks for something only when nothing of the unit is under way.
LEMMA AskedQuiet ==
  ASSUME TypeOK, Cancelling, Born, Hasty = {}, [Next]_vars,
         NEW v \in Units, NEW p \in Ops, op[v][p].pc = "idle", op'[v][p].pc # "idle"
  PROVE  Quiet(v)
<1>1. ASSUME NEW u \in Units, NEW o \in Ops, op[u][o].pc # "idle",
             \A w \in Units, q \in Ops : w # u \/ q # o => op'[w][q] = op[w][q]
      PROVE  FALSE
  BY <1>1
<1>2. CASE op' = op
  BY <1>2
<1>3. ASSUME NEW u \in Units, NEW o \in Ops, NEW pc, SetPc(u, o, pc), op[u][o].pc # "idle"
      PROVE  FALSE
  BY <1>1, <1>3, PcAt
<1>4. ASSUME NEW u \in Units, NEW o \in Ops, NEW r, op' = [op EXCEPT ![u][o] = r], op[u][o].pc # "idle"
      PROVE  FALSE
  BY <1>1, <1>4, OpAt
<1>5. ASSUME NEW u \in Units, WebRequest(u) PROVE Quiet(v)
  <2>1. CASE CreateAllocationsRequests(u)
    <3> DEFINE r == [NoOp EXCEPT !.kind = "create", !.pc = "queued"]
    <3>1. op' = [op EXCEPT ![u][1] = r] /\ op[u][1].pc = "idle"
      BY <2>1 DEF CreateAllocationsRequests
    <3> HIDE DEF r
    <3>2. v = u /\ p = 1
      BY <3>1, OneIsAnOp, OpAt
    <3> QED BY <3>1, <3>2 DEF Born, Asleep, Quiet
  <2>2. CASE DeleteCleanupRequest(u) \/ LockSandbox(u) \/ UnlockSandbox(u)
    BY <1>2, <2>2 DEF DeleteCleanupRequest, LockSandbox, UnlockSandbox
  <2>3. ASSUME NEW o \in Ops, NEW kind, Asks(u, o, kind), NEW r, op' = [op EXCEPT ![u][o] = r]
        PROVE  Quiet(v)
    <3>1. v = u
      BY <2>3, OpAt
    <3> QED BY <2>3, <3>1 DEF Asks
  <2>4. ASSUME NEW o \in Ops, RestartRequest(u, o) PROVE Quiet(v)
    BY <2>3, <2>4 DEF RestartRequest
  <2>5. ASSUME NEW o \in Ops, NEW kind, NEW S, CancelRequest(u, o, kind, S) PROVE Quiet(v)
    BY <2>3, <2>5 DEF CancelRequest
  <2>6. ASSUME NEW o \in Ops, CreateCleanupRequest(u, o) PROVE Quiet(v)
    BY <2>3, <2>6 DEF CreateCleanupRequest
  <2>7. ASSUME NEW o \in Ops, CreateCleanupRequestForce(u, o) PROVE Quiet(v)
    <3>1. Asks(u, o, "force") /\ \E r : op' = [op EXCEPT ![u][o] = r]
      BY <2>7 DEF CreateCleanupRequestForce
    <3> QED BY <2>3, <3>1
  <2> QED BY <1>5, <2>1, <2>2, <2>4, <2>5, <2>6, <2>7 DEF WebRequest, CancelAllocationRequest,
          CancelCleanupRequest
<1>6. ASSUME NEW u \in Units, NEW o \in Ops, WebContinues(u, o) PROVE FALSE
  <2>1. op[u][o].pc # "idle" /\ \E pc : SetPc(u, o, pc)
    BY <1>6 DEF WebContinues, CancelDone, DeleteSandbox
  <2> QED BY <1>3, <2>1
<1>7. ASSUME NEW u \in Units, NEW o \in Ops, Orchestration(u, o) PROVE FALSE
  <2>1. op[u][o].pc # "idle"
    BY <1>7 DEF Orchestration, CreateAllocationJobs, ReplaceSandbox, RestartStageHandlers,
       CreateCleanupJobs, EnqueueStage, SetJobId, EnqueueFinalizer, Orchestrates
  <2>2. \/ \E pc : SetPc(u, o, pc)
        \/ \E r : op' = [op EXCEPT ![u][o] = r]
    <3>1. CASE SetJobId(u, o)
      BY <3>1 DEF SetJobId, FailOrchestration
    <3>2. ASSUME NEW S, StartChain(u, o, S) PROVE \E r : op' = [op EXCEPT ![u][o] = r]
      BY <3>2 DEF StartChain
    <3>3. CASE CreateAllocationJobs(u, o) \/ RestartStageHandlers(u, o) \/ CreateCleanupJobs(u, o)
      BY <3>2, <3>3 DEF CreateAllocationJobs, RestartStageHandlers, CreateCleanupJobs, FailOrchestration
    <3>4. CASE ReplaceSandbox(u, o) \/ EnqueueStage(u, o) \/ EnqueueFinalizer(u, o)
      BY <3>4 DEF ReplaceSandbox, EnqueueStage, EnqueueFinalizer, FailOrchestration
    <3> QED BY <1>7, <3>1, <3>3, <3>4 DEF Orchestration
  <2> QED BY <1>3, <1>4, <2>1, <2>2
<1>8. ASSUME NEW u \in Units, NEW o \in Ops, Execution(u, o) PROVE FALSE
  BY <1>2, <1>8 DEF Execution, TakeJob, ExecuteStart, ExecuteEnd, ExecuteFail,
       RequestExceptionHandler, ProvisionNetbird, MarkSandboxAsReady, DecrementPoolSize, DeleteAllocationUnit
<1>9. ASSUME NEW u \in Units, NEW o \in Ops, Crash(u, o) PROVE FALSE
  <2>1. CASE op' = op
    BY <1>2, <2>1
  <2>2. CASE CrashOrchestration(u, o)
    BY <1>3, <2>2 DEF CrashOrchestration, FailOrchestration
  <2> QED BY <1>9, <2>1, <2>2 DEF Crash, CrashJob
<1>10. ASSUME NEW u \in Units, NEW c \in Cancellers, CancelStage(u, c) PROVE FALSE
  <2>1. op' = op \/ (left[u][c] # {} /\ c[2] = "web" /\ SetPc(u, c[1], "failed"))
    BY <1>10, Zenon DEF CancelStage
  <2>2. c = <<c[1], c[2]>> /\ c[1] \in Ops
    BY DEF Cancellers
  <2>3. CASE left[u][c] # {} /\ c[2] = "web" /\ SetPc(u, c[1], "failed")
    <3>1. op[u][c[1]].pc = "cancel"
      BY <2>2, <2>3 DEF Cancelling
    <3> QED BY <1>3, <2>2, <2>3, <3>1
  <2> QED BY <1>2, <2>1, <2>3
<1>11. CASE UNCHANGED vars
  BY <1>2, <1>11 DEF vars
<1> QED BY <1>5, <1>6, <1>7, <1>8, <1>9, <1>10, <1>11 DEF Next

\* What rests, rests until something is asked.
LEMMA RestStays ==
  ASSUME TypeOK, Cancelling', NEW u \in Units, NEW o \in Ops, ChainStep(u, o), UnitStep(u),
         Rested(u, o), ~Rested(u, o)'
  PROVE  op[u][o].pc = "idle" /\ op'[u][o].pc # "idle"
<1>1. ASSUME ~IsAsked(u, o)
      PROVE  /\ op'[u][o] = op[u][o] /\ work'[u][o] = work[u][o]
             /\ \A j \in Jobs : job'[u][o][j] = job[u][o][j] \/ job'[u][o][j] = "deleted"
  <2>1. CASE SameChain(u, o)
    BY <2>1 DEF SameChain, SameJobs
  <2>2. CASE LosesJob(u, o)
    <3>1. PICK k \in Kinds : job'[u][o] = DeletedJob(job[u][o], Deps(u, o), k)
      BY <2>2 DEF LosesJob
    <3>2. DOMAIN job[u][o] = Jobs
      BY DEF TypeOK
    <3> QED BY <2>2, <3>1, <3>2 DEF LosesJob, DeletedJob
  <2>3. ~Works(u, o)
    BY DEF Works, Takes, EndsWell, EndsBadly, CountsOut, Proceeds, AtWork, Rested
  <2>4. ~MovesOn(u, o) /\ ~IsStarted(u, o) /\ ~IsEnqueued(u, o) /\ ~IsTied(u, o) /\ ~IsClosed(u, o)
    BY DEF MovesOn, IsStarted, Chains, IsEnqueued, IsTied, IsClosed, Rested
  <2> QED BY <1>1, <2>1, <2>2, <2>3, <2>4 DEF ChainStep
<1>2. CASE IsAsked(u, o)
  BY <1>2 DEF IsAsked
<1>3. CASE ~IsAsked(u, o)
  <2>1. ASSUME NEW c \in Cancellers, c[1] = o PROVE left'[u][c] = {}
    <3>1. left[u][c] = {}
      BY <2>1 DEF Rested
    <3>2. c = <<o, c[2]>> /\ c[2] \in Kinds \union {"web"}
      BY <2>1 DEF Cancellers
    <3>3. CASE c[2] = "web"
      <4>1. op'[u][o].pc # "cancel"
        BY <1>1, <1>3 DEF Rested
      <4> QED BY <3>2, <3>3, <4>1 DEF Cancelling
    <3>4. CASE c[2] # "web"
      <4>1. ASSUME NEW p \in Ops, NEW k \in Kinds, FailureRead(u, p, k)
            PROVE  left'[u][c] = left[u][c]
        <5>1. p # o
          BY <1>1, <1>3, <4>1 DEF FailureRead, Rested
        <5> QED BY <2>1, <4>1, <5>1 DEF FailureRead, LeftBecomes
      <4>2. ASSUME NEW p \in Ops, NEW S \in {AllocKinds, CleanupKinds}, RowsRead(u, p, S)
            PROVE  left'[u][c] = left[u][c]
        BY <3>2, <3>4, <4>2 DEF RowsRead, LeftBecomes
      <4>3. ASSUME NEW p \in Ops, NEW k \in Kinds, NEW d \in Cancellers,
                   RowCancelled(u, d, k, p) \/ CancelMissed(u, d, k, p)
            PROVE  left'[u][c] = left[u][c]
        BY <3>1, <4>3 DEF RowCancelled, CancelMissed, LeftBecomes
      <4>4. ASSUME NEW p \in Ops, RowsMade(u, p) \/ RowTied(u, p) \/ \E k \in Kinds : RowSaved(u, p, k)
            PROVE  left'[u][c] = left[u][c]
        BY <4>4 DEF RowsMade, RowTied, RowSaved, LeftKept
      <4>5. left'[u][c] = left[u][c]
        BY <4>1, <4>2, <4>3, <4>4 DEF UnitStep, LeftKept, RowsGone
      <4> QED BY <3>1, <4>5
    <3> QED BY <3>3, <3>4
  <2> QED BY <1>1, <1>3, <2>1 DEF Rested
<1> QED BY <1>2, <1>3

\* At most one operation of a unit is under way.
LEMMA StepAlone ==
  ASSUME TypeOK, Cancelling, Cancelling', Born, Hasty = {}, [Next]_vars, NEW u \in Units, Alone(u)
  PROVE  Alone(u)'
<1> SUFFICES ASSUME NEW o \in Ops, NEW p \in Ops, ~Rested(u, o)', ~Rested(u, p)', o # p
             PROVE  FALSE
  BY DEF Alone
<1>1. \A q \in Ops : ChainStep(u, q) /\ UnitStep(u)
  BY ChainSteps, UnitSteps
<1>2. ASSUME NEW q \in Ops, Rested(u, q), ~Rested(u, q)'
      PROVE  op[u][q].pc = "idle" /\ op'[u][q].pc # "idle" /\ \A r \in Ops : Rested(u, r)
  <2>1. op[u][q].pc = "idle" /\ op'[u][q].pc # "idle"
    BY <1>1, <1>2, RestStays
  <2>2. Quiet(u)
    BY <2>1, AskedQuiet
  <2> QED BY <2>1, <2>2, QuietRests
<1>3. Rested(u, o) \/ Rested(u, p)
  BY DEF Alone
<1>4. op'[u][o] # op[u][o] /\ op'[u][p] # op[u][p]
  BY <1>2, <1>3
<1>5. OneChain
  BY <1>4, OneChainSteps
<1> QED BY <1>4, <1>5 DEF OneChain, Elsewhere, SameChain

\* While an operation is under way, the others rest, and go on resting.
LEMMA OthersRest ==
  ASSUME TypeOK, Cancelling, Cancelling', Born, Hasty = {}, [Next]_vars, NEW u \in Units, Alone(u),
         NEW o \in Ops, ~Rested(u, o), NEW p \in Ops, p # o
  PROVE  Rested(u, p) /\ Rested(u, p)'
<1>1. Rested(u, p)
  BY DEF Alone
<1>2. ChainStep(u, p) /\ UnitStep(u)
  BY ChainSteps, UnitSteps
<1>3. ASSUME ~Rested(u, p)' PROVE FALSE
  <2>1. op[u][p].pc = "idle" /\ op'[u][p].pc # "idle"
    BY <1>1, <1>2, <1>3, RestStays
  <2>2. Quiet(u)
    BY <2>1, AskedQuiet
  <2> QED BY <2>2, QuietRests
<1> QED BY <1>1, <1>3

-----------------------------------------------------------------------------
(* The jobs of an operation belong to its chain. *)

\* No step gives an operation a job outside its chain, or a worker without a job.
LEMMA StepJobsBelong ==
  ASSUME TypeOK, TypeOK', "slow" \notin Faults, NEW u \in Units, NEW o \in Ops, ChainStep(u, o),
         ChainBegun(u, o), JobsInOrder(u, o), RowsMatch(u, o), JobsBelong(u, o)
  PROVE  JobsBelong(u, o)'
<1> USE KindValues
<1>0. /\ DOMAIN job[u][o] = Jobs /\ DOMAIN work[u][o] = Jobs /\ op[u][o] \in Op
      /\ job[u][o] = [j \in Jobs |-> job[u][o][j]]
  BY DEF TypeOK
<1>1. CASE SameChain(u, o)
  BY <1>1 DEF SameChain, SameJobs, JobsBelong, Untouched
<1>2. ASSUME op'[u][o].plan = op[u][o].plan, SameJobs(u, o)
      PROVE  JobsBelong(u, o)'
  BY <1>2 DEF SameJobs, JobsBelong, Untouched
<1>3. CASE IsAsked(u, o)
  <2>1. op'[u][o].plan = op[u][o].plan
    BY <1>3 DEF IsAsked, ChainBegun, Unstarted
  <2> QED BY <1>2, <1>3, <2>1 DEF IsAsked
<1>4. CASE MovesOn(u, o)
  BY <1>2, <1>4 DEF MovesOn, Goes, KeepsPlan
<1>5. CASE IsTied(u, o)
  BY <1>2, <1>5 DEF IsTied, KeepsPlan
<1>6. CASE IsStarted(u, o)
  <2>1. op[u][o].pc \in Unstarted
    BY <1>6 DEF IsStarted, Chains, Unstarted
  <2>2. \A j \in Jobs : Untouched(u, o, j)
    BY <2>1 DEF ChainBegun, Untouched
  <2>3. op'[u][o].plan # {}
    BY <1>6 DEF IsStarted, Chains, AllocKinds, CleanupKinds
  <2>4. "netbird" \notin Kinds
    BY DEF Kinds, AllocKinds, CleanupKinds
  <2>5. op'[u][o].plan \subseteq Kinds
    BY DEF TypeOK, Op
  <2>6. work'[u][o] = work[u][o]
    BY <1>6 DEF IsStarted
  <2>7. CASE Netbird /\ op'[u][o].plan \subseteq AllocKinds
    <3>1. job'[u][o] = [job[u][o] EXCEPT !["netbird"] = "queued"]
      BY <1>6, <2>7 DEF IsStarted
    <3> QED BY <1>0, <2>2, <2>3, <2>4, <2>6, <2>7, <3>1 DEF JobsBelong, Untouched
  <2>8. CASE ~(Netbird /\ op'[u][o].plan \subseteq AllocKinds)
    <3>1. job'[u][o] = job[u][o]
      BY <1>6, <2>8 DEF IsStarted
    <3> QED BY <2>2, <2>3, <2>6, <3>1 DEF JobsBelong, Untouched
  <2> QED BY <2>7, <2>8
<1>7. ASSUME NEW k \in op[u][o].plan \union {"final"}, op[u][o].plan # {},
             op'[u][o].plan = op[u][o].plan, work'[u][o] = work[u][o],
             job'[u][o] = EnqueuedJob(job[u][o], Deps(u, o), k)
      PROVE  JobsBelong(u, o)'
  <2>1. \A j \in Jobs \ {k} : job'[u][o][j] = job[u][o][j]
    BY <1>0, <1>7 DEF EnqueuedJob
  <2>2. job'[u][o][k] \in {"queued", "deferred"} \/ job'[u][o][k] = job[u][o][k]
    BY <1>0, <1>7 DEF EnqueuedJob
  <2>3. k # "netbird" /\ "final" \notin Kinds
    BY <1>0, <1>7 DEF Op, Kinds, AllocKinds, CleanupKinds
  <2> QED BY <1>7, <2>1, <2>2, <2>3 DEF JobsBelong, Untouched
<1>8. CASE IsEnqueued(u, o)
  <2>1. PICK k \in First(op[u][o].todo) : job'[u][o] = EnqueuedJob(job[u][o], Deps(u, o), k)
    BY <1>8 DEF IsEnqueued
  <2>2. k \in op[u][o].plan /\ op[u][o].plan # {}
    BY <1>8, <2>1 DEF First, ChainBegun, IsEnqueued
  <2> QED BY <1>7, <1>8, <2>1, <2>2 DEF IsEnqueued, Goes, KeepsPlan
<1>9. CASE IsClosed(u, o)
  <2>1. op[u][o].plan # {}
    BY <1>9 DEF ChainBegun, IsClosed, Enqueueing
  <2> QED BY <1>7, <1>9, <2>1 DEF IsClosed, Goes, KeepsPlan
<1>10. CASE LosesJob(u, o)
  <2>1. PICK k \in Kinds : row[u][k].run = o /\ job'[u][o] = DeletedJob(job[u][o], Deps(u, o), k)
    BY <1>10 DEF LosesJob
  <2>2. k \in op[u][o].plan
    BY <2>1 DEF RowsMatch, RowMatches
  <2>3. \A j \in Jobs \ {k} : job'[u][o][j] = job[u][o][j] \/ (job[u][o][j] = "deferred" /\ job'[u][o][j] = "deleted")
    BY <1>0, <2>1 DEF DeletedJob
  <2>4. job'[u][o][k] = "deleted"
    BY <1>0, <2>1 DEF DeletedJob
  <2>5. "netbird" \notin Kinds
    BY DEF Kinds, AllocKinds, CleanupKinds
  <2> QED BY <1>10, <2>2, <2>3, <2>4, <2>5 DEF LosesJob, JobsBelong, Untouched
<1>11. CASE Works(u, o)
  <2>1. PICK j \in Jobs : \/ Takes(u, o, j) \/ EndsWell(u, o, j) \/ EndsBadly(u, o, j)
                          \/ CountsOut(u, o, j) \/ Proceeds(u, o, j)
    BY <1>11 DEF Works
  <2>2. ~Untouched(u, o, j)
    BY <2>1 DEF Takes, EndsWell, EndsBadly, CountsOut, Proceeds, AtWork, Untouched
  <2>3. op'[u][o] = op[u][o]
    BY <1>11 DEF Works
  <2>4. \A i \in Jobs \ {j} : /\ work'[u][o][i] = work[u][o][i]
                              /\ \/ job'[u][o][i] = job[u][o][i]
                                 \/ job[u][o][i] = "deferred" /\ job'[u][o][i] = "queued"
    <3>1. CASE EndsWell(u, o, j)
      <4>1. \A i \in Jobs \ {j} : work'[u][o][i] = work[u][o][i]
        BY <1>0, <3>1 DEF EndsWell, Sets
      <4>2. job'[u][o] = FinishedJob(job[u][o], Deps(u, o), j)
        BY <3>1 DEF EndsWell
      <4> QED BY <1>0, <4>1, <4>2 DEF FinishedJob
    <3>2. CASE Takes(u, o, j) \/ EndsBadly(u, o, j) \/ CountsOut(u, o, j)
      BY <1>0, <3>2 DEF Takes, EndsBadly, CountsOut, Marks, Sets
    <3>3. CASE Proceeds(u, o, j)
      BY <1>0, <3>3 DEF Proceeds, Sets
    <3> QED BY <2>1, <3>1, <3>2, <3>3
  <2>5. job'[u][o][j] = "started" => work'[u][o][j] \in {"picked", "busy", "decremented"}
    BY <1>0, <2>1 DEF Takes, EndsWell, EndsBadly, CountsOut, Proceeds, Marks, Sets, FinishedJob, JobsBelong
  <2>6. \/ work'[u][o][j] = "decremented" => op[u][o].plan = CleanupKinds
        \/ j # "final"
    <3>1. CASE CountsOut(u, o, j)
      <4>1. op[u][o].plan # {}
        BY <2>2, <3>1 DEF JobsBelong
      <4>2. op[u][o].plan \subseteq CleanupKinds
        BY <3>1 DEF CountsOut
      <4> QED BY <4>1, <4>2 DEF ChainBegun, AllocKinds, CleanupKinds
    <3>2. CASE ~CountsOut(u, o, j)
      BY <1>0, <2>1, <3>2 DEF Takes, EndsWell, EndsBadly, Proceeds, Sets
    <3> QED BY <3>1, <3>2
  <2> QED BY <2>2, <2>3, <2>4, <2>5, <2>6 DEF JobsBelong, Untouched
<1> QED BY <1>1, <1>3, <1>4, <1>5, <1>6, <1>8, <1>9, <1>10, <1>11 DEF ChainStep

\* The operation builds the unit, or it cleans it up and the sandbox is gone.
Builds(u, o) == op[u][o].plan # {} /\ op[u][o].plan \subseteq AllocKinds
CleansUp(u, o) ==
  \/ op[u][o].plan = CleanupKinds
  \/ op[u][o].kind \in {"cleanup", "force"} /\ op[u][o].pc = "queued"

\* The rows of the stages of the chain are its own, and say how the stages ended.
OwnRows(u, o) ==
  /\ u \in units
  /\ \A k \in op[u][o].plan :
       /\ row[u][k].run = o
       /\ work[u][o][k] = "succeeded" => row[u][k].st = "done"
       /\ work[u][o][k] = "exc" => row[u][k].st = "failed"

\* What an operation under way knows of the sandbox; a restart skips only stages
\* that are done.
OwnSandbox(u, o) ==
  /\ Builds(u, o) \/ op[u][o].pc = "restage" => sandbox[u] = o /\ ~ready[u]
  /\ Builds(u, o) => \A k \in AllocKinds \ op[u][o].plan : row[u][k].st = "done"
  /\ CleansUp(u, o) => sandbox[u] = 0 /\ ~ready[u]
  /\ op[u][o].kind \in {"cleanup", "force"} /\ op[u][o].pc \in {"cancel", "delete"} =>
       op[u][o].sb = sandbox[u]

\* A cleanup that has removed the stack has removed it.
CloudGoes(u, o) ==
  "init" \notin Faults /\ op[u][o].plan = CleanupKinds /\ work[u][o]["cstack"] = "succeeded" => ~cloud[u]

Owns(u, o) == OwnRows(u, o) /\ OwnSandbox(u, o) /\ CloudGoes(u, o)

\* A stage about to be cancelled is not done: it belongs to an operation that rests,
\* or comes after a stage that has failed.
LeftWaits(u) ==
  \A c \in Cancellers : \A s \in left[u][c] :
    /\ row[u][s[1]].run = s[2] => row[u][s[1]].st # "done"
    /\ c[2] = "web" => s[2] # c[1]
    /\ c[2] # "web" => /\ s[2] = c[1] /\ s[1] \in op[u][c[1]].plan /\ c[2] \in op[u][c[1]].plan
                       /\ Rank[c[2]] < Rank[s[1]] /\ work[u][c[1]][c[2]] = "ended"

\* What the sandbox says of the rows, and the rows of the cloud.
SandboxTrue(u) ==
  /\ ready[u] => sandbox[u] # 0 /\ \A k \in AllocKinds : row[u][k].st = "done"
  /\ sandbox[u] # 0 /\ row[u]["stack"].st = "done" => cloud[u]
  /\ "init" \notin Faults /\ u \notin units => ~cloud[u]

Orderly(u) ==
  LeftWaits(u) /\ SandboxTrue(u) /\ \A o \in Ops : Rested(u, o) \/ Owns(u, o)

-----------------------------------------------------------------------------
(* What the operation under way may rely on. *)

\* What is stored of a unit, the operations and jobs apart.
SameState(u) ==
  /\ \A k \in Kinds : row'[u][k].run = row[u][k].run /\ row'[u][k].st = row[u][k].st
  /\ LeftKept(u)
  /\ sandbox'[u] = sandbox[u] /\ ready'[u] = ready[u] /\ cloud'[u] = cloud[u]
  /\ u \in units' <=> u \in units

\* The step is on behalf of operation o.
OnlyOf(u, o) == \A p \in Ops : p # o => op'[u][p] = op[u][p] /\ work'[u][p] = work[u][p]

\* Nothing of unit u changes.
LEMMA OrderlyElsewhere ==
  ASSUME TypeOK, NEW u \in Units, Orderly(u), SameState(u), op'[u] = op[u], job'[u] = job[u], work'[u] = work[u]
  PROVE  Orderly(u)'
<1>0. /\ \A k \in Kinds : row'[u][k].run = row[u][k].run /\ row'[u][k].st = row[u][k].st
      /\ \A c \in Cancellers : left'[u][c] = left[u][c]
      /\ AllocKinds \subseteq Kinds /\ "stack" \in Kinds
      /\ \A o \in Ops : op[u][o].plan \subseteq Kinds
  BY DEF SameState, LeftKept, TypeOK, Op, Kinds, AllocKinds
<1>1. ASSUME NEW o \in Ops PROVE (Rested(u, o) => Rested(u, o)') /\ (Owns(u, o) => Owns(u, o)')
  <2>1. Rested(u, o) => Rested(u, o)'
    BY <1>0 DEF Rested
  <2>2. OwnRows(u, o) => OwnRows(u, o)'
    BY <1>0 DEF OwnRows, SameState
  <2>3. OwnSandbox(u, o) => OwnSandbox(u, o)'
    BY <1>0 DEF OwnSandbox, SameState, Builds, CleansUp
  <2>4. CloudGoes(u, o) => CloudGoes(u, o)'
    BY DEF CloudGoes, SameState
  <2> QED BY <2>1, <2>2, <2>3, <2>4 DEF Owns
<1>2. LeftWaits(u)'
  <2> SUFFICES ASSUME NEW c \in Cancellers, NEW s \in left[u][c]
               PROVE  /\ row'[u][s[1]].run = s[2] => row'[u][s[1]].st # "done"
                      /\ c[2] = "web" => s[2] # c[1]
                      /\ c[2] # "web" => /\ s[2] = c[1] /\ s[1] \in op'[u][c[1]].plan
                                         /\ c[2] \in op'[u][c[1]].plan
                                         /\ Rank[c[2]] < Rank[s[1]] /\ work'[u][c[1]][c[2]] = "ended"
    BY <1>0 DEF LeftWaits
  <2>1. s[1] \in Kinds
    BY Pairs DEF TypeOK
  <2> QED BY <1>0, <2>1 DEF Orderly, LeftWaits
<1>3. SandboxTrue(u)'
  BY <1>0 DEF Orderly, SandboxTrue, SameState
<1> QED BY <1>1, <1>2, <1>3 DEF Orderly

\* A step of operation o that changes nothing but its place and the work on its jobs,
\* and ends no stage.
LEMMA CalmStep ==
  ASSUME TypeOK, NEW u \in Units, Orderly(u), NEW o \in Ops, ~Rested(u, o),
         \A p \in Ops : p # o => Rested(u, p)',
         SameState(u), OnlyOf(u, o), KeepsPlan(u, o),
         \A k \in Kinds : \/ work'[u][o][k] = work[u][o][k]
                          \/ work'[u][o][k] \notin {"succeeded", "exc"} /\ work[u][o][k] # "ended",
         op'[u][o].pc \in {"restage", "queued"} => op'[u][o].pc = op[u][o].pc,
         op'[u][o].pc \in {"cancel", "delete"} => op[u][o].pc \in {"cancel", "delete"}
  PROVE  Orderly(u)'
<1>0. /\ \A k \in Kinds : row'[u][k].run = row[u][k].run /\ row'[u][k].st = row[u][k].st
      /\ \A c \in Cancellers : left'[u][c] = left[u][c]
      /\ AllocKinds \subseteq Kinds /\ "stack" \in Kinds /\ "cstack" \in Kinds
      /\ \A p \in Ops : op[u][p].plan \subseteq Kinds /\ op'[u][p].plan = op[u][p].plan
  <2>1. \A p \in Ops : op[u][p].plan \subseteq Kinds
    BY DEF TypeOK, Op
  <2>2. \A p \in Ops : op'[u][p].plan = op[u][p].plan
    BY DEF OnlyOf, KeepsPlan
  <2>3. AllocKinds \subseteq Kinds /\ "stack" \in Kinds /\ "cstack" \in Kinds
    BY DEF Kinds, AllocKinds, CleanupKinds
  <2> QED BY <2>1, <2>2, <2>3 DEF SameState, LeftKept
<1>1. Owns(u, o)'
  <2>1. OwnRows(u, o) /\ OwnSandbox(u, o) /\ CloudGoes(u, o)
    BY DEF Orderly, Owns
  <2>2. OwnRows(u, o)'
    BY <1>0, <2>1 DEF OwnRows, SameState
  <2>3. OwnSandbox(u, o)'
    BY <1>0, <2>1 DEF OwnSandbox, SameState, Builds, CleansUp, KeepsPlan
  <2>4. CloudGoes(u, o)'
    BY <1>0, <2>1 DEF CloudGoes, SameState
  <2> QED BY <2>2, <2>3, <2>4 DEF Owns
<1>2. LeftWaits(u)'
  <2> SUFFICES ASSUME NEW c \in Cancellers, NEW s \in left[u][c]
               PROVE  /\ row'[u][s[1]].run = s[2] => row'[u][s[1]].st # "done"
                      /\ c[2] = "web" => s[2] # c[1]
                      /\ c[2] # "web" => /\ s[2] = c[1] /\ s[1] \in op'[u][c[1]].plan
                                         /\ c[2] \in op'[u][c[1]].plan
                                         /\ Rank[c[2]] < Rank[s[1]] /\ work'[u][c[1]][c[2]] = "ended"
    BY <1>0 DEF LeftWaits
  <2>1. s[1] \in Kinds /\ c[1] \in Ops /\ (c[2] # "web" => c[2] \in Kinds)
    BY Pairs DEF TypeOK, Cancellers
  <2>2. c[2] # "web" /\ work[u][c[1]][c[2]] = "ended" => work'[u][c[1]][c[2]] = "ended"
    BY <2>1 DEF OnlyOf
  <2> QED BY <1>0, <2>1, <2>2 DEF Orderly, LeftWaits
<1>3. SandboxTrue(u)'
  BY <1>0 DEF Orderly, SandboxTrue, SameState
<1> QED BY <1>1, <1>2, <1>3 DEF Orderly

\* Operation o of unit u is the one under way.
Acts(u, o) ==
  /\ Protected /\ InOrder /\ Orderly(u)
  /\ \A p \in Ops : JobsBelong(u, p)
  /\ ~Rested(u, o)
  /\ \A p \in Ops : p # o => Rested(u, p) /\ Rested(u, p)'

\* What may be said of the operation under way.
LEMMA ActorOwns ==
  ASSUME NEW u \in Units, NEW o \in Ops, Acts(u, o)
  PROVE  /\ OwnRows(u, o) /\ OwnSandbox(u, o) /\ CloudGoes(u, o)
         /\ \A c \in Cancellers : c[1] # o => left[u][c] = {}
         /\ ChainBegun(u, o) /\ JobsInOrder(u, o) /\ JobsBelong(u, o) /\ RowsMatch(u, o)
<1>1. \A c \in Cancellers : c[1] \in Ops
  BY DEF Cancellers
<1>2. \A c \in Cancellers : c[1] # o => left[u][c] = {}
  BY <1>1 DEF Acts, Rested
<1> QED BY <1>2 DEF Acts, Orderly, Owns, InOrder, ChainInOrder, RowsInOrder

\* Before its stages are handed out, an operation that cancels nothing has nothing
\* left to cancel.
LEMMA NothingLeft ==
  ASSUME NEW u \in Units, NEW o \in Ops, Acts(u, o),
         op[u][o].pc \in {"delete", "queued", "restage", "enqueue", "setid"}
  PROVE  \A c \in Cancellers : left[u][c] = {}
<1> SUFFICES ASSUME NEW c \in Cancellers, left[u][c] # {} PROVE FALSE
  OBVIOUS
<1>1. c = <<o, c[2]>> /\ c[2] \in Kinds \union {"web"}
  BY ActorOwns DEF Cancellers
<1>2. c[2] # "web"
  BY <1>1 DEF Acts, Protected, Cancelling
<1>3. work[u][o][c[2]] = "ended"
  BY <1>1, <1>2 DEF Acts, Orderly, LeftWaits
<1>4. \A j \in Jobs : work[u][o][j] = "idle"
  BY ActorOwns DEF ChainBegun, Unstarted, Enqueueing
<1> QED BY <1>1, <1>2, <1>3, <1>4, KindValues

\* It is enough to look at the operation that acts.
LEMMA ActorOrderly ==
  ASSUME NEW u \in Units, NEW o \in Ops, Acts(u, o), LeftWaits(u)', SandboxTrue(u)', Rested(u, o)' \/ Owns(u, o)'
  PROVE  Orderly(u)'
  BY DEF Acts, Orderly

\* The same for a step with nothing to cancel.
LEMMA LeftStaysEmpty ==
  ASSUME NEW u \in Units, left' = left, \A c \in Cancellers : left[u][c] = {}
  PROVE  LeftWaits(u)'
  BY DEF LeftWaits

-----------------------------------------------------------------------------
(* The web request goes on, and the orchestration job. *)

\* A step that only moves the operation on.
LEMMA PcOrderly ==
  ASSUME TypeOK, NEW u \in Units, NEW o \in Ops, Acts(u, o), NEW pc, SetPc(u, o, pc),
         pc \in {"restage", "queued"} => pc = op[u][o].pc,
         pc \in {"cancel", "delete"} => op[u][o].pc \in {"cancel", "delete"},
         UNCHANGED <<units, sandbox, ready, row, work, left, cloud>>
  PROVE  Orderly(u)'
<1>1. Goes(u, o, pc) /\ OnlyOf(u, o)
  BY PcAt DEF OnlyOf
<1>2. SameState(u)
  BY DEF SameState, LeftKept
<1> QED BY <1>1, <1>2, CalmStep DEF Goes, Acts

LEMMA FailOrderly ==
  ASSUME TypeOK, NEW u \in Units, NEW o \in Ops, Acts(u, o), FailOrchestration(u, o)
  PROVE  Orderly(u)'
  BY PcOrderly DEF FailOrchestration

\* A cleanup that was asked for deletes the sandbox it has read, or fails.
LEMMA ContinuesOrderly ==
  ASSUME TypeOK, NEW u \in Units, NEW o \in Ops, Acts(u, o), WebContinues(u, o)
  PROVE  Orderly(u)'
<1>1. CASE CancelDone(u, o)
  BY <1>1, PcOrderly DEF CancelDone
<1>2. CASE DeleteSandbox(u, o) /\ UNCHANGED <<sandbox, ready>>
  <2>1. op[u][o].pc = "delete" /\ \E pc \in {"failed", "queued"} : SetPc(u, o, pc)
    BY <1>2 DEF DeleteSandbox
  <2>2. CASE SetPc(u, o, "failed")
    BY <1>2, <2>2, PcOrderly DEF DeleteSandbox
  <2>3. CASE SetPc(u, o, "queued")
    <3>1. Goes(u, o, "queued") /\ OnlyOf(u, o)
      BY <1>2, <2>3, PcAt DEF OnlyOf, DeleteSandbox
    <3>2. OwnRows(u, o) /\ OwnSandbox(u, o) /\ CloudGoes(u, o)
      BY ActorOwns
    <3>3. UNCHANGED <<units, row, work, left, cloud>>
      BY <1>2 DEF DeleteSandbox
    <3>4. op[u][o].kind \in {"cleanup", "force"} => sandbox[u] = 0 /\ ~ready[u]
      <4> SUFFICES ASSUME op[u][o].kind \in {"cleanup", "force"} PROVE sandbox[u] = 0 /\ ~ready[u]
        OBVIOUS
      <4>1. op[u][o].sb = sandbox[u]
        BY <2>1, <3>2 DEF OwnSandbox
      <4>2. sandbox'[u] = 0 \/ (sandbox[u] = 0)
        <5>1. ~(op[u][o].sb # 0 /\ locked[u])
          <6> SUFFICES ASSUME op[u][o].sb # 0, locked[u] PROVE FALSE
            OBVIOUS
          <6>1. SetPc(u, o, "failed")
            BY <1>2, <4>1 DEF DeleteSandbox
          <6>2. Goes(u, o, "failed")
            BY <6>1, PcAt
          <6> QED BY <3>1, <6>2 DEF Goes
        <5> QED BY <1>2, <4>1, <5>1 DEF DeleteSandbox, TypeOK
      <4>3. SandboxTrue(u)
        BY DEF Acts, Orderly
      <4> QED BY <1>2, <4>2, <4>3 DEF SandboxTrue
    <3>5. Owns(u, o)'
      BY <1>2, <2>1, <3>1, <3>2, <3>3, <3>4 DEF Owns, OwnRows, OwnSandbox, CloudGoes, Goes, KeepsPlan,
         Builds, CleansUp
    <3>6. LeftWaits(u)'
      BY <2>1, <3>3, NothingLeft, LeftStaysEmpty
    <3>7. SandboxTrue(u)'
      BY <1>2, <3>3 DEF Acts, Orderly, SandboxTrue
    <3> QED BY <3>5, <3>6, <3>7, ActorOrderly
  <2> QED BY <2>1, <2>2, <2>3
<1>3. CASE DeleteSandbox(u, o) /\ ~UNCHANGED <<sandbox, ready>>
  <2>1. /\ op[u][o].pc = "delete" /\ SetPc(u, o, "queued")
        /\ UNCHANGED <<units, row, work, left, cloud>>
    BY <1>3 DEF DeleteSandbox
  <2>2. Goes(u, o, "queued")
    BY <2>1, PcAt
  <2>3. sandbox'[u] = 0 /\ ready'[u] = FALSE
    <3>1. op[u][o].sb # 0 /\ op[u][o].sb = sandbox[u]
      <4> SUFFICES ASSUME ~(op[u][o].sb # 0 /\ op[u][o].sb = sandbox[u]) PROVE FALSE
        OBVIOUS
      <4>1. sandbox' = [sandbox EXCEPT ![u] = sandbox[u]] /\ ready' = [ready EXCEPT ![u] = ready[u]]
        BY <1>3 DEF DeleteSandbox
      <4>2. sandbox' = sandbox /\ ready' = ready
        BY <4>1 DEF TypeOK
      <4> QED BY <1>3, <4>2
    <3> QED BY <1>3, <3>1 DEF DeleteSandbox, TypeOK
  <2>4. OwnRows(u, o) /\ CloudGoes(u, o) /\ ChainBegun(u, o)
    BY ActorOwns
  <2>5. op[u][o].plan = {}
    BY <2>1, <2>4 DEF ChainBegun, Unstarted
  <2>6. Owns(u, o)'
    BY <2>1, <2>2, <2>3, <2>4, <2>5 DEF Owns, OwnRows, OwnSandbox, CloudGoes, Goes, KeepsPlan,
         Builds, CleansUp, CleanupKinds
  <2>7. LeftWaits(u)'
    BY <2>1, NothingLeft, LeftStaysEmpty
  <2>8. SandboxTrue(u)'
    BY <2>1, <2>3 DEF Acts, Orderly, SandboxTrue
  <2> QED BY <2>6, <2>7, <2>8, ActorOrderly
<1> QED BY <1>1, <1>2, <1>3 DEF WebContinues

\* A chain is begun: its rows are new, and nothing is left of an earlier one.
LEMMA StartOrderly ==
  ASSUME TypeOK, NEW u \in Units, NEW o \in Ops, Acts(u, o), NEW S,
         op[u][o].pc \in {"queued", "restage"},
         S = AllocKinds \/ S = CleanupKinds \/ ("user" \in S /\ S \subseteq AllocKinds),
         Restage(u, o, S), StartChain(u, o, S), left' = left, work' = work, cloud' = cloud,
         u \in units => u \in units',
         S \subseteq AllocKinds => /\ sandbox'[u] = o /\ ~ready'[u]
                                   /\ \A k \in AllocKinds \ S : row[u][k].st = "done"
                                   /\ "stack" \notin S => cloud[u],
         ~(S \subseteq AllocKinds) => sandbox'[u] = 0 /\ ~ready'[u]
  PROVE  Orderly(u)'
<1> USE KindValues
<1>1. op[u][o] \in Op /\ o \in Ops /\ S \subseteq Kinds /\ row[u] \in [Kinds -> Row]
  BY DEF TypeOK
<1>2. op'[u][o].pc = "enqueue" /\ op'[u][o].plan = S
  BY <1>1 DEF StartChain, TypeOK, Op
<1>3. \A k \in Kinds : row'[u][k] = IF k \in S THEN NewRow(o) ELSE row[u][k]
  BY <1>1 DEF Restage, TypeOK
<1>4. OwnRows(u, o) /\ \A j \in Jobs : work[u][o][j] = "idle"
  BY ActorOwns DEF ChainBegun, Unstarted
<1>5. OwnRows(u, o)'
  BY <1>1, <1>2, <1>3, <1>4 DEF OwnRows, NewRow
<1>6. S = CleanupKinds <=> ~(S \subseteq AllocKinds)
  BY DEF AllocKinds, CleanupKinds
<1>7. OwnSandbox(u, o)'
  BY <1>1, <1>2, <1>3, <1>6 DEF OwnSandbox, Builds, CleansUp
<1>8. CloudGoes(u, o)'
  BY <1>2, <1>4 DEF CloudGoes, CleanupKinds
<1>9. LeftWaits(u)'
  BY NothingLeft, LeftStaysEmpty
<1>10. SandboxTrue(u)'
  <2>1. "stack" \in AllocKinds /\ "stack" \in Kinds
    BY DEF AllocKinds, Kinds
  <2>2. sandbox'[u] # 0 => S \subseteq AllocKinds
    OBVIOUS
  <2>3. ~ready'[u]
    OBVIOUS
  <2>4. sandbox'[u] # 0 /\ row'[u]["stack"].st = "done" => cloud'[u]
    BY <1>3, <2>1, <2>2 DEF NewRow
  <2>5. u \in units'
    BY <1>4 DEF OwnRows
  <2> QED BY <2>3, <2>4, <2>5 DEF SandboxTrue
<1> QED BY <1>5, <1>7, <1>8, <1>9, <1>10, ActorOrderly DEF Owns

LEMMA OrchestrationOrderly ==
  ASSUME TypeOK, NEW u \in Units, NEW o \in Ops, Acts(u, o), Orchestration(u, o)
  PROVE  Orderly(u)'
<1> USE KindValues
<1>1. CASE CreateAllocationJobs(u, o)
  <2>1. /\ op[u][o].pc = "queued" /\ sandbox' = [sandbox EXCEPT ![u] = o]
        /\ ready' = [ready EXCEPT ![u] = FALSE] /\ Restage(u, o, AllocKinds) /\ StartChain(u, o, AllocKinds)
        /\ UNCHANGED <<units, work, left, cloud>>
    BY <1>1 DEF CreateAllocationJobs, Orchestrates
  <2>2. sandbox'[u] = o /\ ~ready'[u] /\ "stack" \in AllocKinds
    BY <2>1 DEF TypeOK, AllocKinds
  <2> QED BY <2>1, <2>2, StartOrderly
<1>2. CASE ReplaceSandbox(u, o)
  <2>1. CASE FailOrchestration(u, o)
    BY <2>1, FailOrderly
  <2>2. CASE ~FailOrchestration(u, o)
    <3>1. /\ op[u][o].pc = "queued" /\ op[u][o].kind = "restart" /\ sandbox[u] # 0
          /\ sandbox' = [sandbox EXCEPT ![u] = o] /\ ready' = [ready EXCEPT ![u] = FALSE]
          /\ SetPc(u, o, "restage") /\ UNCHANGED <<units, row, work, left, cloud>>
      BY <1>2, <2>2 DEF ReplaceSandbox, Orchestrates
    <3>2. Goes(u, o, "restage") /\ sandbox'[u] = o /\ ~ready'[u]
      BY <3>1, PcAt DEF TypeOK
    <3>3. OwnRows(u, o) /\ ChainBegun(u, o)
      BY ActorOwns
    <3>4. op'[u][o].plan = {} /\ op'[u][o].kind = "restart" /\ op'[u][o].pc = "restage"
      BY <3>1, <3>2, <3>3 DEF ChainBegun, Unstarted, Goes, KeepsPlan
    <3>5. Owns(u, o)'
      BY <3>1, <3>2, <3>3, <3>4 DEF Owns, OwnRows, OwnSandbox, CloudGoes, Builds, CleansUp, CleanupKinds
    <3>6. LeftWaits(u)'
      BY <3>1, NothingLeft, LeftStaysEmpty
    <3>7. SandboxTrue(u)'
      BY <3>1, <3>2 DEF Acts, Orderly, SandboxTrue
    <3> QED BY <3>5, <3>6, <3>7, ActorOrderly
  <2> QED BY <2>1, <2>2
<1>3. CASE RestartStageHandlers(u, o)
  <2>1. CASE FailOrchestration(u, o)
    BY <2>1, FailOrderly
  <2>2. CASE ~FailOrchestration(u, o)
    <3>1. /\ op[u][o].pc = "restage" /\ HasStages(u, AllocKinds) /\ IsFinished(u, AllocKinds)
          /\ Restage(u, o, FailedStages(u)) /\ StartChain(u, o, FailedStages(u))
          /\ UNCHANGED <<units, sandbox, ready, work, left, cloud>>
      BY <1>3, <2>2 DEF RestartStageHandlers, Orchestrates
    <3>2. sandbox[u] = o /\ ~ready[u] /\ o # 0
      BY <3>1, ActorOwns DEF OwnSandbox, Ops
    <3>3. "user" \in FailedStages(u) /\ FailedStages(u) \subseteq AllocKinds
      BY DEF FailedStages, AllocKinds
    <3>4. \A k \in AllocKinds \ FailedStages(u) : row[u][k].st = "done"
      <4> SUFFICES ASSUME NEW k \in AllocKinds, k \notin FailedStages(u) PROVE row[u][k].st = "done"
        OBVIOUS
      <4>1. row[u][k].run # 0
        BY <3>1 DEF HasStages, Rows
      <4>2. row[u][k].st \notin {"new", "running"}
        BY <3>1, <4>1 DEF IsFinished, Unfinished, Rows
      <4>3. row[u][k].st # "failed"
        BY DEF FailedStages, AllocKinds
      <4>4. row[u][k].st \in RowState
        BY DEF TypeOK, Row
      <4> QED BY <4>2, <4>3, <4>4 DEF RowState
    <3>5. "stack" \notin FailedStages(u) => cloud[u]
      <4>1. "stack" \in AllocKinds
        BY DEF AllocKinds
      <4> QED BY <3>2, <3>4, <4>1 DEF Acts, Orderly, SandboxTrue
    <3> DEFINE S == FailedStages(u)
    <3>6. S = FailedStages(u)
      OBVIOUS
    <3> HIDE DEF S
    <3> QED BY <3>1, <3>2, <3>3, <3>4, <3>5, <3>6, StartOrderly
  <2> QED BY <2>1, <2>2
<1>4. CASE CreateCleanupJobs(u, o)
  <2>1. CASE FailOrchestration(u, o)
    BY <2>1, FailOrderly
  <2>2. CASE ~FailOrchestration(u, o)
    <3>1. /\ op[u][o].pc = "queued" /\ op[u][o].kind \in {"cleanup", "force"}
          /\ Restage(u, o, CleanupKinds) /\ StartChain(u, o, CleanupKinds)
          /\ UNCHANGED <<units, sandbox, ready, work, left, cloud>>
      BY <1>4, <2>2 DEF CreateCleanupJobs, Orchestrates
    <3>2. sandbox[u] = 0 /\ ~ready[u]
      BY <3>1, ActorOwns DEF OwnSandbox, CleansUp
    <3>3. ~(CleanupKinds \subseteq AllocKinds)
      BY DEF CleanupKinds, AllocKinds
    <3> QED BY <3>1, <3>2, <3>3, StartOrderly
  <2> QED BY <2>1, <2>2
<1>5. CASE EnqueueStage(u, o)
  BY <1>5, PcOrderly DEF EnqueueStage
<1>6. CASE EnqueueFinalizer(u, o)
  BY <1>6, PcOrderly DEF EnqueueFinalizer
<1>7. CASE SetJobId(u, o)
  <2>1. CASE FailOrchestration(u, o)
    BY <2>1, FailOrderly
  <2>2. CASE ~FailOrchestration(u, o)
    <3>1. PICK k \in First(op[u][o].todo) :
            /\ row' = [row EXCEPT ![u][k].rq = TRUE]
            /\ op' = [op EXCEPT ![u][o] = [@ EXCEPT !.pc = "enqueue", !.todo = op[u][o].todo \ {k}]]
      BY <1>7, <2>2 DEF SetJobId
    <3>2. UNCHANGED <<units, sandbox, ready, work, left, cloud>>
      BY <1>7, <2>2 DEF SetJobId
    <3>3. op[u][o] \in Op
      BY DEF TypeOK
    <3> DEFINE r == [op[u][o] EXCEPT !.pc = "enqueue", !.todo = op[u][o].todo \ {k}]
    <3>4. /\ r.pc = "enqueue" /\ r.kind = op[u][o].kind /\ r.plan = op[u][o].plan
          /\ r.req = op[u][o].req /\ r.sb = op[u][o].sb
      BY <3>3 DEF Op
    <3>5. op' = [op EXCEPT ![u][o] = r]
      BY <3>1
    <3> HIDE DEF r
    <3>6. op'[u][o] = r /\ OnlyOf(u, o)
      <4>1. /\ op'[u][o] = r
            /\ \A v \in Units, p \in Ops : v # u \/ p # o => op'[v][p] = op[v][p]
        BY <3>5 DEF TypeOK
      <4> QED BY <3>2, <4>1 DEF OnlyOf
    <3>7. k \in Kinds
      BY <3>3 DEF First, Op
    <3>8. \A i \in Kinds : row[u][i] \in Row
      BY DEF TypeOK
    <3>9. \A i \in Kinds : row'[u][i] = IF i = k THEN [row[u][k] EXCEPT !.rq = TRUE] ELSE row[u][i]
      BY <3>1, <3>7 DEF TypeOK
    <3>10. SameState(u)
      BY <3>2, <3>7, <3>8, <3>9 DEF SameState, LeftKept, Row
    <3> QED BY <3>2, <3>4, <3>6, <3>10, CalmStep DEF KeepsPlan, Acts
  <2> QED BY <2>1, <2>2
<1> QED BY <1>1, <1>2, <1>3, <1>4, <1>5, <1>6, <1>7 DEF Orchestration

-----------------------------------------------------------------------------
(* The jobs of the chain. *)

\* A stage that is worked on has its own row, and nobody is about to cancel it.
LEMMA AtItsStage ==
  ASSUME TypeOK, NEW u \in Units, NEW o \in Ops, Acts(u, o), NEW k \in Kinds,
         work[u][o][k] \in {"picked", "busy", "exc"}
  PROVE  /\ k \in op[u][o].plan /\ row[u][k].run = o
         /\ op[u][o].pc \notin Unstarted
         /\ Builds(u, o) => k \in AllocKinds
         /\ ~Builds(u, o) => op[u][o].plan = CleanupKinds
         /\ \A i \in op[u][o].plan : Rank[i] < Rank[k] => row[u][i].st = "done"
         /\ \A c \in Cancellers : \A s \in left[u][c] : s[1] # k
<1> USE KindValues
<1>1. /\ OwnRows(u, o) /\ ChainBegun(u, o) /\ JobsBelong(u, o)
      /\ \A c \in Cancellers : c[1] # o => left[u][c] = {}
  BY ActorOwns
<1>2. k \in op[u][o].plan
  BY <1>1 DEF JobsBelong, Untouched
<1>3. op[u][o].pc \notin Unstarted
  BY <1>1 DEF ChainBegun
<1>4. op[u][o].plan = CleanupKinds \/ op[u][o].plan \subseteq AllocKinds
  BY <1>1, <1>2 DEF ChainBegun
<1>5. ASSUME NEW i \in op[u][o].plan, Rank[i] < Rank[k] PROVE work[u][o][i] = "succeeded"
  <2>1. StagesRunInOrder
    BY OrderFollows DEF Acts
  <2>2. work[u][o][k] # "idle"
    OBVIOUS
  <2> QED BY <1>2, <1>5, <2>1, <2>2 DEF StagesRunInOrder
<1>6. ASSUME NEW c \in Cancellers, NEW s \in left[u][c], s[1] = k PROVE FALSE
  <2>1. c = <<o, c[2]>> /\ c[2] \in Kinds \union {"web"} /\ left[u][c] # {}
    BY <1>1, <1>6 DEF Cancellers
  <2>2. c[2] # "web"
    <3> SUFFICES ASSUME c[2] = "web" PROVE FALSE
      OBVIOUS
    <3>1. op[u][o].pc = "cancel"
      BY <2>1 DEF Acts, Protected, Cancelling
    <3> QED BY <1>3, <3>1 DEF Unstarted
  <2>3. c[2] \in op[u][o].plan /\ Rank[c[2]] < Rank[k] /\ work[u][o][c[2]] = "ended"
    BY <1>6, <2>1, <2>2 DEF Acts, Orderly, LeftWaits
  <2> QED BY <1>5, <2>3
<1> QED BY <1>1, <1>2, <1>3, <1>4, <1>5, <1>6 DEF OwnRows, Builds, AllocKinds, CleanupKinds

\* A stage begins or ends: what becomes of its row, its work and the cloud.
LEMMA StageOrderly ==
  ASSUME TypeOK, NEW u \in Units, NEW o \in Ops, Acts(u, o), NEW k \in Kinds,
         work[u][o][k] \in {"picked", "busy"},
         NEW st, Saved(u, k, st), NEW w, SetWork(u, o, k, w), NEW c, cloud'[u] = c,
         w = "succeeded" => st = "done", w = "exc" => st = "failed",
         k \notin {"stack", "cstack"} => c = cloud[u],
         k = "stack" /\ st = "done" => c,
         k = "cstack" /\ "init" \notin Faults => (w = "succeeded" => ~c) /\ (cloud[u] \/ ~c),
         UNCHANGED <<units, sandbox, ready, op, left>>
  PROVE  Orderly(u)'
<1> USE KindValues
<1>0. "stack" \in AllocKinds /\ "cstack" \in CleanupKinds /\ "cstack" \notin AllocKinds /\ "stack" \notin CleanupKinds
  BY DEF AllocKinds, CleanupKinds
<1>1. /\ OwnRows(u, o) /\ OwnSandbox(u, o) /\ CloudGoes(u, o) /\ JobsBelong(u, o)
      /\ op[u][o].plan \subseteq Kinds
  BY ActorOwns DEF TypeOK, Op
<1>2. /\ k \in op[u][o].plan /\ row[u][k].run = o
      /\ Builds(u, o) => k \in AllocKinds
      /\ ~Builds(u, o) => op[u][o].plan = CleanupKinds
      /\ \A d \in Cancellers : \A s \in left[u][d] : s[1] # k
  BY AtItsStage
<1>3. \A p \in Ops, i \in Jobs : work'[u][p][i] = IF p = o /\ i = k THEN w ELSE work[u][p][i]
  BY WorkFrame
<1>4. row'[u][k].run = o /\ row'[u][k].st = st /\ \A i \in Kinds : i # k => row'[u][i] = row[u][i]
  BY <1>2 DEF Saved
<1>5. OwnRows(u, o)'
  BY <1>1, <1>3, <1>4 DEF OwnRows
<1>6. OwnSandbox(u, o)'
  <2>1. op'[u][o] = op[u][o] /\ sandbox'[u] = sandbox[u] /\ ready'[u] = ready[u]
    OBVIOUS
  <2>2. \A i \in AllocKinds \ op[u][o].plan : row'[u][i].st = row[u][i].st
    BY <1>2, <1>4
  <2> QED BY <1>1, <2>1, <2>2 DEF OwnSandbox, Builds, CleansUp
<1>7. CloudGoes(u, o)'
  <2> SUFFICES ASSUME "init" \notin Faults, op[u][o].plan = CleanupKinds, work'[u][o]["cstack"] = "succeeded"
               PROVE  ~cloud'[u]
    BY DEF CloudGoes
  <2>1. CASE k = "cstack"
    BY <1>3, <2>1
  <2>2. CASE k # "cstack"
    BY <1>0, <1>1, <1>2, <1>3, <2>2 DEF CloudGoes
  <2> QED BY <2>1, <2>2
<1>8. LeftWaits(u)'
  <2> SUFFICES ASSUME NEW d \in Cancellers, NEW s \in left[u][d]
               PROVE  /\ row'[u][s[1]].run = s[2] => row'[u][s[1]].st # "done"
                      /\ d[2] = "web" => s[2] # d[1]
                      /\ d[2] # "web" => /\ s[2] = d[1] /\ s[1] \in op[u][d[1]].plan
                                         /\ d[2] \in op[u][d[1]].plan
                                         /\ Rank[d[2]] < Rank[s[1]] /\ work'[u][d[1]][d[2]] = "ended"
    BY DEF LeftWaits
  <2>1. s[1] \in Kinds /\ s[1] # k /\ d[1] \in Ops /\ (d[2] # "web" => d[2] \in Kinds)
    BY <1>2, Pairs DEF TypeOK, Cancellers
  <2>2. LeftWaits(u)
    BY DEF Acts, Orderly
  <2>3. d[2] # "web" /\ work[u][d[1]][d[2]] = "ended" => work'[u][d[1]][d[2]] = "ended"
    <3>1. work[u][o][k] # "ended"
      OBVIOUS
    <3> QED BY <1>3, <2>1, <3>1
  <2> QED BY <1>4, <2>1, <2>2, <2>3 DEF LeftWaits
<1>9. SandboxTrue(u)'
  <2>1. SandboxTrue(u)
    BY DEF Acts, Orderly
  <2>2. ~ready[u]
    BY <1>1, <1>2 DEF OwnSandbox, CleansUp
  <2>3. sandbox[u] # 0 /\ row'[u]["stack"].st = "done" => cloud'[u]
    <3>1. CASE k = "stack"
      BY <1>4, <3>1
    <3>2. CASE k = "cstack"
      <4>1. sandbox[u] = 0
        BY <1>0, <1>1, <1>2, <3>2 DEF OwnSandbox, CleansUp
      <4> QED BY <4>1
    <3>3. CASE k \notin {"stack", "cstack"}
      BY <1>0, <1>4, <2>1, <3>3 DEF SandboxTrue
    <3> QED BY <3>1, <3>2, <3>3
  <2>4. u \in units'
    BY <1>1 DEF OwnRows
  <2> QED BY <2>2, <2>3, <2>4 DEF SandboxTrue
<1> QED BY <1>5, <1>6, <1>7, <1>8, <1>9, ActorOrderly DEF Owns

\* A stage begins, ends or fails.
LEMMA StagesOrderly ==
  ASSUME TypeOK, NEW u \in Units, NEW o \in Ops, Acts(u, o), NEW k \in Kinds,
         ExecuteStart(u, o, k) \/ ExecuteEnd(u, o, k) \/ ExecuteFail(u, o, k)
  PROVE  Orderly(u)'
<1>1. work[u][o][k] \in {"picked", "busy"}
  BY DEF ExecuteStart, ExecuteEnd, ExecuteFail
<1>2. row[u][k].run = o
  BY <1>1, AtItsStage
<1>3. ASSUME NEW st, SaveStage(u, o, k, st) PROVE Saved(u, k, st)
  BY <1>3, RowAtMost DEF SaveStage
<1>4. cloud[u] \in BOOLEAN
  BY DEF TypeOK
<1>5. CASE ExecuteStart(u, o, k)
  <2>1. /\ SaveStage(u, o, k, "running") /\ SetWork(u, o, k, "busy")
        /\ cloud' = [cloud EXCEPT ![u] = @ \/ k = "stack"]
        /\ UNCHANGED <<units, sandbox, ready, op, left>>
    BY <1>2, <1>5 DEF ExecuteStart
  <2>2. cloud'[u] = (cloud[u] \/ k = "stack")
    BY <2>1 DEF TypeOK
  <2> QED BY <1>1, <1>3, <1>4, <2>1, <2>2, StageOrderly
<1>6. CASE ExecuteEnd(u, o, k)
  <2>1. /\ SaveStage(u, o, k, "done") /\ SetWork(u, o, k, "succeeded")
        /\ UNCHANGED <<units, sandbox, ready, op, left>>
    BY <1>2, <1>6 DEF ExecuteEnd
  <2>2. PICK c \in CloudAfter(u, k) : cloud' = [cloud EXCEPT ![u] = c]
    BY <1>6 DEF ExecuteEnd
  <2>3. cloud'[u] = c
    BY <2>2 DEF TypeOK
  <2>4. /\ k \notin {"stack", "cstack"} => c = cloud[u]
        /\ k = "stack" => c
        /\ k = "cstack" /\ "init" \notin Faults => ~c
    BY <2>2 DEF CloudAfter
  <2> QED BY <1>1, <1>3, <2>1, <2>3, <2>4, StageOrderly
<1>7. CASE ExecuteFail(u, o, k)
  <2>1. /\ SaveStage(u, o, k, "failed") /\ SetWork(u, o, k, "exc")
        /\ UNCHANGED <<units, sandbox, ready, op, left>>
    BY <1>2, <1>7 DEF ExecuteFail
  <2>2. PICK c \in (IF k = "stack" THEN {FALSE, cloud[u]} ELSE {cloud[u]}) : cloud' = [cloud EXCEPT ![u] = c]
    BY <1>7 DEF ExecuteFail
  <2>3. cloud'[u] = c /\ (k # "stack" => c = cloud[u])
    BY <2>2 DEF TypeOK
  <2> QED BY <1>1, <1>3, <1>4, <2>1, <2>3, StageOrderly
<1> QED BY <1>5, <1>6, <1>7

\* What follows a failure: the stages that waited for the one that failed.
LEMMA HandlerOrderly ==
  ASSUME TypeOK, NEW u \in Units, NEW o \in Ops, Acts(u, o), NEW k \in Kinds, RequestExceptionHandler(u, o, k)
  PROVE  Orderly(u)'
<1> USE KindValues
<1>1. /\ work[u][o][k] = "exc" /\ SetWork(u, o, k, "ended")
      /\ UNCHANGED <<units, sandbox, ready, op, row, cloud>>
  BY DEF RequestExceptionHandler
<1>2. PICK T : /\ left' = [left EXCEPT ![u][<<o, k>>] = T]
               /\ T = {} \/ T = Snapshot(u, RequestKinds(k))
  BY DEF RequestExceptionHandler
<1>3. /\ k \in op[u][o].plan /\ row[u][k].run = o
      /\ Builds(u, o) => k \in AllocKinds
      /\ ~Builds(u, o) => op[u][o].plan = CleanupKinds
      /\ \A i \in op[u][o].plan : Rank[i] < Rank[k] => row[u][i].st = "done"
  BY <1>1, AtItsStage
<1>4. /\ OwnRows(u, o) /\ OwnSandbox(u, o) /\ CloudGoes(u, o) /\ ChainBegun(u, o)
      /\ op[u][o].plan \subseteq Kinds
  BY ActorOwns DEF TypeOK, Op
<1>5. \A p \in Ops, i \in Jobs : work'[u][p][i] = IF p = o /\ i = k THEN "ended" ELSE work[u][p][i]
  BY <1>1, WorkFrame
<1>6. \A d \in Cancellers : left'[u][d] = IF d = <<o, k>> THEN T ELSE left[u][d]
  <2>1. <<o, k>> \in Cancellers
    BY CancellerValues
  <2>2. left' = [left EXCEPT ![u][<<o, k>>] = T]
    BY <1>2
  <2> QED BY <2>1, <2>2 DEF TypeOK
<1>7. ASSUME NEW s \in T
      PROVE  /\ s[1] \in op[u][o].plan /\ s[2] = o /\ Rank[k] < Rank[s[1]]
             /\ row[u][s[1]].st # "done"
  <2>1. PICK i \in RequestKinds(k) : /\ s = <<i, row[u][i].run>>
                                     /\ row[u][i].st \in {"new", "running"}
    BY <1>2, <1>7 DEF Snapshot, Unfinished, Rows
  <2>2. i \in op[u][o].plan
    <3>1. CASE Builds(u, o)
      BY <1>3, <1>4, <2>1, <3>1 DEF RequestKinds, OwnSandbox
    <3>2. CASE ~Builds(u, o)
      BY <1>3, <2>1, <3>2 DEF RequestKinds, AllocKinds, CleanupKinds
    <3> QED BY <3>1, <3>2
  <2>3. row[u][i].run = o
    BY <1>4, <2>2 DEF OwnRows
  <2>4. row[u][k].st = "failed"
    BY <1>1, <1>3, <1>4 DEF OwnRows
  <2>5. i # k /\ ~(Rank[i] < Rank[k])
    BY <1>3, <2>1, <2>2, <2>4
  <2>6. Rank[k] < Rank[i]
    BY <2>1, <2>5 DEF RequestKinds, Rank, Kinds, AllocKinds, CleanupKinds
  <2> QED BY <2>1, <2>2, <2>3, <2>6
<1>8. LeftWaits(u)'
  <2> SUFFICES ASSUME NEW d \in Cancellers, NEW s \in left'[u][d]
               PROVE  /\ row[u][s[1]].run = s[2] => row[u][s[1]].st # "done"
                      /\ d[2] = "web" => s[2] # d[1]
                      /\ d[2] # "web" => /\ s[2] = d[1] /\ s[1] \in op[u][d[1]].plan
                                         /\ d[2] \in op[u][d[1]].plan
                                         /\ Rank[d[2]] < Rank[s[1]] /\ work'[u][d[1]][d[2]] = "ended"
    BY <1>1 DEF LeftWaits
  <2>1. CASE d = <<o, k>>
    <3>1. s \in T /\ d[1] = o /\ d[2] = k
      BY <1>6, <2>1
    <3>2. k # "web"
      BY DEF Kinds, AllocKinds, CleanupKinds
    <3> QED BY <1>3, <1>5, <1>7, <3>1, <3>2
  <2>2. CASE d # <<o, k>>
    <3>1. s \in left[u][d]
      BY <1>6, <2>2
    <3>2. LeftWaits(u) /\ d[1] \in Ops /\ (d[2] # "web" => d[2] \in Kinds)
      BY DEF Acts, Orderly, Cancellers
    <3> QED BY <1>5, <3>1, <3>2 DEF LeftWaits
  <2> QED BY <2>1, <2>2
<1>9. Owns(u, o)'
  <2>1. OwnRows(u, o)'
    BY <1>1, <1>4, <1>5 DEF OwnRows
  <2>2. OwnSandbox(u, o)'
    BY <1>1, <1>4 DEF OwnSandbox, Builds, CleansUp
  <2>3. CloudGoes(u, o)'
    <3>1. "cstack" \in Jobs
      BY DEF Jobs, Kinds, CleanupKinds
    <3> QED BY <1>1, <1>4, <1>5, <3>1 DEF CloudGoes
  <2> QED BY <2>1, <2>2, <2>3 DEF Owns
<1>10. SandboxTrue(u)'
  BY <1>1 DEF Acts, Orderly, SandboxTrue
<1> QED BY <1>8, <1>9, <1>10, ActorOrderly

\* The work on a job changes, and no stage ends with it.
LEMMA WorkOrderly ==
  ASSUME TypeOK, NEW u \in Units, NEW o \in Ops, Acts(u, o), NEW j \in Jobs, NEW w, SetWork(u, o, j, w),
         j \in {"netbird", "final"} \/ (w \notin {"succeeded", "exc"} /\ work[u][o][j] # "ended"),
         UNCHANGED <<units, sandbox, ready, op, row, left, cloud>>
  PROVE  Orderly(u)'
<1>1. \A p \in Ops, i \in Jobs : work'[u][p][i] = IF p = o /\ i = j THEN w ELSE work[u][p][i]
  BY WorkFrame
<1>2. SameState(u)
  BY DEF SameState, LeftKept
<1>3. OnlyOf(u, o)
  <2> SUFFICES ASSUME NEW p \in Ops, p # o PROVE work'[u][p] = work[u][p]
    BY DEF OnlyOf
  <2> QED BY WorkAt
<1>4. KeepsPlan(u, o)
  BY DEF KeepsPlan
<1>5. "netbird" \notin Kinds /\ "final" \notin Kinds
  BY DEF Kinds, AllocKinds, CleanupKinds
<1>6. \A k \in Kinds : \/ work'[u][o][k] = work[u][o][k]
                       \/ work'[u][o][k] \notin {"succeeded", "exc"} /\ work[u][o][k] # "ended"
  BY <1>1, <1>5, KindValues
<1> QED BY <1>2, <1>3, <1>4, <1>6, CalmStep DEF Acts

\* When the finalizer of a chain has been reached, all else of the operation is over.
LEMMA AtTheEnd ==
  ASSUME TypeOK, "slow" \notin Faults, NEW u \in Units, NEW o \in Ops, Acts(u, o), Turn(u),
         job[u][o]["final"] = "queued" \/ work[u][o]["final"] = "decremented"
  PROVE  /\ op[u][o].pc \in {"done", "failed"}
         /\ op[u][o].plan # {}
         /\ \A k \in op[u][o].plan : work[u][o][k] = "succeeded"
         /\ \A j \in Jobs \ {"final"} : /\ job[u][o][j] \notin {"queued", "started"}
                                        /\ work[u][o][j] \in {"idle", "succeeded"}
         /\ \A j \in Jobs \ {"final"} : FinishedJob(job[u][o], Deps(u, o), "final")[j] = job[u][o][j]
         /\ \A c \in Cancellers : left[u][c] = {}
<1> USE KindValues
<1>1. /\ OwnRows(u, o) /\ ChainBegun(u, o) /\ JobsBelong(u, o) /\ JobsInOrder(u, o)
      /\ \A c \in Cancellers : c[1] # o => left[u][c] = {}
  BY ActorOwns
<1>2. Ran(u, o, "final")
  <2>1. work[u][o]["final"] = "decremented" => work[u][o]["final"] # "idle"
    OBVIOUS
  <2> QED BY <2>1 DEF Ran
<1>3. op[u][o].plan # {}
  BY <1>1 DEF JobsBelong, Untouched
<1>4. op[u][o].pc \in {"done", "failed"}
  <2>1. op[u][o].pc \notin Unstarted
    BY <1>1, <1>3 DEF ChainBegun
  <2>2. op[u][o].pc \notin Enqueueing
    BY NoTurn
  <2>3. op[u][o].pc \in OpPc
    BY DEF TypeOK, Op
  <2> QED BY <2>1, <2>2, <2>3 DEF OpPc, Unstarted, Enqueueing
<1>5. StagesRunInOrder
  BY OrderFollows DEF Acts
<1>6. \A k \in op[u][o].plan : work[u][o][k] = "succeeded"
  BY <1>2, <1>5 DEF StagesRunInOrder, Ran
<1>7. ASSUME NEW j \in Jobs, j # "final"
      PROVE  job[u][o][j] \notin {"queued", "started"} /\ work[u][o][j] \in {"idle", "succeeded"}
  <2>1. CASE work[u][o][j] = "succeeded"
    BY <1>1, <2>1 DEF JobsBelong, JobsInOrder
  <2>2. CASE Untouched(u, o, j)
    BY <2>2 DEF Untouched
  <2>3. CASE j \in Kinds
    BY <1>1, <1>6, <2>1, <2>2, <2>3 DEF JobsBelong
  <2>4. CASE j = "netbird"
    <3>1. CASE Netbird /\ op[u][o].plan \subseteq AllocKinds
      <4>1. "user" \in op[u][o].plan
        BY <1>1, <1>3, <3>1 DEF ChainBegun, AllocKinds, CleanupKinds
      <4>2. work[u][o]["user"] = "succeeded"
        BY <1>6, <4>1
      <4>3. work[u][o]["netbird"] = "succeeded"
        BY <1>5, <3>1, <4>1, <4>2 DEF StagesRunInOrder
      <4> QED BY <2>1, <2>4, <4>3
    <3>2. CASE ~(Netbird /\ op[u][o].plan \subseteq AllocKinds)
      BY <1>1, <2>2, <2>4, <3>2 DEF JobsBelong
    <3> QED BY <3>1, <3>2
  <2> QED BY <1>7, <2>3, <2>4 DEF Jobs
<1>8. ASSUME NEW j \in Jobs, j # "final"
      PROVE  FinishedJob(job[u][o], Deps(u, o), "final")[j] = job[u][o][j]
  <2>1. "final" \notin Deps(u, o)[j]
    <3>1. "final" \notin Kinds /\ op[u][o].plan \subseteq Kinds
      BY DEF Kinds, AllocKinds, CleanupKinds, TypeOK, Op
    <3> QED BY <3>1, DepsBefore
  <2>2. j \in DOMAIN job[u][o]
    BY DEF TypeOK
  <2> QED BY <1>8, <2>1, <2>2 DEF FinishedJob
<1>9. ASSUME NEW c \in Cancellers, left[u][c] # {} PROVE FALSE
  <2>1. c = <<o, c[2]>> /\ c[2] \in Kinds \union {"web"}
    BY <1>1, <1>9 DEF Cancellers
  <2>2. c[2] # "web"
    <3> SUFFICES ASSUME c[2] = "web" PROVE FALSE
      OBVIOUS
    <3>1. op[u][o].pc = "cancel"
      BY <1>9, <2>1 DEF Acts, Protected, Cancelling
    <3> QED BY <1>4, <3>1
  <2>3. c[2] \in op[u][o].plan /\ work[u][o][c[2]] = "ended"
    BY <1>9, <2>1, <2>2 DEF Acts, Orderly, LeftWaits
  <2> QED BY <1>6, <2>3
<1> QED BY <1>3, <1>4, <1>6, <1>7, <1>8, <1>9

\* After the finalizer the operation rests.
LEMMA RestsAtTheEnd ==
  ASSUME TypeOK, "slow" \notin Faults, NEW u \in Units, NEW o \in Ops, Acts(u, o), Turn(u),
         job[u][o]["final"] = "queued" \/ work[u][o]["final"] = "decremented",
         Succeed(u, o, "final"), SetWork(u, o, "final", "succeeded"), UNCHANGED <<op, left>>
  PROVE  Rested(u, o)' /\ LeftWaits(u)'
<1> USE KindValues
<1>1. /\ op[u][o].pc \in {"done", "failed"}
      /\ \A j \in Jobs \ {"final"} : /\ job[u][o][j] \notin {"queued", "started"}
                                     /\ work[u][o][j] \in {"idle", "succeeded"}
      /\ \A j \in Jobs \ {"final"} : FinishedJob(job[u][o], Deps(u, o), "final")[j] = job[u][o][j]
      /\ \A c \in Cancellers : left[u][c] = {}
  BY AtTheEnd
<1>2. \A i \in Jobs : work'[u][o][i] = IF i = "final" THEN "succeeded" ELSE work[u][o][i]
  BY WorkFrame
<1>3. job'[u][o] = FinishedJob(job[u][o], Deps(u, o), "final")
  BY SucceedAt
<1>4. job'[u][o]["final"] = "finished"
  <2>1. "final" \in DOMAIN job[u][o]
    BY DEF TypeOK
  <2> QED BY <1>3, <2>1 DEF FinishedJob
<1>5. LeftWaits(u)'
  BY <1>1, LeftStaysEmpty
<1>6. Rested(u, o)'
  BY <1>1, <1>2, <1>3, <1>4 DEF Rested
<1> QED BY <1>5, <1>6

\* Finalizers act on what the stages have left: the sandbox is theirs to make ready,
\* and the stack of a unit they delete is gone.
LEMMA ExecutionOrderly ==
  ASSUME TypeOK, "slow" \notin Faults, NEW u \in Units, NEW o \in Ops, Acts(u, o), Execution(u, o)
  PROVE  Orderly(u)'
<1> USE KindValues
<1>1. ASSUME NEW j \in Kinds \union {"netbird"}, TakeJob(u, o, j) PROVE Orderly(u)'
  <2>1. work[u][o][j] = "idle"
    BY <1>1, ActorOwns DEF TakeJob, JobsInOrder
  <2> QED BY <1>1, <2>1, WorkOrderly DEF TakeJob
<1>2. CASE ProvisionNetbird(u, o)
  BY <1>2, WorkOrderly DEF ProvisionNetbird
<1>3. CASE MarkSandboxAsReady(u, o)
  <2>1. CASE UNCHANGED <<sandbox, ready>> /\ SetWork(u, o, "final", "ended")
    BY <1>3, <2>1, WorkOrderly DEF MarkSandboxAsReady
  <2>2. CASE ~(UNCHANGED <<sandbox, ready>> /\ SetWork(u, o, "final", "ended"))
    <3>1. /\ op[u][o].plan \subseteq AllocKinds /\ job[u][o]["final"] = "queued" /\ Turn(u)
          /\ sandbox' = [sandbox EXCEPT ![u] = o] /\ ready' = [ready EXCEPT ![u] = TRUE]
          /\ Succeed(u, o, "final") /\ SetWork(u, o, "final", "succeeded")
          /\ UNCHANGED <<units, row, op, left, cloud>>
      BY <1>3, <2>2 DEF MarkSandboxAsReady
    <3>2. Rested(u, o)' /\ LeftWaits(u)'
      BY <3>1, RestsAtTheEnd
    <3>3. op[u][o].plan # {} /\ \A k \in op[u][o].plan : work[u][o][k] = "succeeded"
      BY <3>1, AtTheEnd
    <3>4. OwnRows(u, o) /\ OwnSandbox(u, o)
      BY ActorOwns
    <3>5. \A k \in AllocKinds : row[u][k].st = "done"
      BY <3>1, <3>3, <3>4 DEF OwnRows, OwnSandbox, Builds
    <3>6. sandbox[u] = o /\ o # 0
      BY <3>1, <3>3, <3>4 DEF OwnSandbox, Builds, Ops
    <3>7. sandbox'[u] = o
      BY <3>1 DEF TypeOK
    <3>8. SandboxTrue(u)'
      <4>1. SandboxTrue(u)
        BY DEF Acts, Orderly
      <4> QED BY <3>1, <3>5, <3>6, <3>7, <4>1 DEF SandboxTrue
    <3> QED BY <3>2, <3>8, ActorOrderly
  <2> QED BY <2>1, <2>2
<1>4. CASE DecrementPoolSize(u, o)
  <2>1. \E w : SetWork(u, o, "final", w)
    BY <1>4 DEF DecrementPoolSize
  <2> QED BY <1>4, <2>1, WorkOrderly DEF DecrementPoolSize
<1>5. CASE DeleteAllocationUnit(u, o)
  <2>1. CASE SetWork(u, o, "final", "ended") /\ UNCHANGED <<units, row>>
    BY <1>5, <2>1, WorkOrderly DEF DeleteAllocationUnit
  <2>2. CASE ~(SetWork(u, o, "final", "ended") /\ UNCHANGED <<units, row>>)
    <3>1. /\ work[u][o]["final"] = "decremented" /\ Turn(u) /\ sandbox[u] = 0
          /\ row' = [row EXCEPT ![u] = [k \in Kinds |-> NoRow]]
          /\ Succeed(u, o, "final") /\ SetWork(u, o, "final", "succeeded")
          /\ UNCHANGED <<sandbox, ready, op, left, cloud>>
      BY <1>5, <2>2 DEF DeleteAllocationUnit
    <3>2. Rested(u, o)' /\ LeftWaits(u)'
      BY <3>1, RestsAtTheEnd
    <3>3. \A k \in op[u][o].plan : work[u][o][k] = "succeeded"
      BY <3>1, AtTheEnd
    <3>4. CloudGoes(u, o) /\ op[u][o].plan = CleanupKinds
      BY <3>1, ActorOwns DEF JobsBelong
    <3>5. "init" \notin Faults => ~cloud[u]
      BY <3>3, <3>4 DEF CloudGoes, CleanupKinds
    <3>6. SandboxTrue(u)'
      <4>1. SandboxTrue(u)
        BY DEF Acts, Orderly
      <4> QED BY <3>1, <3>5, <4>1 DEF SandboxTrue
    <3> QED BY <3>2, <3>6, ActorOrderly
  <2> QED BY <2>1, <2>2
<1> QED BY <1>1, <1>2, <1>3, <1>4, <1>5, StagesOrderly, HandlerOrderly DEF Execution

\* What dies has changed nothing.
LEMMA CrashOrderly ==
  ASSUME TypeOK, NEW u \in Units, NEW o \in Ops, Acts(u, o), Crash(u, o)
  PROVE  Orderly(u)'
<1>1. ASSUME NEW j \in Jobs, CrashJob(u, o, j) PROVE Orderly(u)'
  <2>1. work[u][o][j] # "ended" /\ SetWork(u, o, j, "dead")
    BY <1>1 DEF CrashJob
  <2> QED BY <1>1, <2>1, WorkOrderly DEF CrashJob
<1> QED BY <1>1, FailOrderly DEF Crash, CrashOrchestration

-----------------------------------------------------------------------------
(* Cancellations. *)

\* A cancellation fails a stage that is not done, or gives up.
LEMMA CancelOrderly ==
  ASSUME TypeOK, NEW u \in Units, NEW c \in Cancellers, Acts(u, c[1]), CancelStage(u, c)
  PROVE  Orderly(u)'
<1> DEFINE o == c[1]
<1>0. o \in Ops /\ c = <<o, c[2]>>
  BY DEF Cancellers
<1>1. PICK s \in left[u][c] :
        \/ /\ row[u][s[1]].run = s[2] /\ SaveStage(u, s[2], s[1], "failed")
           /\ left' = [left EXCEPT ![u][c] = @ \ {s}] /\ UNCHANGED op
        \/ /\ left' = [left EXCEPT ![u][c] = {}] /\ UNCHANGED row
           /\ (c[2] = "web" /\ SetPc(u, c[1], "failed")) \/ UNCHANGED op
  BY Zenon DEF CancelStage
<1>2. UNCHANGED <<units, sandbox, ready, work, cloud>>
  BY DEF CancelStage
<1>3. /\ OwnRows(u, o) /\ OwnSandbox(u, o) /\ CloudGoes(u, o) /\ op[u][o].plan \subseteq Kinds
      /\ \A d \in Cancellers : d[1] # o => left[u][d] = {}
  BY <1>0, ActorOwns DEF TypeOK, Op
<1>4. LeftWaits(u) /\ SandboxTrue(u)
  BY <1>0 DEF Acts, Orderly
<1>5. s[1] \in Kinds
  BY <1>1, Pairs DEF TypeOK
<1>6. \A d \in Cancellers : left'[u][d] \subseteq left[u][d]
  <2>1. PICK T \in SUBSET left[u][c] : left' = [left EXCEPT ![u][c] = T]
    <3>1. left[u][c] \ {s} \in SUBSET left[u][c] /\ {} \in SUBSET left[u][c]
      OBVIOUS
    <3>2. CASE left' = [left EXCEPT ![u][c] = {}]
      BY <3>1, <3>2
    <3>3. CASE left' = [left EXCEPT ![u][c] = @ \ {s}]
      BY <3>1, <3>3
    <3> QED BY <1>1, <3>2, <3>3
  <2> QED BY <2>1 DEF TypeOK
<1>7. \A p \in Ops : op'[u][p].plan = op[u][p].plan
  <2>1. CASE SetPc(u, o, "failed")
    <3>1. op'[u][o].plan = op[u][o].plan
      BY <1>0, <2>1, PcAt DEF Goes, KeepsPlan
    <3>2. \A p \in Ops : p # o => op'[u][p] = op[u][p]
      BY <1>0, <2>1, PcAt
    <3> QED BY <3>1, <3>2
  <2> QED BY <1>1, <2>1
<1>8. \A k \in Kinds : /\ row'[u][k].run = row[u][k].run
                       /\ row'[u][k].st = row[u][k].st \/ (row[u][k].st # "done" /\ row'[u][k].st = "failed")
  <2>1. CASE UNCHANGED row
    BY <2>1
  <2>2. CASE row[u][s[1]].run = s[2] /\ SaveStage(u, s[2], s[1], "failed")
    <3>1. Saved(u, s[1], "failed")
      BY <1>5, <2>2, RowAtMost DEF SaveStage
    <3>2. row[u][s[1]].st # "done"
      BY <1>4, <2>2 DEF LeftWaits
    <3> QED BY <3>1, <3>2 DEF Saved
  <2> QED BY <1>1, <2>1, <2>2
<1>9. LeftWaits(u)'
  <2> SUFFICES ASSUME NEW d \in Cancellers, NEW t \in left'[u][d]
               PROVE  /\ row'[u][t[1]].run = t[2] => row'[u][t[1]].st # "done"
                      /\ d[2] = "web" => t[2] # d[1]
                      /\ d[2] # "web" => /\ t[2] = d[1] /\ t[1] \in op'[u][d[1]].plan
                                         /\ d[2] \in op'[u][d[1]].plan
                                         /\ Rank[d[2]] < Rank[t[1]] /\ work'[u][d[1]][d[2]] = "ended"
    BY DEF LeftWaits
  <2>1. t \in left[u][d]
    BY <1>6
  <2>2. t[1] \in Kinds /\ d[1] \in Ops
    BY <2>1, Pairs DEF TypeOK, Cancellers
  <2> QED BY <1>2, <1>4, <1>7, <1>8, <2>1, <2>2 DEF LeftWaits
<1>10. SandboxTrue(u)'
  <2>1. AllocKinds \subseteq Kinds /\ "stack" \in Kinds
    BY DEF Kinds, AllocKinds
  <2>2. \A k \in Kinds : row'[u][k].st = "done" <=> row[u][k].st = "done"
    BY <1>8
  <2> QED BY <1>2, <1>4, <2>1, <2>2 DEF SandboxTrue
<1>11. OwnRows(u, o)'
  BY <1>2, <1>3, <1>7, <1>0, <1>8 DEF OwnRows
<1>12. CloudGoes(u, o)'
  BY <1>0, <1>2, <1>3, <1>7 DEF CloudGoes
<1>13. OwnSandbox(u, o)'
  <2>1. AllocKinds \subseteq Kinds
    BY KindValues
  <2>2. \A k \in Kinds : row[u][k].st = "done" => row'[u][k].st = "done"
    BY <1>8
  <2>3. CASE UNCHANGED op
    BY <1>0, <1>2, <1>3, <2>1, <2>2, <2>3 DEF OwnSandbox, Builds, CleansUp
  <2>4. CASE SetPc(u, o, "failed")
    <3>1. Goes(u, o, "failed")
      BY <1>0, <2>4, PcAt
    <3> QED BY <1>0, <1>2, <1>3, <2>1, <2>2, <3>1 DEF OwnSandbox, Builds, CleansUp, Goes, KeepsPlan
  <2> QED BY <1>1, <2>3, <2>4
<1> QED BY <1>0, <1>9, <1>10, <1>11, <1>12, <1>13, ActorOrderly DEF Owns

-----------------------------------------------------------------------------
(* The web requests. *)

\* A request is recorded while the unit is quiet, perhaps with stages to cancel.
LEMMA AskOrderly ==
  ASSUME TypeOK, TypeOK', InOrder, NEW u \in Units, Orderly(u), \A p \in Ops : Rested(u, p),
         NEW o \in Ops, op[u][o].pc = "idle", NEW r, op' = [op EXCEPT ![u][o] = r],
         r.plan = {}, r.pc # "restage",
         r.kind \in {"cleanup", "force"} => r.pc # "queued" /\ (r.pc \in {"cancel", "delete"} => r.sb = sandbox[u]),
         left' = left \/ \E S : left' = [left EXCEPT ![u][<<o, "web">>] = Snapshot(u, S)],
         u \in units', UNCHANGED <<sandbox, ready, row, job, work, cloud>>
  PROVE  Orderly(u)'
<1>1. op'[u][o] = r /\ \A p \in Ops : p # o => op'[u][p] = op[u][p]
  BY DEF TypeOK
<1>2. \A d \in Cancellers : left[u][d] = {}
  <2>1. \A d \in Cancellers : d[1] \in Ops
    BY DEF Cancellers
  <2> QED BY <2>1 DEF Rested
<1>3. ASSUME NEW d \in Cancellers, left'[u][d] # {}
      PROVE  d = <<o, "web">> /\ \E S : left'[u][d] = Snapshot(u, S)
  <2>1. PICK S : left' = [left EXCEPT ![u][<<o, "web">>] = Snapshot(u, S)]
    BY <1>2, <1>3
  <2>2. <<o, "web">> \in Cancellers
    BY CancellerValues
  <2>3. /\ left'[u][<<o, "web">>] = Snapshot(u, S)
        /\ \A e \in Cancellers : e # <<o, "web">> => left'[u][e] = left[u][e]
    BY <2>1, <2>2 DEF TypeOK
  <2> QED BY <1>2, <1>3, <2>3
<1>4. ASSUME NEW p \in Ops, p # o PROVE Rested(u, p)'
  <2>1. \A d \in Cancellers : d[1] = p => left'[u][d] = {}
    BY <1>3, <1>4
  <2> QED BY <1>1, <1>4, <2>1 DEF Rested
<1>5. Owns(u, o)'
  BY <1>1 DEF Owns, OwnRows, OwnSandbox, CloudGoes, Builds, CleansUp, CleanupKinds
<1>6. LeftWaits(u)'
  <2> SUFFICES ASSUME NEW d \in Cancellers, NEW t \in left'[u][d]
               PROVE  /\ row[u][t[1]].run = t[2] => row[u][t[1]].st # "done"
                      /\ d[2] = "web" /\ t[2] # d[1]
    BY DEF LeftWaits
  <2>1. PICK S : d = <<o, "web">> /\ t \in Snapshot(u, S)
    BY <1>3
  <2>2. PICK k : t = <<k, row[u][k].run>> /\ row[u][k].st \in {"new", "running"}
    BY <2>1 DEF Snapshot, Unfinished, Rows
  <2>3. k \in Kinds
    <3>1. t \in Kinds \X Ops
      BY DEF TypeOK
    <3> QED BY <2>2, <3>1
  <2>4. row[u][k].run # o
    BY <2>3 DEF InOrder, RowsInOrder, RowsMatch, RowMatches, Unstarted
  <2> QED BY <2>1, <2>2, <2>4
<1>7. SandboxTrue(u)'
  BY DEF Orderly, SandboxTrue
<1> QED BY <1>4, <1>5, <1>6, <1>7 DEF Orderly

\* Whatever is asked is asked of a unit that is quiet.
LEMMA WebOrderly ==
  ASSUME TypeOK, TypeOK', Born, InOrder, Hasty = {}, NEW u \in Units, Orderly(u), WebRequest(u)
  PROVE  Orderly(u)'
<1>1. Quiet(u) => \A p \in Ops : Rested(u, p)
  BY QuietRests
<1>2. CASE CreateAllocationsRequests(u)
  <2> DEFINE r == [NoOp EXCEPT !.kind = "create", !.pc = "queued"]
  <2>1. r.plan = {} /\ r.pc = "queued" /\ r.kind = "create"
    BY DEF NoOp
  <2>2. /\ op[u][1].pc = "idle" /\ op' = [op EXCEPT ![u][1] = r] /\ u \in units'
        /\ UNCHANGED <<sandbox, ready, row, job, work, left, cloud>>
    BY <1>2 DEF CreateAllocationsRequests
  <2> HIDE DEF r
  <2>3. \A p \in Ops : Rested(u, p)
    BY <2>2 DEF Born, Asleep, Rested
  <2> QED BY <2>1, <2>2, <2>3, OneIsAnOp, AskOrderly
<1>3. CASE DeleteCleanupRequest(u)
  <2>1. \A p \in Ops : Rested(u, p)
    BY <1>1, <1>3 DEF DeleteCleanupRequest
  <2>2. UNCHANGED <<units, sandbox, ready, op, job, work, left, cloud>>
    BY <1>3 DEF DeleteCleanupRequest
  <2>3. \A k \in AllocKinds : row'[u][k] = row[u][k]
    <3>1. AllocKinds \subseteq Kinds /\ AllocKinds \intersect CleanupKinds = {}
      BY DEF Kinds, AllocKinds, CleanupKinds
    <3> QED BY <1>3, <3>1 DEF DeleteCleanupRequest, TypeOK
  <2>4. \A p \in Ops : Rested(u, p)'
    BY <2>1, <2>2 DEF Rested
  <2>5. \A d \in Cancellers : left[u][d] = {}
    <3>1. \A d \in Cancellers : d[1] \in Ops
      BY DEF Cancellers
    <3> QED BY <2>1, <3>1 DEF Rested
  <2>6. LeftWaits(u)'
    BY <2>2, <2>5, LeftStaysEmpty
  <2>7. SandboxTrue(u)'
    <3>1. "stack" \in AllocKinds
      BY DEF AllocKinds
    <3> QED BY <2>2, <2>3, <3>1 DEF Orderly, SandboxTrue
  <2> QED BY <2>4, <2>6, <2>7 DEF Orderly
<1>4. CASE LockSandbox(u) \/ UnlockSandbox(u)
  <2>1. UNCHANGED <<units, sandbox, ready, row, op, job, work, left, cloud>>
    BY <1>4 DEF LockSandbox, UnlockSandbox
  <2>2. SameState(u)
    BY <2>1 DEF SameState, LeftKept
  <2> QED BY <2>1, <2>2, OrderlyElsewhere
<1>5. ASSUME NEW o \in Ops, NEW kind, Asks(u, o, kind), NEW r, op' = [op EXCEPT ![u][o] = r],
             r.kind = kind, r.plan = {}, r.pc # "restage",
             kind \in {"cleanup", "force"} => r.pc # "queued" /\ (r.pc \in {"cancel", "delete"} => r.sb = sandbox[u]),
             left' = left \/ \E S : left' = [left EXCEPT ![u][<<o, "web">>] = Snapshot(u, S)],
             UNCHANGED <<units, sandbox, ready, row, job, work, cloud>>
      PROVE  Orderly(u)'
  <2>1. op[u][o].pc = "idle" /\ u \in units /\ Quiet(u)
    BY <1>5 DEF Asks
  <2> QED BY <1>1, <1>5, <2>1, AskOrderly
<1>6. ASSUME NEW o \in Ops, RestartRequest(u, o) PROVE Orderly(u)'
  <2> DEFINE r == [NoOp EXCEPT !.kind = "restart", !.pc = "queued"]
  <2>1. r.kind = "restart" /\ r.plan = {} /\ r.pc = "queued"
    BY DEF NoOp
  <2>2. /\ Asks(u, o, "restart") /\ op' = [op EXCEPT ![u][o] = r]
        /\ UNCHANGED <<units, sandbox, ready, row, job, work, left, cloud>>
    BY <1>6 DEF RestartRequest
  <2> HIDE DEF r
  <2> QED BY <1>5, <2>1, <2>2
<1>7. ASSUME NEW o \in Ops, NEW kind \in {"cancel", "ccancel"}, NEW S, CancelRequest(u, o, kind, S)
      PROVE  Orderly(u)'
  <2> DEFINE r == [NoOp EXCEPT !.kind = kind, !.pc = "cancel"]
  <2>1. r.kind = kind /\ r.plan = {} /\ r.pc = "cancel"
    BY DEF NoOp
  <2>2. /\ Asks(u, o, kind) /\ op' = [op EXCEPT ![u][o] = r]
        /\ left' = [left EXCEPT ![u][<<o, "web">>] = Snapshot(u, S)]
        /\ UNCHANGED <<units, sandbox, ready, row, job, work, cloud>>
    BY <1>7 DEF CancelRequest
  <2> HIDE DEF r
  <2> QED BY <1>5, <1>7, <2>1, <2>2
<1>8. ASSUME NEW o \in Ops, CreateCleanupRequest(u, o) PROVE Orderly(u)'
  <2> DEFINE r == [NoOp EXCEPT !.kind = "cleanup", !.pc = "delete", !.sb = sandbox[u]]
  <2>1. r.kind = "cleanup" /\ r.plan = {} /\ r.pc = "delete" /\ r.sb = sandbox[u]
    BY DEF NoOp
  <2>2. /\ Asks(u, o, "cleanup") /\ op' = [op EXCEPT ![u][o] = r]
        /\ UNCHANGED <<units, sandbox, ready, row, job, work, left, cloud>>
    BY <1>8 DEF CreateCleanupRequest
  <2> HIDE DEF r
  <2> QED BY <1>5, <2>1, <2>2
<1>9. ASSUME NEW o \in Ops, CreateCleanupRequestForce(u, o) PROVE Orderly(u)'
  <2> DEFINE r1 == [NoOp EXCEPT !.kind = "force", !.pc = "failed"]
             r2 == [NoOp EXCEPT !.kind = "force", !.sb = sandbox[u], !.req = creq[u],
                                !.pc = IF IsFinished(u, AllocKinds) THEN "delete" ELSE "cancel"]
  <2>1. /\ r1.kind = "force" /\ r1.plan = {} /\ r1.pc = "failed"
        /\ r2.kind = "force" /\ r2.plan = {} /\ r2.pc \in {"delete", "cancel"} /\ r2.sb = sandbox[u]
    BY DEF NoOp
  <2>2. /\ Asks(u, o, "force")
        /\ \/ op' = [op EXCEPT ![u][o] = r1] /\ left' = left
           \/ /\ op' = [op EXCEPT ![u][o] = r2]
              /\ left' = [left EXCEPT ![u][<<o, "web">>] = Snapshot(u, AllocKinds)]
        /\ UNCHANGED <<units, sandbox, ready, row, job, work, cloud>>
    BY <1>9 DEF CreateCleanupRequestForce
  <2> HIDE DEF r1, r2
  <2>3. CASE op' = [op EXCEPT ![u][o] = r1] /\ left' = left
    BY <1>5, <2>1, <2>2, <2>3
  <2>4. CASE op' = [op EXCEPT ![u][o] = r2] /\ left' = [left EXCEPT ![u][<<o, "web">>] = Snapshot(u, AllocKinds)]
    BY <1>5, <2>1, <2>2, <2>4
  <2> QED BY <2>2, <2>3, <2>4
<1> QED BY <1>2, <1>3, <1>4, <1>6, <1>7, <1>8, <1>9 DEF WebRequest, CancelAllocationRequest, CancelCleanupRequest

-----------------------------------------------------------------------------
(* The other units, and the invariant of them all. *)

\* A step on behalf of one unit leaves the others as they are.
Unmoved(v) == SameState(v) /\ op'[v] = op[v] /\ job'[v] = job[v] /\ work'[v] = work[v]

ApartOf(u) == \A v \in Units : v # u => Unmoved(v)

\* The parts of the state that belong to one unit.
LEMMA Domains ==
  ASSUME TypeOK
  PROVE  /\ DOMAIN sandbox = Units /\ DOMAIN ready = Units /\ DOMAIN cloud = Units
         /\ DOMAIN row = Units /\ DOMAIN left = Units
         /\ DOMAIN op = Units /\ DOMAIN job = Units /\ DOMAIN work = Units
  BY DEF TypeOK

\* Each action concerns one unit.
LEMMA WebApart ==
  ASSUME TypeOK, NEW u \in Units, WebRequest(u)
  PROVE  ApartOf(u)
<1> SUFFICES ASSUME NEW v \in Units, v # u PROVE Unmoved(v)
  BY DEF ApartOf
<1> USE Domains
<1>1. ASSUME UNCHANGED <<sandbox, ready, job, work, cloud>>,
             op'[v] = op[v], row'[v] = row[v], left'[v] = left[v], v \in units' <=> v \in units
      PROVE  Unmoved(v)
  BY <1>1 DEF Unmoved, SameState, LeftKept
<1>2. CASE CreateAllocationsRequests(u)
  BY <1>1, <1>2 DEF CreateAllocationsRequests
<1>3. CASE DeleteCleanupRequest(u)
  BY <1>1, <1>3 DEF DeleteCleanupRequest
<1>4. CASE LockSandbox(u) \/ UnlockSandbox(u)
  BY <1>1, <1>4 DEF LockSandbox, UnlockSandbox
<1>5. ASSUME NEW o \in Ops, RestartRequest(u, o) PROVE Unmoved(v)
  BY <1>1, <1>5 DEF RestartRequest
<1>6. ASSUME NEW o \in Ops, NEW kind, NEW S, CancelRequest(u, o, kind, S) PROVE Unmoved(v)
  BY <1>1, <1>6 DEF CancelRequest
<1>7. ASSUME NEW o \in Ops, CreateCleanupRequest(u, o) PROVE Unmoved(v)
  BY <1>1, <1>7 DEF CreateCleanupRequest
<1>8. ASSUME NEW o \in Ops, CreateCleanupRequestForce(u, o) PROVE Unmoved(v)
  <2>1. op'[v] = op[v] /\ left'[v] = left[v]
    BY <1>8 DEF CreateCleanupRequestForce
  <2> QED BY <1>1, <1>8, <2>1 DEF CreateCleanupRequestForce
<1> QED BY <1>2, <1>3, <1>4, <1>5, <1>6, <1>7, <1>8 DEF WebRequest, CancelAllocationRequest, CancelCleanupRequest

LEMMA ContinuesApart ==
  ASSUME TypeOK, NEW u \in Units, NEW o \in Ops, WebContinues(u, o)
  PROVE  ApartOf(u)
<1> SUFFICES ASSUME NEW v \in Units, v # u PROVE Unmoved(v)
  BY DEF ApartOf
<1> USE Domains
<1>1. UNCHANGED <<units, row, job, work, left, cloud>>
  BY DEF WebContinues, CancelDone, DeleteSandbox
<1>2. op'[v] = op[v] /\ sandbox'[v] = sandbox[v] /\ ready'[v] = ready[v]
  BY DEF WebContinues, CancelDone, DeleteSandbox, SetPc
<1> QED BY <1>1, <1>2 DEF Unmoved, SameState, LeftKept

LEMMA OrchestrationApart ==
  ASSUME TypeOK, NEW u \in Units, NEW o \in Ops, Orchestration(u, o) \/ CrashOrchestration(u, o)
  PROVE  ApartOf(u)
<1> SUFFICES ASSUME NEW v \in Units, v # u PROVE Unmoved(v)
  BY DEF ApartOf
<1> USE Domains
<1>1. UNCHANGED <<units, work, left, cloud>>
  BY DEF Orchestration, CreateAllocationJobs, ReplaceSandbox, RestartStageHandlers,
     CreateCleanupJobs, EnqueueStage, SetJobId, EnqueueFinalizer, FailOrchestration, CrashOrchestration
<1>2. ASSUME op'[v] = op[v], job'[v] = job[v], row'[v] = row[v], sandbox'[v] = sandbox[v], ready'[v] = ready[v]
      PROVE  Unmoved(v)
  BY <1>1, <1>2 DEF Unmoved, SameState, LeftKept
<1>3. ASSUME FailOrchestration(u, o) PROVE Unmoved(v)
  BY <1>2, <1>3 DEF FailOrchestration, SetPc
<1>4. ASSUME NEW S, Restage(u, o, S), StartChain(u, o, S)
      PROVE  op'[v] = op[v] /\ job'[v] = job[v] /\ row'[v] = row[v]
  BY <1>4 DEF Restage, StartChain
<1>5. CASE CreateAllocationJobs(u, o)
  BY <1>2, <1>4, <1>5 DEF CreateAllocationJobs
<1>6. CASE ReplaceSandbox(u, o)
  BY <1>2, <1>3, <1>6 DEF ReplaceSandbox, SetPc
<1>7. CASE RestartStageHandlers(u, o)
  BY <1>2, <1>3, <1>4, <1>7 DEF RestartStageHandlers
<1>8. CASE CreateCleanupJobs(u, o)
  BY <1>2, <1>3, <1>4, <1>8 DEF CreateCleanupJobs
<1>9. CASE EnqueueStage(u, o) \/ EnqueueFinalizer(u, o)
  BY <1>2, <1>9 DEF EnqueueStage, EnqueueFinalizer, SetPc
<1>10. CASE SetJobId(u, o)
  BY <1>2, <1>3, <1>10 DEF SetJobId
<1> QED BY <1>3, <1>5, <1>6, <1>7, <1>8, <1>9, <1>10 DEF Orchestration, CrashOrchestration

LEMMA ExecutionApart ==
  ASSUME TypeOK, NEW u \in Units, NEW o \in Ops, Execution(u, o) \/ \E j \in Jobs : CrashJob(u, o, j)
  PROVE  ApartOf(u)
<1> SUFFICES ASSUME NEW v \in Units, v # u PROVE Unmoved(v)
  BY DEF ApartOf
<1> USE Domains
<1>1. ASSUME op' = op, work'[v] = work[v], job'[v] = job[v], row'[v] = row[v], sandbox'[v] = sandbox[v],
             ready'[v] = ready[v], left'[v] = left[v], cloud'[v] = cloud[v], v \in units' <=> v \in units
      PROVE  Unmoved(v)
  BY <1>1 DEF Unmoved, SameState, LeftKept
<1>2. ASSUME NEW j \in Jobs, TakeJob(u, o, j) \/ CrashJob(u, o, j) PROVE Unmoved(v)
  BY <1>1, <1>2 DEF TakeJob, CrashJob, SetJob, SetWork
<1>3. ASSUME NEW k \in Kinds, ExecuteStart(u, o, k) PROVE Unmoved(v)
  BY <1>1, <1>3 DEF ExecuteStart, SaveStage, SetJob, SetWork
<1>4. ASSUME NEW k \in Kinds, ExecuteEnd(u, o, k) PROVE Unmoved(v)
  BY <1>1, <1>4 DEF ExecuteEnd, SaveStage, SetJob, SetWork, Succeed
<1>5. ASSUME NEW k \in Kinds, ExecuteFail(u, o, k) PROVE Unmoved(v)
  BY <1>1, <1>5 DEF ExecuteFail, SaveStage, SetJob, SetWork
<1>6. ASSUME NEW k \in Kinds, RequestExceptionHandler(u, o, k) PROVE Unmoved(v)
  BY <1>1, <1>6 DEF RequestExceptionHandler, SetWork
<1>7. CASE ProvisionNetbird(u, o)
  BY <1>1, <1>7 DEF ProvisionNetbird, SetWork, Succeed
<1>8. CASE MarkSandboxAsReady(u, o)
  BY <1>1, <1>8 DEF MarkSandboxAsReady, SetJob, SetWork, Succeed
<1>9. CASE DecrementPoolSize(u, o)
  BY <1>1, <1>9 DEF DecrementPoolSize, SetJob, SetWork
<1>10. CASE DeleteAllocationUnit(u, o)
  BY <1>1, <1>10 DEF DeleteAllocationUnit, SetJob, SetWork, Succeed
<1> QED BY <1>2, <1>3, <1>4, <1>5, <1>6, <1>7, <1>8, <1>9, <1>10, KindValues DEF Execution

LEMMA CancelApart ==
  ASSUME TypeOK, NEW u \in Units, NEW c \in Cancellers, CancelStage(u, c)
  PROVE  ApartOf(u)
<1> SUFFICES ASSUME NEW v \in Units, v # u PROVE Unmoved(v)
  BY DEF ApartOf
<1> USE Domains
<1>1. UNCHANGED <<units, sandbox, ready, work, cloud>>
  BY DEF CancelStage
<1>2. op'[v] = op[v] /\ job'[v] = job[v] /\ row'[v] = row[v] /\ left'[v] = left[v]
  BY DEF CancelStage, SetPc, SaveStage
<1> QED BY <1>1, <1>2 DEF Unmoved, SameState, LeftKept

\* The invariant of units whose operators wait.
Patient ==
  /\ \A u \in Units : Alone(u) /\ Orderly(u)
  /\ \A u \in Units, o \in Ops : JobsBelong(u, o)

\* Who acts is under way.
LEMMA ActorBusy ==
  ASSUME TypeOK, InOrder, NEW u \in Units, NEW o \in Ops,
         WebContinues(u, o) \/ Orchestration(u, o) \/ Execution(u, o) \/ Crash(u, o)
  PROVE  ~Rested(u, o)
<1>1. CASE WebContinues(u, o)
  BY <1>1 DEF WebContinues, CancelDone, DeleteSandbox, Rested
<1>2. CASE Orchestration(u, o)
  BY <1>2 DEF Orchestration, CreateAllocationJobs, ReplaceSandbox, RestartStageHandlers,
     CreateCleanupJobs, EnqueueStage, SetJobId, EnqueueFinalizer, Orchestrates, Rested
<1>3. CASE Execution(u, o)
  BY <1>3, KindValues DEF Execution, TakeJob, ExecuteStart, ExecuteEnd, ExecuteFail,
     RequestExceptionHandler, ProvisionNetbird, MarkSandboxAsReady, DecrementPoolSize,
     DeleteAllocationUnit, Rested
<1>4. CASE Crash(u, o)
  BY <1>4 DEF Crash, CrashOrchestration, CrashJob, Rested
<1> QED BY <1>1, <1>2, <1>3, <1>4

LEMMA CancelBusy ==
  ASSUME NEW u \in Units, NEW c \in Cancellers, CancelStage(u, c)
  PROVE  c[1] \in Ops /\ ~Rested(u, c[1])
<1>1. left[u][c] # {}
  BY DEF CancelStage
<1> QED BY <1>1 DEF Cancellers, Rested

\* The operation that is not at rest is the only one.
LEMMA ActorActs ==
  ASSUME TypeOK, Born, Protected, Protected', InOrder, Hasty = {}, [Next]_vars, Patient,
         NEW u \in Units, NEW o \in Ops, ~Rested(u, o)
  PROVE  Acts(u, o)
<1>1. \A p \in Ops : p # o => Rested(u, p) /\ Rested(u, p)'
  BY OthersRest DEF Protected, Patient
<1> QED BY <1>1 DEF Acts, Patient

\* The invariant is inductive.
LEMMA StepPatient ==
  ASSUME TypeOK, TypeOK', Born, Protected, Protected', InOrder, Hasty = {}, "slow" \notin Faults,
         [Next]_vars, Patient
  PROVE  Patient'
<1>1. \A u \in Units : Alone(u)'
  BY StepAlone DEF Protected, Patient
<1>2. ASSUME NEW u \in Units, NEW o \in Ops PROVE JobsBelong(u, o)'
  <2>1. ChainStep(u, o)
    BY ChainSteps DEF Protected
  <2>2. ChainBegun(u, o) /\ JobsInOrder(u, o) /\ RowsMatch(u, o) /\ JobsBelong(u, o)
    BY DEF InOrder, ChainInOrder, RowsInOrder, Patient
  <2> QED BY <2>1, <2>2, StepJobsBelong
<1>3. ASSUME NEW u \in Units, ApartOf(u), Orderly(u)', NEW v \in Units
      PROVE  Orderly(v)'
  <2>1. CASE v # u
    <3>1. Unmoved(v) /\ Orderly(v)
      BY <1>3, <2>1 DEF ApartOf, Patient
    <3> QED BY <3>1, OrderlyElsewhere DEF Unmoved
  <2> QED BY <1>3, <2>1
<1>4. \A v \in Units : Orderly(v)'
  <2>1. ASSUME NEW u \in Units, WebRequest(u) PROVE ApartOf(u) /\ Orderly(u)'
    BY <2>1, WebApart, WebOrderly DEF Patient
  <2>2. ASSUME NEW u \in Units, NEW o \in Ops,
               WebContinues(u, o) \/ Orchestration(u, o) \/ Execution(u, o) \/ Crash(u, o)
        PROVE  ApartOf(u) /\ Orderly(u)'
    <3>1. Acts(u, o)
      BY <2>2, ActorBusy, ActorActs
    <3>2. Orderly(u)'
      BY <2>2, <3>1, ContinuesOrderly, OrchestrationOrderly, ExecutionOrderly, CrashOrderly
    <3>3. ApartOf(u)
      BY <2>2, ContinuesApart, OrchestrationApart, ExecutionApart DEF Crash
    <3> QED BY <3>2, <3>3
  <2>3. ASSUME NEW u \in Units, NEW c \in Cancellers, CancelStage(u, c)
        PROVE  ApartOf(u) /\ Orderly(u)'
    <3>1. c[1] \in Ops /\ ~Rested(u, c[1])
      BY <2>3, CancelBusy
    <3>2. Acts(u, c[1])
      BY <3>1, ActorActs
    <3> QED BY <2>3, <3>2, CancelApart, CancelOrderly
  <2>4. ASSUME NEW v \in Units, UNCHANGED vars PROVE Orderly(v)'
    <3>1. SameState(v) /\ op'[v] = op[v] /\ job'[v] = job[v] /\ work'[v] = work[v]
      BY <2>4 DEF vars, SameState, LeftKept
    <3> QED BY <3>1, OrderlyElsewhere DEF Patient
  <2>5. CASE Next
    BY <1>3, <2>1, <2>2, <2>3, <2>5 DEF Next
  <2> QED BY <2>4, <2>5
<1> QED BY <1>1, <1>2, <1>4 DEF Patient

LEMMA InitPatient ==
  ASSUME Init
  PROVE  Patient
<1> USE KindValues
<1>1. ASSUME NEW u \in Units, NEW o \in Ops
      PROVE  /\ op[u][o] = NoOp /\ NoOp.plan = {} /\ NoOp.pc = "idle"
             /\ \A j \in Jobs : job[u][o][j] = "none" /\ work[u][o][j] = "idle"
             /\ \A c \in Cancellers : left[u][c] = {}
  BY DEF Init, NoOp
<1>2. \A u \in Units, o \in Ops : Rested(u, o)
  BY <1>1 DEF Rested
<1>3. \A u \in Units, o \in Ops : JobsBelong(u, o)
  BY <1>1 DEF JobsBelong, Untouched
<1>4. \A u \in Units : Orderly(u)
  <2>1. \A u \in Units : LeftWaits(u)
    BY <1>1, OneIsAnOp DEF LeftWaits
  <2>2. \A u \in Units : SandboxTrue(u)
    BY DEF SandboxTrue, Init
  <2> QED BY <1>2, <2>1, <2>2 DEF Orderly
<1> QED BY <1>2, <1>3, <1>4 DEF Patient, Alone

\* The invariant implies the properties.
LEMMA PatientIsAllocated ==
  ASSUME Patient
  PROVE  ReadyMeansAllocated
<1>1. "stack" \in AllocKinds
  BY DEF AllocKinds
<1> QED BY <1>1 DEF Patient, Orderly, SandboxTrue, ReadyMeansAllocated

LEMMA PatientLeavesNothing ==
  ASSUME Patient, "init" \notin Faults
  PROVE  NothingLeftBehind
  BY DEF Patient, Orderly, SandboxTrue, NothingLeftBehind

-----------------------------------------------------------------------------
(* The theorems. *)

\* The invariant holds in every behaviour.
LEMMA PatientAlways ==
  ASSUME Hasty = {}, "slow" \notin Faults
  PROVE  Spec => [](TypeOK /\ Patient)
<1>1. TypeOK /\ TypeOK' /\ InOrder /\ [Next]_vars => InOrder'
  BY StepInOrder
<1>2. TypeOK /\ Protected /\ [Next]_vars => Protected'
  BY StepProtected
<1>3. TypeOK /\ Born /\ [Next]_vars => Born'
  BY BornNext
<1>4. /\ TypeOK /\ TypeOK' /\ Born /\ Protected /\ Protected' /\ InOrder /\ Patient /\ [Next]_vars
        => Patient'
  BY StepPatient
<1>5. Init => Protected /\ InOrder /\ Born /\ Patient
  <2>1. Init => Born
    BY DEF Init, Born, Asleep, NoOp
  <2> QED BY <2>1, InitProtected, InitInOrder, InitPatient
<1> QED BY <1>1, <1>2, <1>3, <1>4, <1>5, TypeCorrect, PTL DEF Spec

\* A sandbox is ready for trainings only if all the stages that build it, restarted or
\* not, have succeeded and its cloud resources are there, for any number of units and
\* operations, whatever fails and whichever process dies.  It is assumed that operators
\* ask nothing of a unit that is busy (a cancellation may otherwise fail the last stage
\* after it has succeeded), and that nobody acts between two turns of the loop of
\* _enqueue_request (a finalizer enqueued after a failure would run at once).
THEOREM ReadyIsAllocated ==
  ASSUME Hasty = {}, "slow" \notin Faults
  PROVE  Spec => []ReadyMeansAllocated
<1>1. Patient => ReadyMeansAllocated
  BY PatientIsAllocated
<1> QED BY <1>1, PatientAlways, PTL

\* A unit disappears from the database only after its stack has been destroyed, for any
\* number of units and operations, whatever fails and whichever process dies.  Assumed is
\* what ReadyIsAllocated assumes, and that terraform can initialise the directory of a
\* stack it has to destroy: a cleanup takes a failure to do so for success.
THEOREM NothingIsLeftBehind ==
  ASSUME Hasty = {}, "slow" \notin Faults, "init" \notin Faults
  PROVE  Spec => []NothingLeftBehind
<1>1. Patient => NothingLeftBehind
  BY PatientLeavesNothing
<1> QED BY <1>1, PatientAlways, PTL
=============================================================================
