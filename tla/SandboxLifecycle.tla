-------------------------- MODULE SandboxLifecycle --------------------------
(***************************************************************************)
(* The life of sandbox allocation units: what the web views, the           *)
(* orchestration jobs, the stage jobs and the finalizing jobs of           *)
(* sandbox_instance_app do to the rows of a unit and to each other.        *)
(*                                                                         *)
(* Every operator request on a unit (create, restart, cleanup, ...) is an  *)
(* "operation" o of the unit; its web part runs first, and the chain of    *)
(* jobs it enqueues bears the number o of the operation.  A database row   *)
(* is identified by the operation that inserted it, so that an object      *)
(* pickled into a job can be told from the row that replaced it.           *)
(*                                                                         *)
(* Bounds: MaxOps is the number of operations per unit.                    *)
(***************************************************************************)
EXTENDS Integers, FiniteSets, JobQueue

CONSTANTS
  Units,     \* allocation units of the pool
  MaxOps,    \* operations an operator may ask of one unit, its creation included
  Netbird,   \* is_netbird_configured()
  Hasty,     \* kinds of operation asked while the unit is still busy
  Faults     \* what else may happen: see FaultKinds

OpKinds == {"create", "restart", "cleanup", "force", "cancel", "ccancel", "delreq"}

(***************************************************************************)
(* "crash": a worker dies in the middle of a job.                          *)
(* "slow":  others act between two steps of the loop that enqueues stages. *)
(* "init":  terraform cannot initialise the stack directory for a destroy. *)
(***************************************************************************)
FaultKinds == {"crash", "slow", "init"}

ASSUME ConstantsAssumption ==
  /\ IsFiniteSet(Units)
  /\ MaxOps \in Nat \ {0}
  /\ Netbird \in BOOLEAN
  /\ Hasty \subseteq OpKinds
  /\ Faults \subseteq FaultKinds

Ops == 1 .. MaxOps

AllocKinds == {"stack", "net", "user"}
CleanupKinds == {"cuser", "cnet", "cstack"}
Kinds == AllocKinds \union CleanupKinds
Jobs == Kinds \union {"netbird", "final"}

\* The order in which the stages of a request are enqueued.
Rank == [k \in Kinds |-> CASE k \in {"stack", "cuser"} -> 1
                           [] k \in {"net", "cnet"}    -> 2
                           [] k \in {"user", "cstack"} -> 3]

First(S) == {k \in S : \A i \in S : Rank[k] <= Rank[i]}
Last(S) == {k \in S : \A i \in S : Rank[i] <= Rank[k]}

VARIABLES
  units,    \* allocation units that have a row
  size,     \* Pool.size
  sandbox,  \* the operation that inserted the unit's sandbox, 0 if it has none
  ready,    \* Sandbox.ready
  locked,   \* the sandbox has a SandboxLock
  creq,     \* the operation that inserted the cleanup request, 0 if none
  row,      \* stage rows of the unit's two requests
  op,       \* the operations: web part, then orchestration job
  job,      \* status of the jobs each operation enqueued
  work,     \* what the worker executing a job is doing
  left,     \* stages that a running cancel_request has yet to cancel
  cloud     \* cloud resources of the unit's stack may exist

vars == <<units, size, sandbox, ready, locked, creq, row, op, job, work, left, cloud>>

RowState == {"new", "running", "done", "failed"}
NoRow == [run |-> 0, st |-> "new", rq |-> FALSE]
NewRow(o) == [run |-> o, st |-> "new", rq |-> FALSE]
Row == [run : {0} \union Ops, st : RowState, rq : BOOLEAN]

OpPc == {"idle", "cancel", "delete", "queued", "restage", "enqueue", "setid",
         "done", "failed"}
Op == [kind : OpKinds \union {"none"}, pc : OpPc, plan : SUBSET Kinds,
       todo : SUBSET Kinds, req : {0} \union Ops, sb : {0} \union Ops]
NoOp == [kind |-> "none", pc |-> "idle", plan |-> {}, todo |-> {}, req |-> 0, sb |-> 0]

WorkState == {"idle", "picked", "busy", "exc", "decremented", "succeeded",
              "ended", "dead"}

\* Who runs a cancel_request: a web request, or the exception handler of a job.
Cancellers == Ops \X (Kinds \union {"web"})

TypeOK ==
  /\ units \in SUBSET Units
  /\ size \in Nat
  /\ sandbox \in [Units -> {0} \union Ops]
  /\ ready \in [Units -> BOOLEAN]
  /\ locked \in [Units -> BOOLEAN]
  /\ creq \in [Units -> {0} \union Ops]
  /\ row \in [Units -> [Kinds -> Row]]
  /\ op \in [Units -> [Ops -> Op]]
  /\ job \in [Units -> [Ops -> [Jobs -> JobStatus]]]
  /\ work \in [Units -> [Ops -> [Jobs -> WorkState]]]
  /\ left \in [Units -> [Cancellers -> SUBSET (Kinds \X Ops)]]
  /\ cloud \in [Units -> BOOLEAN]

Init ==
  /\ units = {}
  /\ size = 0
  /\ sandbox = [u \in Units |-> 0]
  /\ ready = [u \in Units |-> FALSE]
  /\ locked = [u \in Units |-> FALSE]
  /\ creq = [u \in Units |-> 0]
  /\ row = [u \in Units |-> [k \in Kinds |-> NoRow]]
  /\ op = [u \in Units |-> [o \in Ops |-> NoOp]]
  /\ job = [u \in Units |-> [o \in Ops |-> [j \in Jobs |-> "none"]]]
  /\ work = [u \in Units |-> [o \in Ops |-> [j \in Jobs |-> "idle"]]]
  /\ left = [u \in Units |-> [c \in Cancellers |-> {}]]
  /\ cloud = [u \in Units |-> FALSE]

-----------------------------------------------------------------------------
(* What the handlers read. *)

\* Mutant: the extra dependency replaces the previous stage.
DepsOnExtraOnly(u, o) ==
  LET plan == op[u][o].plan
      previous(k) == Last({i \in plan : Rank[i] < Rank[k]})
  IN [j \in Jobs |->
        CASE j = "final"   -> Last(plan)
          [] j = "netbird" -> {}
          [] j = "user"    -> IF Netbird THEN {"netbird"} ELSE {}
          [] OTHER         -> previous(j)]

\* The jobs that job j of operation o was enqueued to depend on.
Deps(u, o) ==
  LET plan == op[u][o].plan
      previous(k) == Last({i \in plan : Rank[i] < Rank[k]})
  IN [j \in Jobs |->
        CASE j = "final"   -> Last(plan)
          [] j = "netbird" -> {}
          [] j = "user"    -> previous(j) \union (IF Netbird THEN {"netbird"} ELSE {})
          [] OTHER         -> previous(j)]

RequestKinds(k) == IF k \in AllocKinds THEN AllocKinds ELSE CleanupKinds

Rows(u, S) == {k \in S : row[u][k].run # 0}
Unfinished(u, S) == {k \in Rows(u, S) : row[u][k].st \in {"new", "running"}}

\* SandboxRequest.is_finished: no stage of the request is unfinished.
IsFinished(u, S) == Unfinished(u, S) = {}

\* _get_stage_handlers raises unless every stage of the request has its row.
HasStages(u, S) == Rows(u, S) = S

\* The stage objects a cancel_request has read: those it will try to cancel.
Snapshot(u, S) == {<<k, row[u][k].run>> : k \in Unfinished(u, S)}

\* An orchestration job is between two of its database or queue writes.
Orchestrating(u) == \E o \in Ops : op[u][o].pc \in {"restage", "enqueue", "setid"}

\* Nothing of the unit is queued, running or half done.
Quiet(u) ==
  /\ \A o \in Ops : op[u][o].pc \in {"idle", "done", "failed"}
  /\ \A o \in Ops : \A j \in Jobs :
       /\ job[u][o][j] \notin {"queued", "started"}
       /\ work[u][o][j] \in {"idle", "succeeded", "ended", "dead"}
  /\ \A c \in Cancellers : left[u][c] = {}

\* Unless the loop that enqueues the stages is slow, nobody acts in between.
Turn(u) == "slow" \in Faults \/ ~Orchestrating(u)

\* Operation o is the next one asked of u, and is asked at this moment.
Asks(u, o, kind) ==
  /\ u \in units
  /\ op[u][o].pc = "idle"
  /\ o > 1 /\ op[u][o - 1].pc # "idle"
  /\ kind \in Hasty \/ Quiet(u)
  /\ Turn(u)

-----------------------------------------------------------------------------
(* The web requests. *)

SetPc(u, o, pc) == op' = [op EXCEPT ![u][o].pc = pc]

\* Mutant: the new unit is not counted.
CreateUncounted(u) ==
  /\ u \notin units
  /\ op[u][1].pc = "idle"
  /\ units' = units \union {u}
  /\ op' = [op EXCEPT ![u][1] = [NoOp EXCEPT !.kind = "create", !.pc = "queued"]]
  /\ UNCHANGED <<size, sandbox, ready, locked, creq, row, job, work, left, cloud>>

\* requests.create_allocations_requests for one unit, with the part of
\* pools.create_sandboxes_in_pool that counts it.
CreateAllocationsRequests(u) ==
  /\ u \notin units
  /\ op[u][1].pc = "idle"
  /\ units' = units \union {u}
  /\ size' = size + 1
  /\ op' = [op EXCEPT ![u][1] = [NoOp EXCEPT !.kind = "create", !.pc = "queued"]]
  /\ UNCHANGED <<sandbox, ready, locked, creq, row, job, work, left, cloud>>

\* restart_request only enqueues a job: every check is left to the job.
RestartRequest(u, o) ==
  /\ Asks(u, o, "restart")
  /\ op' = [op EXCEPT ![u][o] = [NoOp EXCEPT !.kind = "restart", !.pc = "queued"]]
  /\ UNCHANGED <<units, size, sandbox, ready, locked, creq, row, job, work, left, cloud>>

\* cancel_request: read the stages, then cancel them one after the other.
CancelRequest(u, o, kind, S) ==
  /\ Asks(u, o, kind)
  /\ HasStages(u, S)
  /\ ~IsFinished(u, S)
  /\ op' = [op EXCEPT ![u][o] = [NoOp EXCEPT !.kind = kind, !.pc = "cancel"]]
  /\ left' = [left EXCEPT ![u][<<o, "web">>] = Snapshot(u, S)]
  /\ UNCHANGED <<units, size, sandbox, ready, locked, creq, row, job, work, cloud>>

CancelAllocationRequest(u, o) == CancelRequest(u, o, "cancel", AllocKinds)
CancelCleanupRequest(u, o) == CancelRequest(u, o, "ccancel", CleanupKinds)

\* create_cleanup_request: the checks, on what was read of the unit.
CreateCleanupRequest(u, o) ==
  /\ Asks(u, o, "cleanup")
  /\ ~locked[u]
  /\ HasStages(u, AllocKinds)
  /\ row[u]["stack"].st # "running"
  /\ IsFinished(u, AllocKinds)
  /\ creq[u] = 0
  /\ op' = [op EXCEPT ![u][o] = [NoOp EXCEPT !.kind = "cleanup", !.pc = "delete",
                                             !.sb = sandbox[u]]]
  /\ UNCHANGED <<units, size, sandbox, ready, locked, creq, row, job, work, left, cloud>>

\* create_cleanup_request_force: the lock goes before the stack stage is looked
\* at; an unfinished allocation request is cancelled first.
CreateCleanupRequestForce(u, o) ==
  /\ Asks(u, o, "force")
  /\ creq[u] = 0 \/ IsFinished(u, CleanupKinds)
  /\ locked' = [locked EXCEPT ![u] = FALSE]
  /\ \/ /\ HasStages(u, AllocKinds) => row[u]["stack"].st = "running"
        /\ op' = [op EXCEPT ![u][o] = [NoOp EXCEPT !.kind = "force", !.pc = "failed"]]
        /\ UNCHANGED left
     \/ /\ HasStages(u, AllocKinds)
        /\ row[u]["stack"].st # "running"
        /\ op' = [op EXCEPT ![u][o] =
                    [NoOp EXCEPT !.kind = "force", !.sb = sandbox[u], !.req = creq[u],
                                 !.pc = IF IsFinished(u, AllocKinds)
                                          THEN "delete" ELSE "cancel"]]
        /\ left' = [left EXCEPT ![u][<<o, "web">>] = Snapshot(u, AllocKinds)]
  /\ UNCHANGED <<units, size, sandbox, ready, creq, row, job, work, cloud>>

\* The stages are cancelled: the request is answered, or the cleanup goes on.
CancelDone(u, o) ==
  /\ op[u][o].pc = "cancel"
  /\ left[u][<<o, "web">>] = {}
  /\ Turn(u)
  /\ SetPc(u, o, IF op[u][o].kind = "force" THEN "delete" ELSE "done")
  /\ UNCHANGED <<units, size, sandbox, ready, locked, creq, row, job, work, left, cloud>>

\* Mutant: the lock goes with the sandbox instead of protecting it.
DeleteUnprotected(u, o) ==
  /\ op[u][o].pc = "delete"
  /\ Turn(u)
  /\ LET mine == op[u][o].sb # 0 /\ op[u][o].sb = sandbox[u]
     IN /\ SetPc(u, o, "queued")
        /\ sandbox' = [sandbox EXCEPT ![u] = IF mine THEN 0 ELSE @]
        /\ ready' = [ready EXCEPT ![u] = IF mine THEN FALSE ELSE @]
        /\ locked' = [locked EXCEPT ![u] = IF mine THEN FALSE ELSE @]
  /\ UNCHANGED <<units, size, creq, row, job, work, left, cloud>>

\* The sandbox that was read is deleted, unless it has been locked meanwhile,
\* and the cleanup job is enqueued.
DeleteSandbox(u, o) ==
  /\ op[u][o].pc = "delete"
  /\ Turn(u)
  /\ LET mine == op[u][o].sb # 0 /\ op[u][o].sb = sandbox[u]
     IN IF mine /\ locked[u]
          THEN SetPc(u, o, "failed") /\ UNCHANGED <<sandbox, ready>>
          ELSE /\ SetPc(u, o, "queued")
               /\ sandbox' = [sandbox EXCEPT ![u] = IF mine THEN 0 ELSE @]
               /\ ready' = [ready EXCEPT ![u] = IF mine THEN FALSE ELSE @]
  /\ UNCHANGED <<units, size, locked, creq, row, job, work, left, cloud>>

\* delete_cleanup_request: the stages go with the request.
DeleteCleanupRequest(u) ==
  /\ creq[u] # 0
  /\ IsFinished(u, CleanupKinds)
  /\ "delreq" \in Hasty \/ Quiet(u)
  /\ Turn(u)
  /\ creq' = [creq EXCEPT ![u] = 0]
  /\ row' = [row EXCEPT ![u] =
               [k \in Kinds |-> IF k \in CleanupKinds THEN NoRow ELSE @[k]]]
  /\ UNCHANGED <<units, size, sandbox, ready, locked, op, job, work, left, cloud>>

\* SandboxGetAndLock gives out ready sandboxes only, the lock endpoint any.
LockSandbox(u) ==
  /\ sandbox[u] # 0 /\ ~locked[u]
  /\ Turn(u)
  /\ locked' = [locked EXCEPT ![u] = TRUE]
  /\ UNCHANGED <<units, size, sandbox, ready, creq, row, op, job, work, left, cloud>>

UnlockSandbox(u) ==
  /\ locked[u]
  /\ Turn(u)
  /\ locked' = [locked EXCEPT ![u] = FALSE]
  /\ UNCHANGED <<units, size, sandbox, ready, creq, row, op, job, work, left, cloud>>

-----------------------------------------------------------------------------
(* The orchestration jobs. *)

\* New stage rows for the kinds in S, inserted by operation o.
Restage(u, o, S) ==
  row' = [row EXCEPT ![u] = [k \in Kinds |-> IF k \in S THEN NewRow(o) ELSE @[k]]]

\* The chain of operation o is S; the NetBird job is enqueued ahead of it.
StartChain(u, o, S) ==
  /\ op' = [op EXCEPT ![u][o] = [@ EXCEPT !.pc = "enqueue", !.plan = S, !.todo = S]]
  /\ IF Netbird /\ S \subseteq AllocKinds
       THEN job' = [job EXCEPT ![u][o] = EnqueuedJob(@, Deps(u, o), "netbird")]
       ELSE UNCHANGED job

Orchestrates(u, o, kinds, pc) ==
  /\ op[u][o].kind \in kinds /\ op[u][o].pc = pc

FailOrchestration(u, o) ==
  /\ SetPc(u, o, "failed")
  /\ UNCHANGED <<units, size, sandbox, ready, locked, creq, row, job, work, left, cloud>>

CreateAllocationJobs(u, o) ==
  /\ Orchestrates(u, o, {"create"}, "queued") /\ Turn(u)
  /\ sandbox' = [sandbox EXCEPT ![u] = o]
  /\ ready' = [ready EXCEPT ![u] = FALSE]
  /\ Restage(u, o, AllocKinds)
  /\ StartChain(u, o, AllocKinds)
  /\ UNCHANGED <<units, size, locked, creq, work, left, cloud>>

\* _create_restart_jobs, up to the new sandbox: the old one is gone before
\* anything has been checked.
ReplaceSandbox(u, o) ==
  /\ Orchestrates(u, o, {"restart"}, "queued") /\ Turn(u)
  /\ IF sandbox[u] = 0 \/ locked[u]
       THEN FailOrchestration(u, o)
       ELSE /\ sandbox' = [sandbox EXCEPT ![u] = o]
            /\ ready' = [ready EXCEPT ![u] = FALSE]
            /\ SetPc(u, o, "restage")
            /\ UNCHANGED <<units, size, locked, creq, row, job, work, left, cloud>>

\* Mutant: only the stage that is sure to have failed is run again.
UserStageOnly(u) == {"user"}

\* The stages _restart_stage_handlers runs again.  Its test of the stack stage
\* for the networking stage reads the new stack stage, which has not failed.
FailedStages(u) == {k \in {"stack", "net"} : row[u][k].st = "failed"} \union {"user"}

RestartStageHandlers(u, o) ==
  /\ Orchestrates(u, o, {"restart"}, "restage")
  /\ IF /\ HasStages(u, AllocKinds)
        /\ IsFinished(u, AllocKinds)
        /\ row[u]["user"].st = "failed"
       THEN /\ Restage(u, o, FailedStages(u))
            /\ StartChain(u, o, FailedStages(u))
            /\ UNCHANGED <<units, size, sandbox, ready, locked, creq, work, left, cloud>>
       ELSE FailOrchestration(u, o)

\* _create_cleanup_jobs: whether the unit has a cleanup request was found out
\* when the web request was handled, and comes with the pickled unit.
CreateCleanupJobs(u, o) ==
  /\ Orchestrates(u, o, {"cleanup", "force"}, "queued") /\ Turn(u)
  /\ IF u \in units /\ creq[u] = op[u][o].req
       THEN /\ creq' = [creq EXCEPT ![u] = IF @ = 0 THEN o ELSE @]
            /\ Restage(u, o, CleanupKinds)
            /\ StartChain(u, o, CleanupKinds)
            /\ UNCHANGED <<units, size, sandbox, ready, locked, work, left, cloud>>
       ELSE FailOrchestration(u, o)

\* One turn of the loop of _enqueue_request: first the job ...
EnqueueStage(u, o) ==
  /\ op[u][o].pc = "enqueue"
  /\ \E k \in First(op[u][o].todo) :
       job' = [job EXCEPT ![u][o] = EnqueuedJob(@, Deps(u, o), k)]
  /\ SetPc(u, o, "setid")
  /\ UNCHANGED <<units, size, sandbox, ready, locked, creq, row, work, left, cloud>>

\* ... then the RQJob row that ties the job to its stage, if that still exists.
SetJobId(u, o) ==
  /\ op[u][o].pc = "setid"
  /\ \E k \in First(op[u][o].todo) :
       IF row[u][k].run = o
         THEN /\ row' = [row EXCEPT ![u][k].rq = TRUE]
              /\ op' = [op EXCEPT ![u][o] = [@ EXCEPT !.pc = "enqueue", !.todo = op[u][o].todo \ {k}]]
              /\ UNCHANGED <<units, size, sandbox, ready, locked, creq, job, work, left, cloud>>
         ELSE FailOrchestration(u, o)

EnqueueFinalizer(u, o) ==
  /\ op[u][o].pc = "enqueue"
  /\ op[u][o].todo = {}
  /\ job' = [job EXCEPT ![u][o] = EnqueuedJob(@, Deps(u, o), "final")]
  /\ SetPc(u, o, "done")
  /\ UNCHANGED <<units, size, sandbox, ready, locked, creq, row, work, left, cloud>>

-----------------------------------------------------------------------------
(* The jobs of a chain. *)

SetWork(u, o, j, w) == work' = [work EXCEPT ![u][o][j] = w]
SetJob(u, o, j, st) == job' = [job EXCEPT ![u][o][j] = st]
Succeed(u, o, j) == job' = [job EXCEPT ![u][o] = FinishedJob(@, Deps(u, o), j)]

TakeJob(u, o, j) ==
  /\ job[u][o][j] = "queued"
  /\ Turn(u)
  /\ SetJob(u, o, j, "started")
  /\ SetWork(u, o, j, "picked")
  /\ UNCHANGED <<units, size, sandbox, ready, locked, creq, row, op, left, cloud>>

\* Provisioning is best effort: it catches every error.
ProvisionNetbird(u, o) ==
  /\ work[u][o]["netbird"] = "picked"
  /\ Turn(u)
  /\ Succeed(u, o, "netbird")
  /\ SetWork(u, o, "netbird", "succeeded")
  /\ UNCHANGED <<units, size, sandbox, ready, locked, creq, row, op, left, cloud>>

\* stage.save() in a worker writes the whole pickled row, or fails because the
\* row of the stage is no longer there.
SaveStage(u, o, k, st) == row' = [row EXCEPT ![u][k].st = st]

ExecuteStart(u, o, k) ==
  /\ work[u][o][k] = "picked"
  /\ Turn(u)
  /\ IF row[u][k].run = o
       THEN /\ SaveStage(u, o, k, "running")
            /\ SetWork(u, o, k, "busy")
            /\ cloud' = [cloud EXCEPT ![u] = @ \/ k = "stack"]
            /\ UNCHANGED job
       ELSE /\ SetWork(u, o, k, "ended")
            /\ SetJob(u, o, k, "failed")
            /\ UNCHANGED <<row, cloud>>
  /\ UNCHANGED <<units, size, sandbox, ready, locked, creq, op, left>>

\* What a stage that ends well leaves of the stack.
CloudAfter(u, k) ==
  CASE k = "stack"  -> {TRUE}
    [] k = "cstack" -> {FALSE} \union (IF "init" \in Faults THEN {cloud[u]} ELSE {})
    [] OTHER        -> {cloud[u]}

ExecuteEnd(u, o, k) ==
  /\ work[u][o][k] = "busy"
  /\ Turn(u)
  /\ \E c \in CloudAfter(u, k) : cloud' = [cloud EXCEPT ![u] = c]
  /\ IF row[u][k].run = o
       THEN /\ SaveStage(u, o, k, "done")
            /\ Succeed(u, o, k)
            /\ SetWork(u, o, k, "succeeded")
       ELSE /\ SetJob(u, o, k, "failed")
            /\ SetWork(u, o, k, "ended")
            /\ UNCHANGED row
  /\ UNCHANGED <<units, size, sandbox, ready, locked, creq, op, left>>

\* Mutant: the return code of terraform is not looked at.
FailUnnoticed(u, o, k) ==
  /\ work[u][o][k] = "busy"
  /\ Turn(u)
  /\ SaveStage(u, o, k, "done")
  /\ Succeed(u, o, k)
  /\ SetWork(u, o, k, "succeeded")
  /\ UNCHANGED <<units, size, sandbox, ready, locked, creq, op, left, cloud>>

\* A stack that could not be built is destroyed again, when that succeeds.
ExecuteFail(u, o, k) ==
  /\ work[u][o][k] = "busy"
  /\ Turn(u)
  /\ \E c \in (IF k = "stack" THEN {FALSE, cloud[u]} ELSE {cloud[u]}) :
       cloud' = [cloud EXCEPT ![u] = c]
  /\ SetJob(u, o, k, "failed")
  /\ IF row[u][k].run = o
       THEN SaveStage(u, o, k, "failed") /\ SetWork(u, o, k, "exc")
       ELSE SetWork(u, o, k, "ended") /\ UNCHANGED row
  /\ UNCHANGED <<units, size, sandbox, ready, locked, creq, op, left>>

\* Mutant: only jobs of allocation requests are looked up.
HandleAllocationOnly(u, o, k) ==
  LET S == RequestKinds(k)
      found == row[u][k].run = o /\ row[u][k].rq /\ k \in AllocKinds
  IN /\ work[u][o][k] = "exc"
     /\ Turn(u)
     /\ SetWork(u, o, k, "ended")
     /\ left' = [left EXCEPT ![u][<<o, k>>] =
                   IF found /\ HasStages(u, S) THEN Snapshot(u, S) ELSE {}]
     /\ UNCHANGED <<units, size, sandbox, ready, locked, creq, row, op, job, cloud>>

\* request_exception_handler finds the request through the RQJob row.
RequestExceptionHandler(u, o, k) ==
  LET S == RequestKinds(k)
      found == row[u][k].run = o /\ row[u][k].rq
  IN /\ work[u][o][k] = "exc"
     /\ Turn(u)
     /\ SetWork(u, o, k, "ended")
     /\ left' = [left EXCEPT ![u][<<o, k>>] =
                   IF found /\ HasStages(u, S) THEN Snapshot(u, S) ELSE {}]
     /\ UNCHANGED <<units, size, sandbox, ready, locked, creq, row, op, job, cloud>>

\* StageHandler.cancel of the stage with the highest rank among those left.
CancelStage(u, c) ==
  \E s \in left[u][c] :
    LET k == s[1]
        o == s[2]
    IN /\ \A t \in left[u][c] : Rank[t[1]] <= Rank[k]
       /\ Turn(u)
       /\ IF row[u][k].run = o
            THEN /\ SaveStage(u, o, k, "failed")
                 /\ IF row[u][k].rq
                      THEN job' = [job EXCEPT ![u][o] = DeletedJob(@, Deps(u, o), k)]
                      ELSE UNCHANGED job
                 /\ left' = [left EXCEPT ![u][c] = @ \ {s}]
                 /\ UNCHANGED op
            ELSE /\ left' = [left EXCEPT ![u][c] = {}]
                 /\ IF c[2] = "web" THEN SetPc(u, c[1], "failed") ELSE UNCHANGED op
                 /\ UNCHANGED <<row, job>>
       /\ UNCHANGED <<units, size, sandbox, ready, locked, creq, work, cloud>>

\* _mark_sandbox_as_ready saves the pickled sandbox: an UPDATE, or an INSERT if
\* its row is gone and nothing took its place.
MarkSandboxAsReady(u, o) ==
  /\ op[u][o].plan \subseteq AllocKinds
  /\ job[u][o]["final"] = "queued"
  /\ Turn(u)
  /\ IF u \in units /\ sandbox[u] \in {0, o}
       THEN /\ sandbox' = [sandbox EXCEPT ![u] = o]
            /\ ready' = [ready EXCEPT ![u] = TRUE]
            /\ Succeed(u, o, "final")
            /\ SetWork(u, o, "final", "succeeded")
       ELSE /\ SetJob(u, o, "final", "failed")
            /\ SetWork(u, o, "final", "ended")
            /\ UNCHANGED <<sandbox, ready>>
  /\ UNCHANGED <<units, size, locked, creq, row, op, left, cloud>>

\* Mutant: the size column accepts negative values.
DecrementUnchecked(u, o) ==
  /\ op[u][o].plan \subseteq CleanupKinds
  /\ job[u][o]["final"] = "queued"
  /\ Turn(u)
  /\ size' = size - 1
  /\ SetJob(u, o, "final", "started")
  /\ SetWork(u, o, "final", "decremented")
  /\ UNCHANGED <<units, sandbox, ready, locked, creq, row, op, left, cloud>>

\* Mutant: the pool is saved with the size it was read with.
DecrementLost(u, o) ==
  /\ op[u][o].plan \subseteq CleanupKinds
  /\ job[u][o]["final"] = "queued"
  /\ Turn(u)
  /\ SetJob(u, o, "final", "started")
  /\ SetWork(u, o, "final", "decremented")
  /\ UNCHANGED <<units, size, sandbox, ready, locked, creq, row, op, left, cloud>>

\* _delete_allocation_unit, its first transaction; the size column refuses a
\* negative value.
DecrementPoolSize(u, o) ==
  /\ op[u][o].plan \subseteq CleanupKinds
  /\ job[u][o]["final"] = "queued"
  /\ Turn(u)
  /\ IF size > 0
       THEN /\ size' = size - 1
            /\ SetJob(u, o, "final", "started")
            /\ SetWork(u, o, "final", "decremented")
       ELSE /\ SetJob(u, o, "final", "failed")
            /\ SetWork(u, o, "final", "ended")
            /\ UNCHANGED size
  /\ UNCHANGED <<units, sandbox, ready, locked, creq, row, op, left, cloud>>

\* The rest of it: a sandbox protects its unit, everything else goes with it.
DeleteAllocationUnit(u, o) ==
  /\ work[u][o]["final"] = "decremented"
  /\ Turn(u)
  /\ IF sandbox[u] # 0
       THEN /\ SetJob(u, o, "final", "failed")
            /\ SetWork(u, o, "final", "ended")
            /\ UNCHANGED <<units, creq, row>>
       ELSE /\ units' = units \ {u}
            /\ creq' = [creq EXCEPT ![u] = 0]
            /\ row' = [row EXCEPT ![u] = [k \in Kinds |-> NoRow]]
            /\ Succeed(u, o, "final")
            /\ SetWork(u, o, "final", "succeeded")
  /\ UNCHANGED <<size, sandbox, ready, locked, op, left, cloud>>

\* The process executing a job is killed: rq marks the job failed and calls no
\* exception handler.
CrashJob(u, o, j) ==
  /\ "crash" \in Faults
  /\ work[u][o][j] \in {"picked", "busy", "decremented"}
  /\ SetJob(u, o, j, "failed")
  /\ SetWork(u, o, j, "dead")
  /\ UNCHANGED <<units, size, sandbox, ready, locked, creq, row, op, left, cloud>>

CrashOrchestration(u, o) ==
  /\ "crash" \in Faults
  /\ op[u][o].pc \in {"queued", "restage", "enqueue", "setid"}
  /\ FailOrchestration(u, o)

-----------------------------------------------------------------------------
WebRequest(u) ==
  \/ CreateAllocationsRequests(u)
  \/ DeleteCleanupRequest(u)
  \/ LockSandbox(u)
  \/ UnlockSandbox(u)
  \/ \E o \in Ops : \/ RestartRequest(u, o)
                    \/ CancelAllocationRequest(u, o)
                    \/ CancelCleanupRequest(u, o)
                    \/ CreateCleanupRequest(u, o)
                    \/ CreateCleanupRequestForce(u, o)

WebContinues(u, o) == CancelDone(u, o) \/ DeleteSandbox(u, o)

Orchestration(u, o) ==
  \/ CreateAllocationJobs(u, o)
  \/ ReplaceSandbox(u, o)
  \/ RestartStageHandlers(u, o)
  \/ CreateCleanupJobs(u, o)
  \/ EnqueueStage(u, o)
  \/ SetJobId(u, o)
  \/ EnqueueFinalizer(u, o)

Execution(u, o) ==
  \/ \E k \in Kinds : \/ TakeJob(u, o, k)
                      \/ ExecuteStart(u, o, k)
                      \/ ExecuteEnd(u, o, k)
                      \/ ExecuteFail(u, o, k)
                      \/ RequestExceptionHandler(u, o, k)
  \/ TakeJob(u, o, "netbird")
  \/ ProvisionNetbird(u, o)
  \/ MarkSandboxAsReady(u, o)
  \/ DecrementPoolSize(u, o)
  \/ DeleteAllocationUnit(u, o)

Crash(u, o) == CrashOrchestration(u, o) \/ \E j \in Jobs : CrashJob(u, o, j)

Next ==
  \E u \in Units :
    \/ WebRequest(u)
    \/ \E o \in Ops : \/ WebContinues(u, o)
                      \/ Orchestration(u, o)
                      \/ Execution(u, o)
                      \/ Crash(u, o)
    \/ \E c \in Cancellers : CancelStage(u, c)

Spec == Init /\ [][Next]_vars

\* Workers and web servers go on as long as there is something to do: rq runs
\* every queued job, stages end by themselves or by the timeout of their queue.
\* Operators are under no obligation.
Progress(u) ==
  \/ \E o \in Ops : WebContinues(u, o) \/ Orchestration(u, o) \/ Execution(u, o)
  \/ \E c \in Cancellers : CancelStage(u, c)

FairSpec == Spec /\ \A u \in Units : WF_vars(Progress(u))

-----------------------------------------------------------------------------
(* What the system promises. *)

\* A finalizer has counted the unit out of its pool and not deleted it yet.
CountedOut(u) == \E o \in Ops : work[u][o]["final"] = "decremented"

\* Pool.size, from which the free capacity is computed, never counts a unit that
\* is gone or that a finalizer has counted out: the requests and jobs of the units
\* never take capacity away for good.  (Editing the pool itself is the subject of
\* module PoolCapacity.)
PoolSizeNeverOvercounts == size <= Cardinality({u \in units : ~CountedOut(u)})

\* Pool.size is the number of allocation units of the pool, whenever no operation
\* is under way ("Current amount of Allocation Units associated with this pool"),
\* unless a worker has died between the two transactions of a finalizer.
PoolSizeExact ==
  /\ \A u \in Units : Quiet(u)
  /\ \A u \in Units, o \in Ops : work[u][o]["final"] # "dead"
  => size = Cardinality(units)

\* Pool.size is "Current amount of Allocation Units associated with this pool": so it
\* is whenever no operation is under way.  This does not hold: a finalizer that dies
\* between its two transactions, or finds a sandbox brought back by the finalizer of
\* the allocation, has counted out a unit that stays.
SizeAsDocumented == (\A u \in Units : Quiet(u)) => size = Cardinality(units)

\* Every stage of a request, and its finalizer, is handed to a worker only after
\* all the stages enqueued before it have succeeded, the user stage also after the
\* NetBird job: whatever is cancelled, restarted or cleaned up meanwhile.
StagesRunInOrder ==
  \A u \in Units, o \in Ops : \A j \in op[u][o].plan \union {"final"} :
    \/ job[u][o][j] \in {"queued", "started", "finished"}
    \/ work[u][o][j] # "idle"
    => /\ \A k \in op[u][o].plan :
            j = "final" \/ Rank[k] < Rank[j] => work[u][o][k] = "succeeded"
       /\ j = "user" /\ Netbird => work[u][o]["netbird"] = "succeeded"

\* When nothing of a unit is under way any more, no request of it hangs: all its
\* stages exist and are finished, so that it can be restarted or cleaned up.
QuietUnitIsSettled ==
  \A u \in units : Quiet(u) =>
    /\ HasStages(u, AllocKinds) /\ IsFinished(u, AllocKinds)
    /\ creq[u] # 0 => HasStages(u, CleanupKinds) /\ IsFinished(u, CleanupKinds)

\* A unit is deleted from the database only after its cloud resources are.
NothingLeftBehind == \A u \in Units : u \notin units => ~cloud[u]

\* A sandbox is ready for trainings only if every stage that builds it, restarted
\* or not, has succeeded and its cloud resources are there.
ReadyMeansAllocated ==
  \A u \in Units : ready[u] =>
    cloud[u] /\ \A k \in AllocKinds : row[u][k].st = "done"

\* A locked sandbox is neither deleted nor replaced, by whatever request found it
\* unlocked and reached its deletion later.
LockedSandboxKept ==
  [][\A u \in Units : locked[u] => sandbox'[u] = sandbox[u]]_vars

\* A ready sandbox is lost only to a cleanup of its unit: "Only failed stages can
\* be restarted."  This does not hold: a restart replaces the sandbox before it is
\* refused.
ReadySandboxKept ==
  [][\A u \in Units :
       ready[u] => ready'[u] \/ \E o \in Ops : op[u][o].pc = "delete"]_vars

\* A request in progress finishes, whatever fails and whoever cancels: the failure
\* of a stage finishes the stages that wait for it.
RequestsSettle ==
  \A u \in Units :
    /\ ~IsFinished(u, AllocKinds) ~> IsFinished(u, AllocKinds)
    /\ ~IsFinished(u, CleanupKinds) ~> IsFinished(u, CleanupKinds)
=============================================================================
