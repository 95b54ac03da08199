--------------------------- MODULE StackDirectory ---------------------------
(***************************************************************************)
(* The stack of one allocation unit: the stages that build and delete it,  *)
(* and the web requests that read it, through the same directory of files, *)
(* the same terraform workspace and the same state.  Nothing but the lock  *)
(* on the state, which terraform takes itself, keeps them from one another.*)
(*                                                                         *)
(* Every build is an allocation stage (a restart makes a new one), every   *)
(* cleanup a cleanup stage; each is executed by a job, and starts at most  *)
(* one terraform process that changes the stack at a time.                 *)
(***************************************************************************)
EXTENDS Naturals, FiniteSets

CONSTANTS
  Resources,    \* the resources of the stack
  Readers,      \* web requests that ask for the state of the stack
  MaxBuilds,    \* the first allocation and its restarts
  MaxCleanups,  \* cleanups, each asked for after the one before has failed
  Faults        \* what may go wrong: see FaultKinds

(***************************************************************************)
(* "cloud":     making or removing a resource fails.                       *)
(* "timeout":   a job is timed out, wherever it is.                        *)
(* "astray":    a restart comes upon a directory that a job, timed out     *)
(*              while it deleted the workspace, has left on the default.   *)
(* "lost":      the directory of a stack that is built is lost, by a pod   *)
(*              that is replaced while nothing runs in it.                 *)
(* "lost all":  so is the one of a build that has failed.                  *)
(* "init":      terraform init or workspace select fails in a deletion.    *)
(* "workspace": a workspace is made, or is not deleted, and terraform      *)
(*              reports a failure.                                         *)
(* "early":     a cancellation comes before the process id is saved.       *)
(* "overlap":   a restart is asked for while a cancelled job still runs.   *)
(***************************************************************************)
FaultKinds == {"cloud", "timeout", "astray", "lost", "lost all", "init",
               "workspace", "early", "overlap"}

ASSUME ConstantsAssumption ==
  /\ MaxBuilds \in Nat \ {0}
  /\ MaxCleanups \in Nat
  /\ Readers \cap (1..(MaxBuilds + MaxCleanups)) = {}
  /\ Faults \subseteq FaultKinds

Builds == 1..MaxBuilds
Cleanups == (MaxBuilds + 1)..(MaxBuilds + MaxCleanups)
Jobs == Builds \union Cleanups
Actors == Jobs \union Readers
Workspaces == {"default", "stack"}

VARIABLES
  dir,         \* the directory of the stack
  file,        \* what the file terraform.tfstate in it holds: a state or nothing
  workspaces,  \* the workspaces the backend has
  recorded,    \* the resources that exist, by the workspace whose state has them
  lock,        \* who holds the lock on the state of a workspace
  at,          \* where each actor is
  result,      \* how it ended
  tofu,        \* the terraform process that each job has started
  stage,       \* the row of the current allocation stage
  build,       \* the number of the current build
  cleanup,     \* the number of the last cleanup asked for, 0 when there is none
  answer       \* the state each reader has answered, if it has

vars == <<dir, file, workspaces, recorded, lock, at, result, tofu, stage, build,
          cleanup, answer>>

NoDirectory == [there |-> FALSE, initialised |-> FALSE, selected |-> "default"]
NoProcess == [command |-> "none", state |-> "none", in |-> "default",
              ok |-> FALSE, stopping |-> FALSE]
NewStage == [started |-> FALSE, finished |-> FALSE, failed |-> FALSE, pid |-> 0]

DeletionSteps == {"delete", "init deletion", "select deletion", "destroy", "destroying",
                  "leave", "delete workspace", "remove"}
BuildSteps == {"files", "init", "new", "apply", "save", "applying"}
ReadSteps == {"files", "init", "select", "pull", "write", "read"}
Idle == {"idle", "queued", "over"}
Steps == Idle \union DeletionSteps \union BuildSteps \union ReadSteps

TypeOK ==
  /\ dir \in [there : BOOLEAN, initialised : BOOLEAN, selected : Workspaces]
  /\ file \in SUBSET SUBSET Resources /\ Cardinality(file) <= 1
  /\ ~dir.there => dir = NoDirectory /\ file = {}
  /\ workspaces \in SUBSET Workspaces /\ "default" \in workspaces
  /\ recorded \in [Workspaces -> SUBSET Resources]
  /\ recorded["stack"] # {} => "stack" \in workspaces
  /\ lock \in [Workspaces -> Jobs \union {0}]
  /\ at \in [Actors -> Steps]
  /\ result \in [Actors -> {"none", "done", "build failed", "error"}]
  /\ tofu \in [Jobs -> [command : {"none", "apply", "destroy"},
                        state : {"none", "starting", "working", "exited"},
                        in : Workspaces, ok : BOOLEAN, stopping : BOOLEAN]]
  /\ stage \in [started : BOOLEAN, finished : BOOLEAN, failed : BOOLEAN,
                pid : Builds \union {0}]
  /\ build \in Builds
  /\ cleanup \in Cleanups \union {0}
  /\ answer \in [Readers -> SUBSET SUBSET Resources]

Init ==
  /\ dir = NoDirectory /\ file = {}
  /\ workspaces = {"default"}
  /\ recorded = [w \in Workspaces |-> {}]
  /\ lock = [w \in Workspaces |-> 0]
  /\ at = [a \in Actors |-> IF a = 1 THEN "queued" ELSE "idle"]
  /\ result = [a \in Actors |-> "none"]
  /\ tofu = [j \in Jobs |-> NoProcess]
  /\ stage = NewStage
  /\ build = 1 /\ cleanup = 0
  /\ answer = [r \in Readers |-> {}]

------------------------------------------------------------------------------
(* Helpers *)

GoTo(a, step) == at' = [at EXCEPT ![a] = step] /\ UNCHANGED <<result, stage>>

\* A reader answers or raises.  A job ends with execute's last save, which
\* overwrites what a cancellation has written; the row of an earlier build is
\* gone.
Ends(a, r) ==
  /\ at' = [at EXCEPT ![a] = "over"]
  /\ result' = [result EXCEPT ![a] = r]
  /\ stage' = IF a = build
              THEN [stage EXCEPT !.finished = TRUE, !.failed = (r # "done")]
              ELSE stage

\* A command cannot be started outside the directory: the error is none of the
\* platform's own, and no handler deletes anything.
CannotStart(a) == ~dir.there /\ Ends(a, "error") /\ UNCHANGED <<dir, workspaces>>

\* wait_for_process, once the output has been read to its end.
HasEnded(j) == tofu[j].state = "exited"

SelectWorkspace(w) ==
  /\ dir.initialised /\ w \in workspaces
  /\ dir' = [dir EXCEPT !.selected = w]

NoFiles == UNCHANGED <<dir, file, workspaces>>
NoState == UNCHANGED <<recorded, lock>>
NoProcesses == UNCHANGED tofu
NoRequests == UNCHANGED <<build, cleanup, answer>>

------------------------------------------------------------------------------
(* What builds, deletions and readers have in common: _initialize_stack_dir *)

CreateFiles(a) ==
  /\ at[a] \in {"files", "delete"}
  /\ dir' = [dir EXCEPT !.there = TRUE]
  /\ GoTo(a, IF at[a] = "files" THEN "init" ELSE "init deletion")
  /\ UNCHANGED <<file, workspaces>>
  /\ NoState /\ NoProcesses /\ NoRequests

\* A build that cannot initialise goes on to delete, a deletion skips the destroy.
InitTerraform(a) ==
  /\ at[a] \in {"init", "init deletion"}
  /\ \/ /\ dir.there
        /\ dir' = [dir EXCEPT !.initialised = TRUE]
        /\ GoTo(a, CASE at[a] = "init deletion" -> "select deletion"
                     [] at[a] = "init" /\ a \in Builds -> "new"
                     [] at[a] = "init" /\ a \notin Builds -> "select")
     \/ /\ dir.there /\ at[a] = "init"
        /\ IF a \in Builds THEN GoTo(a, "delete") ELSE Ends(a, "error")
        /\ UNCHANGED dir
     \/ /\ dir.there /\ at[a] = "init deletion" /\ "init" \in Faults
        /\ GoTo(a, "leave")
        /\ UNCHANGED dir
     \/ CannotStart(a)
  /\ UNCHANGED <<file, workspaces>>
  /\ NoState /\ NoProcesses /\ NoRequests

------------------------------------------------------------------------------
(* AllocationStackStageHandler *)

\* The definition is read before the handler of exceptions is set up.
StartBuild(j) ==
  /\ j \in Builds /\ at[j] = "queued"
  /\ \/ /\ at' = [at EXCEPT ![j] = "files"]
        /\ stage' = [stage EXCEPT !.started = TRUE]
        /\ UNCHANGED result
     \/ Ends(j, "error")
  /\ NoFiles /\ NoState /\ NoProcesses /\ NoRequests

\* create_terraform_workspace: up to five tries.  That the workspace exists is
\* no failure, but then terraform has not selected it.
CreateWorkspace(j) ==
  /\ at[j] = "new"
  /\ \/ /\ dir.there /\ "stack" \notin workspaces
        /\ workspaces' = workspaces \union {"stack"}
        /\ dir' = [dir EXCEPT !.selected = "stack"]
        /\ GoTo(j, "apply")
     \/ /\ dir.there /\ "stack" \in workspaces
        /\ GoTo(j, "apply")
        /\ UNCHANGED <<dir, workspaces>>
     \/ /\ dir.there /\ "stack" \notin workspaces
        /\ GoTo(j, "delete")
        /\ UNCHANGED <<dir, workspaces>>
     \/ /\ dir.there /\ "stack" \notin workspaces /\ "workspace" \in Faults
        /\ workspaces' = workspaces \union {"stack"}
        /\ UNCHANGED <<dir, at, result, stage>>
     \/ CannotStart(j)
  /\ UNCHANGED file /\ NoState /\ NoProcesses /\ NoRequests

StartTerraform(j, from, command, to) ==
  /\ at[j] = from
  /\ \/ /\ dir.there
        /\ tofu' = [tofu EXCEPT ![j] =
                      [NoProcess EXCEPT !.command = command, !.state = "starting"]]
        /\ GoTo(j, to)
     \/ CannotStart(j) /\ NoProcesses
  /\ NoFiles /\ NoState /\ NoRequests

StartApply(j) == StartTerraform(j, "apply", "apply", "save")

\* A stage that a restart has replaced cannot be referred to.
SaveProcess(j) ==
  /\ at[j] = "save"
  /\ IF j = build
     THEN /\ at' = [at EXCEPT ![j] = "applying"]
          /\ stage' = [stage EXCEPT !.pid = j]
          /\ UNCHANGED result
     ELSE Ends(j, "error")
  /\ NoFiles /\ NoState /\ NoProcesses /\ NoRequests

\* Mutant: the build that fails deletes nothing.
BuildEndsAtOnce(j) ==
  /\ at[j] = "applying" /\ HasEnded(j)
  /\ Ends(j, IF tofu[j].ok THEN "done" ELSE "build failed")
  /\ NoFiles /\ NoState /\ NoProcesses /\ NoRequests

ApplyEnds(j) ==
  /\ at[j] = "applying" /\ HasEnded(j)
  /\ IF tofu[j].ok THEN Ends(j, "done") ELSE GoTo(j, "delete")
  /\ NoFiles /\ NoState /\ NoProcesses /\ NoRequests

\* Mutant: only builds time out.
OnlyBuildsTimeOut(j) ==
  /\ "timeout" \in Faults
  /\ j \in Builds /\ at[j] \notin Idle /\ tofu[j].state # "starting"
  /\ Ends(j, "error")
  /\ NoFiles /\ NoState /\ NoProcesses /\ NoRequests

\* rq's alarm rings wherever the job is, and is no exception of the platform
\* either: the process goes on, the directory and the workspace stay as they are.
\* Terraform is past its start long before.
Timeout(j) ==
  /\ "timeout" \in Faults
  /\ at[j] \notin Idle /\ tofu[j].state # "starting"
  /\ Ends(j, "error")
  /\ NoFiles /\ NoState /\ NoProcesses /\ NoRequests

------------------------------------------------------------------------------
(* _delete_stack, by a build that has failed or by a cleanup *)

StartCleanup(j) ==
  /\ j \in Cleanups /\ at[j] = "queued"
  /\ GoTo(j, "delete")
  /\ NoFiles /\ NoState /\ NoProcesses /\ NoRequests

\* Mutant: the deletion goes on in the workspace that happens to be selected.
DestroyWhateverSelected(j) ==
  /\ at[j] = "select deletion"
  /\ GoTo(j, IF dir.initialised THEN "destroy" ELSE "leave")
  /\ NoFiles /\ NoState /\ NoProcesses /\ NoRequests

\* Without the workspace there is nothing to destroy.
SelectForDeletion(j) ==
  /\ at[j] = "select deletion"
  /\ \/ dir.there /\ SelectWorkspace("stack") /\ GoTo(j, "destroy")
     \/ /\ dir.there
        /\ ~dir.initialised \/ "stack" \notin workspaces \/ "init" \in Faults
        /\ GoTo(j, "leave")
        /\ UNCHANGED dir
     \/ CannotStart(j)
  /\ UNCHANGED <<file, workspaces>> /\ NoState /\ NoProcesses /\ NoRequests

StartDestroy(j) == StartTerraform(j, "destroy", "destroy", "destroying")

\* Mutant: the directory is removed whether the destroy worked or not.
RemoveAnyway(j) ==
  /\ at[j] = "destroying" /\ HasEnded(j)
  /\ GoTo(j, IF tofu[j].ok THEN "leave" ELSE "remove")
  /\ NoFiles /\ NoState /\ NoProcesses /\ NoRequests

DestroyEnds(j) ==
  /\ at[j] = "destroying" /\ HasEnded(j)
  /\ IF tofu[j].ok THEN GoTo(j, "leave") ELSE Ends(j, "error")
  /\ NoFiles /\ NoState /\ NoProcesses /\ NoRequests

\* delete_terraform_workspace: a failure is only logged.
LeaveWorkspace(j) ==
  /\ at[j] = "leave"
  /\ \/ dir.there /\ SelectWorkspace("default") /\ GoTo(j, "delete workspace")
     \/ dir.there /\ ~dir.initialised /\ GoTo(j, "remove") /\ UNCHANGED dir
     \/ CannotStart(j)
  /\ UNCHANGED <<file, workspaces>> /\ NoState /\ NoProcesses /\ NoRequests

Deletable == /\ dir.initialised /\ dir.selected # "stack"
             /\ recorded["stack"] = {} /\ lock["stack"] = 0

DeleteWorkspace(j) ==
  /\ at[j] = "delete workspace"
  /\ \/ /\ dir.there /\ Deletable
        /\ workspaces' = workspaces \ {"stack"}
        /\ GoTo(j, "remove")
     \/ /\ dir.there
        /\ ~Deletable \/ "workspace" \in Faults
        /\ GoTo(j, "remove")
        /\ UNCHANGED workspaces
     \/ CannotStart(j)
  /\ UNCHANGED <<dir, file>> /\ NoState /\ NoProcesses /\ NoRequests

RemoveDirectory(j) ==
  /\ at[j] = "remove"
  /\ IF dir.there
     THEN Ends(j, IF j \in Builds THEN "build failed" ELSE "done")
     ELSE Ends(j, "error")
  /\ dir' = NoDirectory /\ file' = {}
  /\ UNCHANGED workspaces /\ NoState /\ NoProcesses /\ NoRequests

------------------------------------------------------------------------------
(* Terraform: apply and destroy *)

\* It reads what is selected, and takes the lock on that workspace or gives up.
TakeLock(j) ==
  /\ tofu[j].state = "starting"
  /\ LET w == dir.selected
         can == /\ dir.initialised /\ w \in workspaces /\ lock[w] = 0
                /\ ~tofu[j].stopping
     IN IF can
        THEN /\ tofu' = [tofu EXCEPT ![j].state = "working", ![j].in = w]
             /\ lock' = [lock EXCEPT ![w] = j]
        ELSE /\ tofu' = [tofu EXCEPT ![j].state = "exited"]
             /\ UNCHANGED lock
  /\ UNCHANGED <<recorded, at, result, stage>>
  /\ NoFiles /\ NoRequests

Change(j) ==
  /\ tofu[j].state = "working"
  /\ LET w == tofu[j].in
     IN IF tofu[j].command = "apply"
        THEN \E r \in Resources \ recorded[w] :
               recorded' = [recorded EXCEPT ![w] = @ \union {r}]
        ELSE \E r \in recorded[w] : recorded' = [recorded EXCEPT ![w] = @ \ {r}]
  /\ UNCHANGED <<lock, at, result, stage>>
  /\ NoFiles /\ NoProcesses /\ NoRequests

Exit(j) ==
  /\ tofu[j].state = "working"
  /\ LET w == tofu[j].in
         complete == recorded[w] = IF tofu[j].command = "apply" THEN Resources ELSE {}
     IN \E ok \in BOOLEAN :
          /\ ok => complete
          /\ ~ok => "cloud" \in Faults \/ tofu[j].stopping
          /\ tofu' = [tofu EXCEPT ![j].state = "exited", ![j].ok = ok]
          /\ lock' = [lock EXCEPT ![w] = 0]
  /\ UNCHANGED <<recorded, at, result, stage>>
  /\ NoFiles /\ NoRequests

------------------------------------------------------------------------------
(* _pull_terraform_state and list_stack_resources *)

\* Any request that needs the resources of a ready sandbox: all of them start with
\* list_stack_resources, and miss what it does not name.
AskRead(r) ==
  /\ at[r] = "idle"
  /\ stage.finished /\ ~stage.failed /\ cleanup = 0
  /\ GoTo(r, "files")
  /\ NoFiles /\ NoState /\ NoProcesses /\ NoRequests

\* Mutant: the state is pulled from what happens to be selected.
ReadWhateverSelected(r) ==
  /\ at[r] = "select"
  /\ GoTo(r, "pull")
  /\ NoFiles /\ NoState /\ NoProcesses /\ NoRequests

SelectForReading(r) ==
  /\ at[r] = "select"
  /\ \/ dir.there /\ SelectWorkspace("stack") /\ GoTo(r, "pull")
     \/ Ends(r, "error") /\ UNCHANGED dir
  /\ UNCHANGED <<file, workspaces>> /\ NoState /\ NoProcesses /\ NoRequests

TruncateFile(r) ==
  /\ at[r] = "pull"
  /\ IF dir.there THEN file' = {} /\ GoTo(r, "write")
                  ELSE Ends(r, "error") /\ UNCHANGED file
  /\ UNCHANGED <<dir, workspaces>> /\ NoState /\ NoProcesses /\ NoRequests

PullState(r) ==
  /\ at[r] = "write"
  /\ \/ /\ dir.initialised /\ dir.selected \in workspaces
        /\ file' = {recorded[dir.selected]}
        /\ GoTo(r, "read")
     \/ Ends(r, "error") /\ UNCHANGED file
  /\ UNCHANGED <<dir, workspaces>> /\ NoState /\ NoProcesses /\ NoRequests

\* An empty file is no JSON.
ReadFile(r) ==
  /\ at[r] = "read"
  /\ answer' = [answer EXCEPT ![r] = file]
  /\ Ends(r, IF file = {} THEN "error" ELSE "done")
  /\ NoFiles /\ NoState /\ NoProcesses
  /\ UNCHANGED <<build, cleanup>>

------------------------------------------------------------------------------
(* Requests on the unit *)

\* _cancel of the allocation stage: a process that has ended is not found.
StopProcess ==
  tofu' = IF stage.pid # 0 /\ tofu[build].command = "apply"
          THEN [tofu EXCEPT ![build].stopping = TRUE]
          ELSE tofu

\* cancel: a job in the queue is deleted, a process that is known is signalled,
\* and the stage is finished, whatever its job still does.
Cancel ==
  /\ ~stage.finished
  /\ \/ stage.pid # 0 \/ "early" \in Faults
     \/ at[build] \in DeletionSteps \union {"queued"}
  /\ at' = IF at[build] = "queued" THEN [at EXCEPT ![build] = "over"] ELSE at
  /\ StopProcess
  /\ stage' = [stage EXCEPT !.finished = TRUE, !.failed = TRUE]
  /\ UNCHANGED result
  /\ NoFiles /\ NoState /\ NoRequests

\* The workspace that was to be deleted is there, and will not be selected again.
Astray == dir.there /\ dir.selected = "default" /\ "stack" \in workspaces

\* restart_request: the failed stage is replaced.  There is a sandbox until a
\* cleanup is asked for.
Restart ==
  /\ stage.finished /\ stage.failed /\ cleanup = 0
  /\ build < MaxBuilds
  /\ at[build] = "over" \/ "overlap" \in Faults
  /\ ~Astray \/ "astray" \in Faults
  /\ build' = build + 1
  /\ stage' = NewStage
  /\ at' = [at EXCEPT ![build + 1] = "queued"]
  /\ UNCHANGED <<result, cleanup, answer>>
  /\ NoFiles /\ NoState /\ NoProcesses

\* create_cleanup_request, after the request of a failed cleanup has been deleted.
AskCleanup ==
  /\ stage.finished
  /\ LET next == IF cleanup = 0 THEN MaxBuilds + 1 ELSE cleanup + 1
     IN /\ next \in Cleanups
        /\ cleanup # 0 => at[cleanup] = "over" /\ result[cleanup] = "error"
        /\ cleanup' = next
        /\ at' = [at EXCEPT ![next] = "queued"]
  /\ UNCHANGED <<result, stage, build, answer>>
  /\ NoFiles /\ NoState /\ NoProcesses

\* A new pod starts with empty directories; the state is elsewhere.
LoseDirectory ==
  /\ dir.there
  /\ \/ "lost" \in Faults /\ stage.finished /\ ~stage.failed
     \/ "lost all" \in Faults
  /\ \A a \in Actors : at[a] \in Idle
  /\ \A j \in Jobs : tofu[j].state \in {"none", "exited"}
  /\ dir' = NoDirectory /\ file' = {}
  /\ UNCHANGED <<workspaces, at, result, stage>>
  /\ NoState /\ NoProcesses /\ NoRequests

------------------------------------------------------------------------------
(* The specification *)

Deletes(j) ==
  \/ SelectForDeletion(j) \/ StartDestroy(j) \/ DestroyEnds(j)
  \/ LeaveWorkspace(j) \/ DeleteWorkspace(j) \/ RemoveDirectory(j)

JobStep(j) ==
  \/ CreateFiles(j) \/ InitTerraform(j)
  \/ StartBuild(j) \/ CreateWorkspace(j) \/ StartApply(j) \/ SaveProcess(j) \/ ApplyEnds(j)
  \/ StartCleanup(j) \/ Deletes(j)
  \/ Timeout(j)

Terraform(j) == TakeLock(j) \/ Change(j) \/ Exit(j)

ReaderStep(r) ==
  \/ AskRead(r) \/ CreateFiles(r) \/ InitTerraform(r) \/ SelectForReading(r)
  \/ TruncateFile(r) \/ PullState(r) \/ ReadFile(r)

Next ==
  \/ \E j \in Jobs : JobStep(j) \/ Terraform(j)
  \/ \E r \in Readers : ReaderStep(r)
  \/ Cancel \/ Restart \/ AskCleanup
  \/ LoseDirectory

Spec == Init /\ [][Next]_vars

\* Workers go on with their jobs, and rq ends the ones that wait for too long;
\* terraform gets as far as the lock, or reports that it cannot.
FairSpec == Spec /\ \A j \in Jobs : WF_vars(JobStep(j)) /\ WF_vars(TakeLock(j))

------------------------------------------------------------------------------
(* Properties *)

\* The resources that exist, each with the workspace that knows of it.
Cloud == {x \in Workspaces \X Resources : x[2] \in recorded[x[1]]}

Promise == INSTANCE StackPromise WITH
  Resources <- Workspaces \X Resources,
  Complete <- {"stack"} \X Resources,
  cloud <- Cloud,
  phase <- CASE \E c \in Cleanups : result[c] = "done" -> "cleaned"
             [] cleanup # 0 /\ (\A c \in Cleanups : result[c] # "done") -> "cleaning"
             [] cleanup = 0 /\ result[build] = "done" /\ ~stage.failed -> "built"
             [] OTHER -> "building"

\* A stage reported done has all its resources, in the workspace that the other
\* stages and the web requests look into; a cleanup reported done has left none,
\* and nothing is made behind its back: the directory, the commands and their
\* failures implement the promise.
ImplementsPromise == Promise!Spec

\* Nothing is made outside the workspace of the stack, though another actor may
\* select, delete or lose the workspace between the commands: what is made in
\* the default one no other stage would find.
OwnWorkspace ==
  \A j \in Jobs : tofu[j].state = "working" /\ tofu[j].command = "apply" =>
                   tofu[j].in = "stack"

\* A build that reports a failure of its own has removed whatever it made, so
\* that a restart starts from nothing.
FailedBuildLeavesNothing ==
  result[build] = "build failed" /\ cleanup = 0 =>
    /\ Cloud = {} /\ "stack" \notin workspaces
    /\ ~dir.there /\ lock["stack"] = 0

\* A reader that answers names every resource that still exists; when the
\* directory changes under it, it raises rather than answers with less.
ReadersTrue ==
  \A r \in Readers : \A s \in answer[r] : recorded["stack"] \subseteq s

\* "Delete stack associated with the given allocation unit", says _delete_stack of
\* itself: a cleanup that is done has deleted all that the stages have made.
DeletionsDelete == \A c \in Cleanups : result[c] = "done" => Cloud = {}

\* A deletion that goes on without a destroy has nothing to destroy: a directory that
\* cannot be initialised is none to worry about, says _delete_stack, "because creation
\* failed to initialize as well".
SkippedHadNothing ==
  \A j \in Jobs : at[j] = "leave" /\ tofu[j].command # "destroy" => Cloud = {}

\* Every job that runs comes to its end, also when terraform never does.
JobsEnd == \A j \in Jobs : at[j] \notin {"idle", "over"} ~> at[j] = "over"
==============================================================================
