----------------------------- MODULE AnsibleRun -----------------------------
(***************************************************************************)
(* The stage that runs an ansible playbook on a sandbox, in a container    *)
(* that outlives the worker's attention: the job prepares a directory,     *)
(* starts the container, copies its log, waits for it and removes it, while*)
(* a web request may cancel the stage, or restart it once it has failed.   *)
(*                                                                         *)
(* Run r is executed by job r for its own row of the stage: a restart      *)
(* replaces the row.  The user's playbook also waits for the NetBird job,  *)
(* which leaves a setup key for the inventory.                             *)
(***************************************************************************)
EXTENDS Naturals, FiniteSets

CONSTANTS
  MaxRuns,   \* the first run of the stage and its restarts
  MaxLines,  \* the lines that a playbook prints
  Backends,  \* where the containers may run: "docker", "kubernetes"
  Faults     \* what may go wrong: see FaultKinds

(***************************************************************************)
(* "refuse":  a step of the job fails, in preparation or at an API.        *)
(* "keep":    the job is refused the removal of its container.             *)
(* "timeout": rq ends a job that has started its container.                *)
(* "crash":   a worker dies.                                               *)
(* "early":   a cancellation comes before a row names the container.       *)
(* "deaf":    a cancellation is refused the removal of the container.      *)
(***************************************************************************)
FaultKinds == {"refuse", "keep", "timeout", "crash", "early", "deaf"}

ASSUME ConstantsAssumption ==
  /\ MaxRuns \in Nat \ {0}
  /\ MaxLines \in Nat
  /\ Backends \subseteq {"docker", "kubernetes"}
  /\ Faults \subseteq FaultKinds

Runs == 1..MaxRuns
Lines == 1..MaxLines
Files == {"ssh", "inventory", "containers", "credentials"}

VARIABLES
  backend,    \* the container manager the configuration chooses
  run,        \* the run of the current row of the stage
  stage,      \* that row
  row,        \* the runs whose container is named by a Container row
  at,         \* where the job of each run is
  result,     \* how it ended
  files,      \* what the run has prepared in its directory
  key,        \* whether the sandbox has a setup key, and the runs that were given it
  container,  \* the container of each run, with its exit code
  deleted,    \* the runs whose kubernetes job is deleted, whether or not its pod is gone
  escaped,    \* history: the runs whose container a cancellation or the finally has missed
  printed,    \* the lines it has printed
  read,       \* those the job has read since it last opened the log
  outputs,    \* how often each line is in the database: never, once, or more
  web         \* the cancellation that is being handled

vars == <<backend, run, stage, row, at, result, files, key, container, deleted, escaped,
          printed, read, outputs, web>>

Preparation == <<"ssh", "inventory", "containers", "credentials", "start">>
Preparing == Files \union {"start"}
Waiting == {"pod", "log", "read", "status"}
Steps == {"idle", "queued", "record", "save", "report", "remove", "give up", "over"}
           \union Preparing \union Waiting
Exists == {"pending", "running", "exited", "noticed"}
NewStage == [finished |-> FALSE, failed |-> FALSE]
NoOutputs == [l \in Lines |-> 0]

TypeOK ==
  /\ backend \in Backends
  /\ run \in Runs
  /\ stage \in [finished : BOOLEAN, failed : BOOLEAN] /\ (stage.failed => stage.finished)
  /\ row \subseteq {run}
  /\ at \in [Runs -> Steps]
  /\ result \in [Runs -> {"none", "done", "error", "kept", "lost", "died"}]
  /\ files \in [Runs -> SUBSET Files]
  /\ key \in [netbird : {"queued", "done"}, there : BOOLEAN, given : SUBSET Runs]
  /\ container \in [Runs -> [state : {"none", "removed"} \union Exists,
                             code : {"none", "ok", "failed"}]]
  /\ deleted \subseteq Runs /\ escaped \subseteq Runs
  /\ printed \in [Runs -> 0..MaxLines]
  /\ read \in [Runs -> 0..MaxLines]
  /\ outputs \in [Runs -> [Lines -> 0..2]]
  /\ web \in [step : {"idle", "stop", "close"}, of : Runs, found : BOOLEAN]

Init ==
  /\ backend \in Backends
  /\ run = 1 /\ stage = NewStage /\ row = {}
  /\ at = [r \in Runs |-> IF r = 1 THEN "queued" ELSE "idle"]
  /\ result = [r \in Runs |-> "none"]
  /\ files = [r \in Runs |-> {}]
  /\ key = [netbird |-> "queued", there |-> FALSE, given |-> {}]
  /\ container = [r \in Runs |-> [state |-> "none", code |-> "none"]]
  /\ deleted = {} /\ escaped = {}
  /\ printed = [r \in Runs |-> 0]
  /\ read = [r \in Runs |-> 0]
  /\ outputs = [r \in Runs |-> NoOutputs]
  /\ web = [step |-> "idle", of |-> 1, found |-> FALSE]

------------------------------------------------------------------------------
(* Helpers *)

GoTo(r, step) == at' = [at EXCEPT ![r] = step] /\ UNCHANGED <<result, stage>>

\* execute ends with a save of the row as the job knows it, over whatever a
\* cancellation has written.  The row of an earlier run is gone.
Ends(r, how) ==
  /\ at' = [at EXCEPT ![r] = "over"]
  /\ result' = [result EXCEPT ![r] = how]
  /\ stage' = IF r = run THEN [finished |-> TRUE, failed |-> (how # "done")] ELSE stage

State(r) == container[r].state
Becomes(r, s) == container' = [container EXCEPT ![r].state = s]
HasExited(r) == State(r) \in {"exited", "noticed"}

\* To the api the container is gone, though the pod of a kubernetes job may run still.
Deleted(r) == State(r) = "removed" \/ r \in deleted

\* delete_container: docker removes what is there, with its log; kubernetes deletes
\* the job, and its pod in the background.
DeleteContainer(r) ==
  /\ State(r) \in Exists /\ r \notin deleted
  /\ IF backend = "docker"
     THEN Becomes(r, "removed") /\ UNCHANGED deleted
     ELSE deleted' = deleted \union {r} /\ UNCHANGED container

NoRequests == UNCHANGED <<backend, run, web>>
NoDeletion == UNCHANGED <<deleted, escaped>>
NoContainer == UNCHANGED <<container, printed>> /\ NoDeletion
NoLog == UNCHANGED <<read, outputs>>

------------------------------------------------------------------------------
(* The NetBird job: with its failures handled it always ends, with or without *)
(* a setup key for the entrypoint of the sandbox.                              *)

Provision ==
  /\ key.netbird = "queued"
  /\ \E made \in BOOLEAN : key' = [key EXCEPT !.netbird = "done", !.there = made]
  /\ UNCHANGED <<stage, row, at, result, files>>
  /\ NoRequests /\ NoContainer /\ NoLog

------------------------------------------------------------------------------
(* AllocationAnsibleStageHandler._execute *)

StartRun(r) ==
  /\ at[r] = "queued" /\ key.netbird = "done"
  /\ GoTo(r, Preparation[1])
  /\ UNCHANGED <<row, files, key>>
  /\ NoRequests /\ NoContainer /\ NoLog

\* Writes one file after another: the ssh directory, the inventory, with the key
\* the sandbox has by now, the containers of the topology, and the credentials.
Prepare(r) ==
  \E i \in 1..4 :
    /\ at[r] = Preparation[i]
    /\ files' = [files EXCEPT ![r] = @ \union {Preparation[i]}]
    /\ key' = IF at[r] = "inventory" /\ key.there
              THEN [key EXCEPT !.given = @ \union {r}] ELSE key
    /\ GoTo(r, Preparation[i + 1])
    /\ UNCHANGED row /\ NoRequests /\ NoContainer /\ NoLog

\* There is nothing to remove as long as no container is started.
PreparationFails(r) ==
  /\ "refuse" \in Faults
  /\ at[r] \in Preparing
  /\ Ends(r, "error")
  /\ UNCHANGED <<row, files, key>>
  /\ NoRequests /\ NoContainer /\ NoLog

\* Docker returns when the container runs.
StartDocker(r) == backend = "docker" /\ Becomes(r, "running")

\* Kubernetes returns when it has accepted the job, named after the stage.
StartKubernetes(r) == backend = "kubernetes" /\ Becomes(r, "pending")

StartContainer(r) ==
  /\ at[r] = "start"
  /\ StartDocker(r) \/ StartKubernetes(r)
  /\ GoTo(r, "record")
  /\ UNCHANGED <<row, files, key, printed>>
  /\ NoRequests /\ NoLog /\ NoDeletion

\* The row of a stage that was replaced cannot be referred to.
RecordContainer(r) ==
  /\ at[r] = "record"
  /\ IF r = run
     THEN /\ row' = row \union {r}
          /\ GoTo(r, IF backend = "docker" THEN "log" ELSE "pod")
     ELSE GoTo(r, "give up") /\ UNCHANGED row
  /\ UNCHANGED <<files, key>>
  /\ NoRequests /\ NoContainer /\ NoLog

\* A failure after the start of the container: what follows is the finally.
StepFails(r) ==
  /\ "refuse" \in Faults
  /\ at[r] \in {"record", "save", "report"} \union Waiting
  /\ GoTo(r, "give up")
  /\ UNCHANGED <<row, files, key>>
  /\ NoRequests /\ NoContainer /\ NoLog

\* The watch shows the pod as it is when it begins, and then each change: it is left
\* for a pod that runs or has failed.
WaitForPod(r) ==
  /\ at[r] = "pod"
  /\ State(r) = "running" \/ (HasExited(r) /\ container[r].code = "failed")
  /\ GoTo(r, "log")
  /\ UNCHANGED <<row, files, key>>
  /\ NoRequests /\ NoContainer /\ NoLog

\* A watch that began in time has seen the pod run, or sees it deleted, and that the
\* job succeeded before it was deleted; one that began later waits.
SeenInTime(r) ==
  /\ \/ at[r] = "pod" /\ HasExited(r) /\ GoTo(r, "log")
     \/ at[r] = "pod" /\ State(r) = "removed" /\ GoTo(r, "give up")
     \/ at[r] = "status" /\ State(r) = "noticed" /\ r \in deleted
          /\ GoTo(r, IF container[r].code = "ok" THEN "report" ELSE "give up")
  /\ UNCHANGED <<row, files, key>>
  /\ NoRequests /\ NoContainer /\ NoLog

SaveLine(r) ==
  LET l == read[r] + 1
  IN outputs' = [outputs EXCEPT ![r][l] = IF @ = 0 THEN 1 ELSE 2]

\* The status of the kubernetes job is looked at after each line, and the stream left
\* when the job is done; that it is deleted is an error.
ReadLine(r) ==
  /\ at[r] = "log"
  /\ State(r) \in Exists /\ read[r] < printed[r]
  /\ r = run
  /\ SaveLine(r)
  /\ IF r \in deleted \/ (backend = "kubernetes" /\ State(r) = "noticed")
     THEN GoTo(r, IF r \in deleted THEN "give up" ELSE "save") /\ UNCHANGED read
     ELSE read' = [read EXCEPT ![r] = @ + 1] /\ UNCHANGED <<at, result, stage>>
  /\ UNCHANGED <<row, files, key>>
  /\ NoRequests /\ NoContainer

\* Outputs cannot be saved for a row that is gone, nor read of a pod that is.
LogIsLost(r) ==
  /\ at[r] = "log"
  /\ \/ r # run /\ State(r) \in Exists /\ read[r] < printed[r]
     \/ backend = "kubernetes" /\ State(r) = "removed"
  /\ GoTo(r, "give up")
  /\ UNCHANGED <<row, files, key>>
  /\ NoRequests /\ NoContainer /\ NoLog

\* The docker log ends with the container.  The kubernetes one is read again from
\* its first line, as long as no line has found the job done.
LogEnds(r) ==
  /\ at[r] = "log"
  /\ \/ HasExited(r) /\ read[r] = printed[r]
     \/ backend = "docker" /\ State(r) = "removed"
  /\ IF backend = "docker"
     THEN GoTo(r, "status") /\ UNCHANGED read
     ELSE read' = [read EXCEPT ![r] = 0] /\ UNCHANGED <<at, result, stage>>
  /\ UNCHANGED <<row, files, key, outputs>>
  /\ NoRequests /\ NoContainer

\* Mutant: what was copied live is left in place.
KeepLiveOutputs(r) ==
  /\ at[r] = "save"
  /\ GoTo(r, "status")
  /\ UNCHANGED <<row, files, key>>
  /\ NoRequests /\ NoContainer /\ NoLog

\* _save_pod_outputs: the lines are deleted, and then read once more.
DeleteOutputs(r) ==
  /\ at[r] = "save"
  /\ outputs' = [outputs EXCEPT ![r] = NoOutputs]
  /\ GoTo(r, "read")
  /\ UNCHANGED <<row, files, key, read>>
  /\ NoRequests /\ NoContainer

ReadWholeLog(r) ==
  /\ at[r] = "read"
  /\ IF State(r) \in Exists /\ r = run
     THEN /\ outputs' = [outputs EXCEPT ![r] =
                           [l \in Lines |-> IF l <= printed[r] THEN 1 ELSE 0]]
          /\ GoTo(r, "status")
     ELSE GoTo(r, "give up") /\ UNCHANGED outputs
  /\ UNCHANGED <<row, files, key, read>>
  /\ NoRequests /\ NoContainer

\* check_container_status.  Docker does not find what is removed; kubernetes waits for
\* the status of a job that is deleted.
CheckStatus(r) ==
  /\ at[r] = "status"
  /\ \/ HasExited(r) /\ (backend = "kubernetes" => State(r) = "noticed" /\ r \notin deleted)
     \/ backend = "docker" /\ State(r) = "removed"
  /\ GoTo(r, IF HasExited(r) /\ container[r].code = "ok" THEN "report" ELSE "give up")
  /\ UNCHANGED <<row, files, key>>
  /\ NoRequests /\ NoContainer /\ NoLog

\* on_allocation_end; that it fails is a step that fails.
Report(r) ==
  /\ at[r] = "report"
  /\ GoTo(r, "remove")
  /\ UNCHANGED <<row, files, key>>
  /\ NoRequests /\ NoContainer /\ NoLog

\* Mutant: only a run that succeeded removes its container.
RemoveWhenDone(r) ==
  /\ at[r] \in {"remove", "give up"}
  /\ IF at[r] = "remove" /\ ~Deleted(r)
     THEN DeleteContainer(r) /\ Ends(r, "done")
     ELSE Ends(r, "error") /\ UNCHANGED <<container, deleted>>
  /\ UNCHANGED <<row, files, key, printed, escaped>>
  /\ NoRequests /\ NoLog

\* The finally: that the container is gone already fails the stage as well.
RemoveContainer(r) ==
  /\ at[r] \in {"remove", "give up"}
  /\ \/ /\ DeleteContainer(r)
        /\ Ends(r, IF at[r] = "remove" THEN "done" ELSE "error")
     \/ /\ Deleted(r)
        /\ Ends(r, "error") /\ UNCHANGED <<container, deleted>>
     \/ /\ State(r) \in Exists /\ "keep" \in Faults
        /\ Ends(r, "kept") /\ UNCHANGED <<container, deleted>>
  /\ UNCHANGED <<row, files, key, printed, escaped>>
  /\ NoRequests /\ NoLog

\* Mutant: the stream of the log does not notice the alarm.
TimeoutOfStatus(r) ==
  /\ "timeout" \in Faults
  /\ at[r] = "status"
  /\ GoTo(r, "give up")
  /\ UNCHANGED <<row, files, key>>
  /\ NoRequests /\ NoContainer /\ NoLog

\* rq's alarm is an exception like any other.  Only between the start of the
\* container and the try it finds no finally.
Timeout(r) ==
  /\ \/ "timeout" \in Faults /\ at[r] \in Waiting
          /\ GoTo(r, "give up") /\ UNCHANGED escaped
     \/ "timeout" \in Faults /\ at[r] = "record"
          /\ Ends(r, "lost") /\ escaped' = escaped \union {r}
  /\ UNCHANGED <<row, files, key, container, deleted, printed>>
  /\ NoRequests /\ NoLog

\* Nothing is written any more, and the container goes on.
WorkerDies(r) ==
  /\ "crash" \in Faults
  /\ at[r] \notin {"idle", "queued", "over"}
  /\ at' = [at EXCEPT ![r] = "over"]
  /\ result' = [result EXCEPT ![r] = "died"]
  /\ UNCHANGED <<stage, row, files, key>>
  /\ NoRequests /\ NoContainer /\ NoLog

------------------------------------------------------------------------------
(* The container and its playbook *)

Untouched ==
  UNCHANGED <<stage, row, at, result, files, key>> /\ NoRequests /\ NoLog /\ NoDeletion

PodStarts(r) == State(r) = "pending" /\ Becomes(r, "running") /\ UNCHANGED printed /\ Untouched

PrintLine(r) ==
  /\ State(r) = "running" /\ printed[r] < MaxLines
  /\ printed' = [printed EXCEPT ![r] = @ + 1]
  /\ UNCHANGED container /\ Untouched

Exit(r) ==
  /\ State(r) = "running"
  /\ \E c \in {"ok", "failed"} :
       container' = [container EXCEPT ![r] = [state |-> "exited", code |-> c]]
  /\ UNCHANGED printed /\ Untouched

\* Kubernetes brings the status of the job up to date some time after its pod ended.
StatusNoticed(r) ==
  /\ backend = "kubernetes" /\ State(r) = "exited" /\ r \notin deleted
  /\ Becomes(r, "noticed")
  /\ UNCHANGED printed /\ Untouched

\* Some time after its job the pod is deleted, and its log with it.
PodGone(r) ==
  /\ r \in deleted /\ State(r) \in Exists
  /\ Becomes(r, "removed")
  /\ UNCHANGED printed /\ Untouched

------------------------------------------------------------------------------
(* Requests: StageHandler.cancel, in the order of its calls, and a restart *)

\* The job is deleted if it is in the queue still; a job that runs goes on.
Cancel ==
  /\ web.step = "idle" /\ ~stage.finished
  /\ run \in row \/ at[run] \in {"queued", "over"} \/ "early" \in Faults
  /\ at' = IF at[run] = "queued" THEN [at EXCEPT ![run] = "over"] ELSE at
  /\ web' = [step |-> "stop", of |-> run, found |-> run \in row]
  /\ UNCHANGED <<backend, run, stage, row, result, files, key>>
  /\ NoContainer /\ NoLog

\* Mutant: the cancellation leaves the container to the job.
CancelRowOnly ==
  /\ web.step = "stop"
  /\ row' = IF web.found THEN row \ {web.of} ELSE row
  /\ escaped' = IF web.found THEN escaped ELSE escaped \union {web.of}
  /\ web' = [web EXCEPT !.step = "close"]
  /\ UNCHANGED <<backend, run, stage, at, result, files, key, container, deleted, printed>>
  /\ NoLog

\* What is not there any more keeps its row: docker's error is swallowed, that of
\* kubernetes is raised again once the stage is saved.
StopContainer ==
  /\ web.step = "stop"
  /\ LET r == web.of
     IN \/ /\ web.found /\ DeleteContainer(r)
           /\ row' = row \ {r} /\ UNCHANGED escaped
        \/ /\ ~web.found \/ Deleted(r) \/ "deaf" \in Faults
           /\ escaped' = IF Deleted(r) THEN escaped ELSE escaped \union {r}
           /\ UNCHANGED <<container, deleted, row>>
  /\ web' = [web EXCEPT !.step = "close"]
  /\ UNCHANGED <<backend, run, stage, at, result, files, key, printed>>
  /\ NoLog

\* The finally of cancel: finished and failed, whatever came before.
CloseStage ==
  /\ web.step = "close"
  /\ stage' = IF web.of = run THEN [finished |-> TRUE, failed |-> TRUE] ELSE stage
  /\ web' = [web EXCEPT !.step = "idle"]
  /\ UNCHANGED <<backend, run, row, at, result, files, key>>
  /\ NoContainer /\ NoLog

\* _restart_stage_handlers: the failed stage is deleted, its Container row and its
\* outputs with it, and made again.  The sandbox is replaced, and so is its NetBird access.
Restart ==
  /\ stage.finished /\ stage.failed /\ run < MaxRuns
  /\ run' = run + 1
  /\ stage' = NewStage /\ row' = row \ {run}
  /\ at' = [at EXCEPT ![run + 1] = "queued"]
  /\ key' = [key EXCEPT !.netbird = "queued", !.there = FALSE]
  /\ outputs' = [outputs EXCEPT ![run] = NoOutputs]
  /\ UNCHANGED <<backend, result, files, web, read>>
  /\ NoContainer

------------------------------------------------------------------------------
(* The specification *)

Outputs(r) ==
  \/ WaitForPod(r) \/ ReadLine(r) \/ LogIsLost(r) \/ LogEnds(r)
  \/ DeleteOutputs(r) \/ ReadWholeLog(r)

JobStep(r) ==
  \/ StartRun(r) \/ Prepare(r) \/ PreparationFails(r)
  \/ StartContainer(r) \/ RecordContainer(r) \/ Outputs(r) \/ StepFails(r)
  \/ CheckStatus(r) \/ Report(r) \/ RemoveContainer(r)

Playbook(r) == PodStarts(r) \/ PrintLine(r) \/ Exit(r) \/ StatusNoticed(r) \/ PodGone(r)

Next ==
  \/ Provision
  \/ \E r \in Runs : JobStep(r) \/ SeenInTime(r) \/ Timeout(r) \/ WorkerDies(r) \/ Playbook(r)
  \/ Cancel \/ StopContainer \/ CloseStage \/ Restart

Spec == Init /\ [][Next]_vars

\* Workers take jobs and go on with them, and rq's alarm rings; whether a playbook
\* ever ends is up to its author.
FairSpec ==
  /\ Spec
  /\ WF_vars(Provision)
  /\ \A r \in Runs : WF_vars(JobStep(r)) /\ WF_vars(Timeout(r))

------------------------------------------------------------------------------
(* Properties *)

\* A stage reported as done has run its playbook to a good end, with everything it
\* is given and the setup key if there is one (which comes from another job), and
\* has saved its log, each line once, although the log is read several times, a
\* cancellation may come at any time, and the last to save the row wins.
DoneMeansRan ==
  stage.finished /\ ~stage.failed =>
    /\ files[run] = Files /\ (key.there => run \in key.given)
    /\ container[run].code = "ok" /\ Deleted(run)
    /\ \A l \in Lines : outputs[run][l] = IF l <= printed[run] THEN 1 ELSE 0

\* Whose playbook works on the sandbox, with nobody having asked that it stop.
Working(r) == State(r) \in {"pending", "running"} /\ r \notin deleted

\* Two playbooks never work on one sandbox at once, though cancelling a stage makes it
\* ready for a restart while its job goes on, and a worker that died leaves the container
\* running.  The exceptions are playbooks that ran away: a cancellation did not know of
\* the container or was refused its removal, or the job was; and the pod of a kubernetes
\* job may live for a while after the job is deleted.
OnePlaybook ==
  Cardinality({r \in Runs : Working(r) /\ r \notin escaped /\ result[r] # "kept"}) <= 1

\* A job that is over has had its container removed, however it ended, unless it died,
\* was refused the removal, or met its alarm between the start of the container and the
\* try that removes it.
NothingLeftRunning ==
  \A r \in Runs : result[r] \in {"done", "error"} => State(r) = "none" \/ Deleted(r)

\* StageHandler.cancel: "Stops the stage execution, sets the stage as failed"; _cancel:
\* "Stop the Ansible execution."  Once the request is answered no playbook works.
CancelStops == stage.finished /\ web.step = "idle" => ~Working(run)

\* Every job that was taken on comes to its end, also when the container hangs, prints
\* nothing, or is removed while the job waits for it.
RunEnds == \A r \in Runs : at[r] \notin {"idle", "over"} ~> at[r] = "over"
=============================================================================
