-------------------------- MODULE AnsibleRunProofs --------------------------
(***************************************************************************)
(* Containers, outputs and rows of the stages that run playbooks, for any  *)
(* number of restarts, any number of lines and either container manager.   *)
(*                                                                         *)
(* The argument: a container is started once by a run, before the run is   *)
(* named by a row, so that a run which has not begun or was taken from the *)
(* queue has none and will have none; a stage is finished only when that   *)
(* holds of its run, or its container was removed; and only a finished     *)
(* stage is restarted.                                                     *)
(***************************************************************************)
EXTENDS AnsibleRun, FiniteSetTheorems, TLAPS

-----------------------------------------------------------------------------
(* Types *)

Containers == [state : {"none", "removed"} \union Exists, code : {"none", "ok", "failed"}]

LEMMA RunsAre ==
  /\ 1 \in Runs /\ Runs \subseteq Nat
  /\ MaxLines \in Nat /\ 0 \in 0..MaxLines
BY ConstantsAssumption DEF Runs

LEMMA PreparationIs ==
  /\ Preparation[1] = "ssh" /\ Preparation[2] = "inventory" /\ Preparation[3] = "containers"
  /\ Preparation[4] = "credentials" /\ Preparation[5] = "start"
BY DEF Preparation

LEMMA PreparationSteps ==
  \A i \in 1..4 : Preparation[i] \in Files /\ Preparation[i + 1] \in Steps
<1>1. /\ {"ssh", "inventory", "containers", "credentials"} \subseteq Files
      /\ {"ssh", "inventory", "containers", "credentials", "start"} \subseteq Steps
  BY DEF Files, Steps, Preparing
<1>2. ASSUME NEW i \in 1..4
      PROVE  \/ i = 1 /\ i + 1 = 2
             \/ i = 2 /\ i + 1 = 3
             \/ i = 3 /\ i + 1 = 4
             \/ i = 4 /\ i + 1 = 5
  OBVIOUS
<1> QED BY <1>1, <1>2, PreparationIs, Zenon

\* The steps of the preparation, one by one.
LEMMA PrepareIs ==
  ASSUME NEW r \in Runs, Prepare(r)
  PROVE  \E i \in 1..4 :
           /\ at[r] = Preparation[i] /\ at' = [at EXCEPT ![r] = Preparation[i + 1]]
           /\ files' = [files EXCEPT ![r] = files[r] \union {Preparation[i]}]
           /\ \/ at[r] = "inventory" /\ key.there /\ key' = [key EXCEPT !.given = key.given \union {r}]
              \/ ~(at[r] = "inventory" /\ key.there) /\ key' = key
           /\ UNCHANGED <<backend, run, stage, row, result, container, deleted, escaped, printed, read, outputs, web>>
BY DEF Prepare, GoTo, NoRequests, NoContainer, NoDeletion, NoLog

LEMMA EndsTyped ==
  ASSUME TypeOK, NEW r \in Runs, NEW how \in {"done", "error", "kept", "lost", "died"}, Ends(r, how)
  PROVE  /\ at' \in [Runs -> Steps]
         /\ result' \in [Runs -> {"none", "done", "error", "kept", "lost", "died"}]
         /\ stage' \in [finished : BOOLEAN, failed : BOOLEAN] /\ (stage'.failed => stage'.finished)
<1>1. [finished |-> TRUE, failed |-> (how # "done")] \in [finished : BOOLEAN, failed : BOOLEAN]
  OBVIOUS
<1>2. CASE r = run
  <2>1. stage' = [finished |-> TRUE, failed |-> (how # "done")]
    BY <1>2 DEF Ends
  <2> QED BY <1>1, <2>1 DEF Ends, TypeOK, Steps
<1>3. CASE r # run
  BY <1>3 DEF Ends, TypeOK, Steps
<1> QED BY <1>2, <1>3

LEMMA BecomesTyped ==
  ASSUME TypeOK, NEW r \in Runs, NEW s \in {"none", "removed"} \union Exists, Becomes(r, s)
  PROVE  /\ container' \in [Runs -> Containers]
         /\ container'[r].state = s /\ container'[r].code = container[r].code
         /\ \A q \in Runs : q # r => container'[q] = container[q]
BY DEF Becomes, TypeOK, Containers

\* A deletion, by the job or by a request.
LEMMA DeleteIs ==
  ASSUME TypeOK, NEW r \in Runs, DeleteContainer(r)
  PROVE  /\ container' \in [Runs -> Containers] /\ deleted' \subseteq Runs
         /\ State(r) \in Exists /\ Deleted(r)' /\ container'[r].code = container[r].code
         /\ State(r)' \in {"removed", State(r)} /\ deleted \subseteq deleted'
         /\ \A q \in Runs : q # r => container'[q] = container[q]
<1>1. CASE Becomes(r, "removed") /\ UNCHANGED deleted
  BY <1>1, BecomesTyped DEF DeleteContainer, Deleted, State, TypeOK
<1>2. CASE deleted' = deleted \union {r} /\ UNCHANGED container
  BY <1>2 DEF DeleteContainer, Deleted, State, TypeOK, Containers
<1> QED BY <1>1, <1>2 DEF DeleteContainer

LEMMA JobTyped ==
  ASSUME TypeOK, NEW r \in Runs, JobStep(r)
  PROVE  TypeOK'
<1> USE RunsAre
<1>1. CASE StartRun(r)
  BY <1>1, PreparationIs DEF StartRun, GoTo, NoRequests, NoContainer, NoDeletion, NoLog, TypeOK, Steps,
     Preparing, Files
<1>2. CASE Prepare(r)
  <2>1. PICK i \in 1..4 :
           /\ at[r] = Preparation[i] /\ at' = [at EXCEPT ![r] = Preparation[i + 1]]
           /\ files' = [files EXCEPT ![r] = files[r] \union {Preparation[i]}]
           /\ \/ key' = [key EXCEPT !.given = key.given \union {r}]
              \/ key' = key
           /\ UNCHANGED <<backend, run, stage, row, result, container, deleted, escaped, printed, read, outputs, web>>
    BY <1>2, PrepareIs
  <2>2. Preparation[i] \in Files /\ Preparation[i + 1] \in Steps
    BY PreparationSteps
  <2>3. at' \in [Runs -> Steps] /\ files' \in [Runs -> SUBSET Files]
    BY <2>1, <2>2 DEF TypeOK
  <2>4. key' \in [netbird : {"queued", "done"}, there : BOOLEAN, given : SUBSET Runs]
    <3>1. key \in [netbird : {"queued", "done"}, there : BOOLEAN, given : SUBSET Runs]
      BY DEF TypeOK
    <3>2. key.given \union {r} \subseteq Runs
      BY <3>1
    <3> QED BY <2>1, <3>1, <3>2
  <2> QED BY <2>1, <2>3, <2>4 DEF TypeOK
<1>3. CASE PreparationFails(r)
  BY <1>3, EndsTyped DEF PreparationFails, NoRequests, NoContainer, NoDeletion, NoLog, TypeOK
<1>4. CASE StartContainer(r)
  <2>1. PICK s \in {"pending", "running"} : Becomes(r, s)
    BY <1>4 DEF StartContainer, StartDocker, StartKubernetes
  <2>2. container' \in [Runs -> Containers]
    BY <2>1, BecomesTyped DEF Exists
  <2> QED BY <1>4, <2>2 DEF StartContainer, GoTo, NoRequests, NoLog, NoDeletion, TypeOK, Containers, Steps
<1>5. CASE RecordContainer(r)
  BY <1>5 DEF RecordContainer, GoTo, NoRequests, NoContainer, NoDeletion, NoLog, TypeOK, Steps, Waiting
<1>6. CASE Outputs(r)
  <2>1. CASE WaitForPod(r)
    BY <2>1 DEF WaitForPod, GoTo, NoRequests, NoContainer, NoDeletion, NoLog, TypeOK, Steps, Waiting
  <2>2. CASE ReadLine(r)
    <3>0. /\ read[r] \in 0..MaxLines /\ printed[r] \in 0..MaxLines /\ read[r] < printed[r]
          /\ outputs \in [Runs -> [Lines -> 0..2]] /\ SaveLine(r)
      BY <2>2 DEF ReadLine, TypeOK
    <3>1. read[r] + 1 \in Lines /\ read[r] + 1 \in 0..MaxLines
      BY <3>0 DEF Lines
    <3>2. outputs' \in [Runs -> [Lines -> 0..2]]
      BY <3>0, <3>1 DEF SaveLine
    <3>3. at' \in [Runs -> Steps] /\ read' \in [Runs -> 0..MaxLines] /\ UNCHANGED <<result, stage>>
      <4>1. ASSUME NEW s \in {"save", "give up"}, GoTo(r, s), UNCHANGED read
            PROVE  at' \in [Runs -> Steps] /\ read' \in [Runs -> 0..MaxLines] /\ UNCHANGED <<result, stage>>
        <5>1. s \in Steps
          BY DEF Steps
        <5> QED BY <4>1, <5>1 DEF GoTo, TypeOK
      <4>2. CASE read' = [read EXCEPT ![r] = read[r] + 1] /\ UNCHANGED <<at, result, stage>>
        BY <3>1, <4>2 DEF TypeOK
      <4>3. \/ \E s \in {"save", "give up"} : GoTo(r, s) /\ UNCHANGED read
            \/ read' = [read EXCEPT ![r] = read[r] + 1] /\ UNCHANGED <<at, result, stage>>
        BY <2>2 DEF ReadLine
      <4> QED BY <4>1, <4>2, <4>3
    <3> QED BY <2>2, <3>2, <3>3 DEF ReadLine, NoRequests, NoContainer, NoDeletion, TypeOK
  <2>3. CASE LogIsLost(r)
    BY <2>3 DEF LogIsLost, GoTo, NoRequests, NoContainer, NoDeletion, NoLog, TypeOK, Steps
  <2>4. CASE LogEnds(r)
    <3>1. at' \in [Runs -> Steps] /\ read' \in [Runs -> 0..MaxLines] /\ UNCHANGED <<result, stage>>
      <4>1. CASE GoTo(r, "status") /\ UNCHANGED read
        BY <4>1 DEF GoTo, TypeOK, Steps, Waiting
      <4>2. CASE read' = [read EXCEPT ![r] = 0] /\ UNCHANGED <<at, result, stage>>
        BY <4>2 DEF TypeOK
      <4> QED BY <2>4, <4>1, <4>2 DEF LogEnds
    <3> QED BY <2>4, <3>1 DEF LogEnds, NoRequests, NoContainer, NoDeletion, TypeOK
  <2>5. CASE DeleteOutputs(r)
    <3>1. NoOutputs \in [Lines -> 0..2]
      BY DEF NoOutputs
    <3>2. outputs' \in [Runs -> [Lines -> 0..2]]
      BY <2>5, <3>1 DEF DeleteOutputs, TypeOK
    <3> QED BY <2>5, <3>2 DEF DeleteOutputs, GoTo, NoRequests, NoContainer, NoDeletion, TypeOK, Steps, Waiting
  <2>6. CASE ReadWholeLog(r)
    <3>1. [l \in Lines |-> IF l <= printed[r] THEN 1 ELSE 0] \in [Lines -> 0..2]
      OBVIOUS
    <3>2. outputs' \in [Runs -> [Lines -> 0..2]]
      BY <2>6, <3>1 DEF ReadWholeLog, TypeOK
    <3> QED BY <2>6, <3>2 DEF ReadWholeLog, GoTo, NoRequests, NoContainer, NoDeletion, TypeOK, Steps, Waiting
  <2> QED BY <1>6, <2>1, <2>2, <2>3, <2>4, <2>5, <2>6 DEF Outputs
<1>7. CASE StepFails(r)
  BY <1>7 DEF StepFails, GoTo, NoRequests, NoContainer, NoDeletion, NoLog, TypeOK, Steps
<1>8. CASE CheckStatus(r)
  BY <1>8 DEF CheckStatus, GoTo, NoRequests, NoContainer, NoDeletion, NoLog, TypeOK, Steps
<1>9. CASE Report(r)
  BY <1>9 DEF Report, GoTo, NoRequests, NoContainer, NoDeletion, NoLog, TypeOK, Steps
<1>10. CASE RemoveContainer(r)
  <2>1. \E how \in {"done", "error", "kept", "lost", "died"} : Ends(r, how)
    BY <1>10 DEF RemoveContainer
  <2>2. container' \in [Runs -> Containers] /\ deleted' \subseteq Runs
    <3>1. CASE DeleteContainer(r)
      BY <3>1, DeleteIs
    <3>2. CASE UNCHANGED <<container, deleted>>
      BY <3>2 DEF TypeOK, Containers
    <3> QED BY <1>10, <3>1, <3>2 DEF RemoveContainer
  <2> QED BY <1>10, <2>1, <2>2, EndsTyped DEF RemoveContainer, NoRequests, NoLog, TypeOK, Containers
<1> QED BY <1>1, <1>2, <1>3, <1>4, <1>5, <1>6, <1>7, <1>8, <1>9, <1>10 DEF JobStep

LEMMA OtherTyped ==
  ASSUME TypeOK, NEW r \in Runs, SeenInTime(r) \/ Timeout(r) \/ WorkerDies(r) \/ Playbook(r)
  PROVE  TypeOK'
<1> USE RunsAre
<1>0. CASE SeenInTime(r)
  BY <1>0 DEF SeenInTime, GoTo, NoRequests, NoContainer, NoDeletion, NoLog, TypeOK, Steps, Waiting
<1>1. CASE Timeout(r)
  <2>1. CASE GoTo(r, "give up")
    BY <1>1, <2>1 DEF SeenInTime, Timeout, GoTo, NoRequests, NoContainer, NoDeletion, NoLog, TypeOK, Steps
  <2>2. CASE Ends(r, "lost")
    BY <1>1, <2>2, EndsTyped DEF Timeout, NoRequests, NoContainer, NoDeletion, NoLog, TypeOK
  <2> QED BY <1>1, <2>1, <2>2 DEF Timeout
<1>2. CASE WorkerDies(r)
  BY <1>2 DEF WorkerDies, NoRequests, NoContainer, NoDeletion, NoLog, TypeOK, Steps
<1>3. CASE Playbook(r)
  <2>1. UNCHANGED <<backend, run, stage, row, at, result, files, key, web, read, outputs, deleted, escaped>>
    BY <1>3 DEF Playbook, PodStarts, PrintLine, Exit, StatusNoticed, PodGone, Untouched, NoDeletion, NoRequests, NoLog
  <2>2. container' \in [Runs -> Containers]
    <3>1. CASE Becomes(r, "running") \/ Becomes(r, "noticed") \/ Becomes(r, "removed")
      BY <3>1, BecomesTyped DEF Exists
    <3>2. CASE UNCHANGED container
      BY <3>2 DEF TypeOK, Containers
    <3>3. CASE \E c \in {"ok", "failed"} :
                 container' = [container EXCEPT ![r] = [state |-> "exited", code |-> c]]
      BY <3>3 DEF TypeOK, Containers, Exists
    <3> QED BY <1>3, <3>1, <3>2, <3>3 DEF Playbook, PodStarts, PrintLine, Exit, StatusNoticed, PodGone
  <2>3. printed' \in [Runs -> 0..MaxLines]
    <3>1. CASE PrintLine(r)
      <4>1. printed[r] + 1 \in 0..MaxLines
        BY <3>1 DEF PrintLine, TypeOK
      <4> QED BY <3>1, <4>1 DEF PrintLine, TypeOK
    <3>2. CASE UNCHANGED printed
      BY <3>2 DEF TypeOK
    <3> QED BY <1>3, <3>1, <3>2 DEF Playbook, PodStarts, Exit, StatusNoticed, PodGone
  <2> QED BY <2>1, <2>2, <2>3 DEF TypeOK, Containers
<1> QED BY <1>0, <1>1, <1>2, <1>3

LEMMA StopIs ==
  ASSUME TypeOK, StopContainer
  PROVE  /\ web.step = "stop" /\ web'.step = "close" /\ web'.of = web.of /\ web.of \in Runs
         /\ web' \in [step : {"idle", "stop", "close"}, of : Runs, found : BOOLEAN]
         /\ UNCHANGED <<backend, run, stage, at, result, files, key, printed, read, outputs>>
         /\ \/ DeleteContainer(web.of) /\ row' = row \ {web.of} /\ UNCHANGED escaped
            \/ /\ Deleted(web.of) /\ UNCHANGED escaped
               /\ UNCHANGED <<container, deleted, row>>
            \/ /\ escaped' = escaped \union {web.of}
               /\ UNCHANGED <<container, deleted, row>>
BY DEF StopContainer, TypeOK, NoLog

LEMMA CloseIs ==
  ASSUME TypeOK, CloseStage
  PROVE  /\ web.step = "close" /\ web'.step = "idle" /\ web'.of = web.of /\ web.of \in Runs
         /\ web' \in [step : {"idle", "stop", "close"}, of : Runs, found : BOOLEAN]
         /\ UNCHANGED <<backend, run, row, at, result, files, key, container, deleted, escaped, printed, read,
                        outputs>>
         /\ \/ web.of = run /\ stage' = [finished |-> TRUE, failed |-> TRUE]
            \/ web.of # run /\ stage' = stage
BY DEF CloseStage, TypeOK, NoContainer, NoDeletion, NoLog

LEMMA RestartIs ==
  ASSUME TypeOK, Restart
  PROVE  /\ stage.finished /\ stage.failed /\ run' = run + 1 /\ run + 1 \in Runs
         /\ ~stage'.finished /\ ~stage'.failed /\ stage' = NewStage
         /\ row' = {}
         /\ at' = [at EXCEPT ![run + 1] = "queued"]
         /\ key'.netbird = "queued" /\ ~key'.there /\ key'.given = key.given
         /\ key' \in [netbird : {"queued", "done"}, there : BOOLEAN, given : SUBSET Runs]
         /\ outputs' = [outputs EXCEPT ![run] = NoOutputs]
         /\ UNCHANGED <<backend, result, files, web, read, container, deleted, escaped, printed>>
<1>1. run + 1 \in Runs
  BY RunsAre, ConstantsAssumption DEF Restart, Runs, TypeOK
<1>2. row' = {}
  BY DEF Restart, TypeOK
<1>3. /\ key'.netbird = "queued" /\ ~key'.there /\ key'.given = key.given
      /\ key' \in [netbird : {"queued", "done"}, there : BOOLEAN, given : SUBSET Runs]
  BY DEF Restart, TypeOK
<1> QED BY <1>1, <1>2, <1>3 DEF Restart, NewStage, NoContainer, NoDeletion

LEMMA CancelIs ==
  ASSUME TypeOK, Cancel
  PROVE  /\ web.step = "idle" /\ ~stage.finished
         /\ run \in row \/ at[run] \in {"queued", "over"} \/ "early" \in Faults
         /\ \/ at[run] = "queued" /\ at' = [at EXCEPT ![run] = "over"]
            \/ at[run] # "queued" /\ at' = at
         /\ web'.step = "stop" /\ web'.of = run /\ (web'.found <=> run \in row)
         /\ web' \in [step : {"idle", "stop", "close"}, of : Runs, found : BOOLEAN]
         /\ UNCHANGED <<backend, run, stage, row, result, files, key, container, deleted, escaped, printed,
                        read, outputs>>
<1>1. web' = [step |-> "stop", of |-> run, found |-> run \in row]
  BY DEF Cancel
<1>2. web'.step = "stop" /\ web'.of = run /\ (web'.found <=> run \in row)
  BY <1>1
<1>3. web'.found \in BOOLEAN
  BY <1>1
<1>4. web' \in [step : {"idle", "stop", "close"}, of : Runs, found : BOOLEAN]
  BY <1>1, <1>2, <1>3 DEF TypeOK
<1>6. \/ at[run] = "queued" /\ at' = [at EXCEPT ![run] = "over"]
      \/ at[run] # "queued" /\ at' = at
  BY DEF Cancel
<1>7. /\ web.step = "idle" /\ ~stage.finished
      /\ run \in row \/ at[run] \in {"queued", "over"} \/ "early" \in Faults
      /\ UNCHANGED <<backend, run, stage, row, result, files, key, container, deleted, escaped, printed,
                        read, outputs>>
  BY DEF Cancel, NoContainer, NoDeletion, NoLog
<1> QED BY <1>2, <1>4, <1>6, <1>7

\* Every step keeps the types.
LEMMA StepTyped == TypeOK /\ [Next]_vars => TypeOK'
<1> SUFFICES ASSUME TypeOK, [Next]_vars PROVE TypeOK'
  OBVIOUS
<1>1. CASE Provision
  BY <1>1 DEF Provision, NoRequests, NoContainer, NoDeletion, NoLog, TypeOK
<1>2. ASSUME NEW r \in Runs, JobStep(r) \/ SeenInTime(r) \/ Timeout(r) \/ WorkerDies(r) \/ Playbook(r)
      PROVE  TypeOK'
  BY <1>2, JobTyped, OtherTyped
<1>3. CASE Cancel
  BY <1>3, CancelIs DEF TypeOK, Steps
<1>4. CASE StopContainer
  <2>1. /\ container' \in [Runs -> Containers] /\ row' \subseteq {run}
        /\ deleted' \subseteq Runs /\ escaped' \subseteq Runs
    <3>1. CASE DeleteContainer(web.of) /\ row' = row \ {web.of} /\ UNCHANGED escaped
      BY <1>4, <3>1, StopIs, DeleteIs DEF TypeOK
    <3>2. CASE UNCHANGED <<container, deleted, row>>
      BY <1>4, <3>2, StopIs DEF TypeOK, Containers
    <3> QED BY <1>4, <3>1, <3>2, StopIs
  <2> QED BY <1>4, <2>1, StopIs DEF TypeOK, Containers
<1>5. CASE CloseStage
  <2>1. stage' \in [finished : BOOLEAN, failed : BOOLEAN] /\ (stage'.failed => stage'.finished)
    <3>1. CASE stage' = [finished |-> TRUE, failed |-> TRUE]
      BY <3>1
    <3>2. CASE stage' = stage
      BY <3>2 DEF TypeOK
    <3> QED BY <1>5, <3>1, <3>2, CloseIs
  <2> QED BY <1>5, <2>1, CloseIs DEF TypeOK
<1>6. CASE Restart
  <2>1. NoOutputs \in [Lines -> 0..2]
    BY DEF NoOutputs
  <2>2. /\ outputs' = [outputs EXCEPT ![run] = NoOutputs] /\ at' = [at EXCEPT ![run + 1] = "queued"]
        /\ run' = run + 1 /\ run + 1 \in Runs /\ stage' = NewStage /\ row' = {}
        /\ key' \in [netbird : {"queued", "done"}, there : BOOLEAN, given : SUBSET Runs]
        /\ UNCHANGED <<backend, result, files, web, read, container, deleted, escaped, printed>>
    BY <1>6, RestartIs, Zenon
  <2>3. outputs' \in [Runs -> [Lines -> 0..2]]
    BY <2>1, <2>2 DEF TypeOK
  <2>4. at' \in [Runs -> Steps]
    BY <2>2 DEF TypeOK, Steps
  <2> QED BY <2>2, <2>3, <2>4 DEF TypeOK, NewStage
<1>7. CASE UNCHANGED vars
  BY <1>7 DEF vars, TypeOK
<1> QED BY <1>1, <1>2, <1>3, <1>4, <1>5, <1>6, <1>7 DEF Next

LEMMA InitTyped == Init => TypeOK
<1>1. NoOutputs \in [Lines -> 0..2]
  BY DEF NoOutputs
<1>2. Init => at \in [Runs -> Steps]
  BY DEF Init, Steps
<1> QED BY <1>1, <1>2, RunsAre DEF Init, TypeOK, NewStage

\* The types of the variables hold in every state, with any faults.
THEOREM RunsTyped == Spec => []TypeOK
BY InitTyped, StepTyped, PTL DEF Spec

-----------------------------------------------------------------------------
(* What a step of a job does to its run, its row and its container *)

Early == {"idle", "queued"} \union Preparing
Inside == {"record", "save", "report", "remove", "give up"} \union Waiting

Job(r) == JobStep(r) \/ SeenInTime(r) \/ Timeout(r) \/ WorkerDies(r)

SameContainer(r) == result'[r] = result[r] /\ container'[r] = container[r]
SameRow == UNCHANGED <<stage, row>>

EndsAs(r, how) ==
  /\ at'[r] = "over" /\ result'[r] = how /\ row' = row
  /\ r = run => stage'.finished /\ (stage'.failed <=> how # "done")
  /\ r # run => stage' = stage

Begins(r) == /\ at[r] \in Early \ {"idle"} /\ at'[r] \in Early \ {"idle"}
             /\ SameContainer(r) /\ SameRow
Starts(r) == /\ at[r] = "start" /\ at'[r] = "record" /\ SameRow /\ result'[r] = result[r]
             /\ container'[r].state \in {"pending", "running"}
Records(r) == /\ at[r] = "record" /\ at'[r] \in {"log", "pod"} /\ r = run
              /\ row' = row \union {r} /\ stage' = stage /\ SameContainer(r)
GoesOn(r) == at[r] \in Inside /\ at'[r] \in Inside /\ SameContainer(r) /\ SameRow
GivesIn(r) == at[r] \in Preparing /\ EndsAs(r, "error") /\ container'[r] = container[r]
Removes(r) == /\ at[r] \in {"remove", "give up"} /\ Deleted(r)'
              /\ EndsAs(r, "done") \/ EndsAs(r, "error")
Keeps(r) == at[r] \in {"remove", "give up"} /\ EndsAs(r, "kept") /\ container'[r] = container[r]
Misses(r) == /\ at[r] = "record" /\ EndsAs(r, "lost")
             /\ container'[r] = container[r] /\ r \in escaped'
Dies(r) == /\ at[r] \notin {"idle", "queued", "over"} /\ at'[r] = "over" /\ result'[r] = "died"
           /\ container'[r] = container[r] /\ SameRow

Moves(r) ==
  \/ Begins(r) \/ Starts(r) \/ Records(r) \/ GoesOn(r) \/ GivesIn(r)
  \/ Removes(r) \/ Keeps(r) \/ Misses(r) \/ Dies(r)

LEMMA EndsAre ==
  ASSUME TypeOK, NEW r \in Runs, NEW how \in {"done", "error", "kept", "lost"}, Ends(r, how), row' = row
  PROVE  EndsAs(r, how)
<1>1. at'[r] = "over" /\ result'[r] = how
  BY DEF Ends, TypeOK
<1>2. ASSUME r = run PROVE stage'.finished /\ (stage'.failed <=> how # "done")
  <2>1. stage' = [finished |-> TRUE, failed |-> how # "done"]
    BY <1>2 DEF Ends
  <2> QED BY <2>1
<1>3. r # run => stage' = stage
  BY DEF Ends
<1> QED BY <1>1, <1>2, <1>3 DEF EndsAs

LEMMA GoToIs ==
  ASSUME TypeOK, NEW r \in Runs, NEW step, GoTo(r, step), UNCHANGED container
  PROVE  at'[r] = step /\ SameContainer(r) /\ stage' = stage
BY DEF GoTo, TypeOK, SameContainer

LEMMA JobMoves ==
  ASSUME TypeOK, NEW r \in Runs, Job(r)
  PROVE  Moves(r)
<1>1. CASE StartRun(r)
  <2>1. at[r] = "queued" /\ at'[r] = "ssh" /\ SameContainer(r) /\ SameRow
    BY <1>1, PreparationIs, GoToIs DEF StartRun, NoContainer, NoDeletion, SameRow
  <2> QED BY <2>1 DEF Begins, Moves, Early, Preparing, Files
<1>2. CASE Prepare(r)
  <2>1. PICK i \in 1..4 : /\ at[r] = Preparation[i] /\ at' = [at EXCEPT ![r] = Preparation[i + 1]]
                          /\ UNCHANGED <<stage, row, result, container>>
    BY <1>2, PrepareIs
  <2>2. Preparation[i] \in Early \ {"idle"} /\ Preparation[i + 1] \in Early \ {"idle"}
    <3>1. \A s \in {"ssh", "inventory", "containers", "credentials", "start"} : s \in Early \ {"idle"}
      BY DEF Early, Preparing, Files
    <3>2. \/ i = 1 /\ i + 1 = 2
          \/ i = 2 /\ i + 1 = 3
          \/ i = 3 /\ i + 1 = 4
          \/ i = 4 /\ i + 1 = 5
      OBVIOUS
    <3> QED BY <3>1, <3>2, PreparationIs, Zenon
  <2> QED BY <2>1, <2>2 DEF Begins, Moves, SameContainer, SameRow, TypeOK
<1>3. CASE PreparationFails(r)
  BY <1>3, EndsAre DEF PreparationFails, NoContainer, NoDeletion, GivesIn, Moves
<1>4. CASE StartContainer(r)
  <2>1. PICK s \in {"pending", "running"} : Becomes(r, s)
    BY <1>4 DEF StartContainer, StartDocker, StartKubernetes
  <2>2. container'[r].state = s
    BY <2>1, BecomesTyped DEF Exists
  <2> QED BY <1>4, <2>2 DEF StartContainer, GoTo, TypeOK, Starts, Moves, SameRow
<1>5. CASE RecordContainer(r)
  <2>1. CASE r = run
    <3>1. PICK s \in {"log", "pod"} : GoTo(r, s) /\ row' = row \union {r} /\ at[r] = "record" /\ UNCHANGED container
      BY <1>5, <2>1 DEF RecordContainer, NoContainer, NoDeletion
    <3> QED BY <2>1, <3>1, GoToIs DEF Records, Moves
  <2>2. CASE r # run
    <3>1. GoTo(r, "give up") /\ row' = row /\ at[r] = "record" /\ UNCHANGED container
      BY <1>5, <2>2 DEF RecordContainer, NoContainer, NoDeletion
    <3> QED BY <3>1, GoToIs DEF GoesOn, Moves, Inside, SameRow
  <2> QED BY <2>1, <2>2
<1>6. ASSUME NEW s \in Inside, GoTo(r, s), at[r] \in Inside, UNCHANGED <<row, container>>
      PROVE  Moves(r)
  BY <1>6, GoToIs DEF GoesOn, Moves, SameRow
<1>7. ASSUME UNCHANGED <<at, result, stage, row, container>>, at[r] = "log"
      PROVE  Moves(r)
  BY <1>7 DEF GoesOn, Moves, SameRow, SameContainer, Inside, Waiting
<1>8. CASE Outputs(r)
  <2>1. UNCHANGED <<row, container>> /\ at[r] \in Inside
    BY <1>8 DEF Outputs, WaitForPod, ReadLine, LogIsLost, LogEnds, DeleteOutputs, ReadWholeLog,
       NoContainer, NoDeletion, Inside, Waiting
  <2>2. \/ \E s \in Inside : GoTo(r, s)
        \/ UNCHANGED <<at, result, stage>> /\ at[r] = "log"
    BY <1>8 DEF Outputs, WaitForPod, ReadLine, LogIsLost, LogEnds, DeleteOutputs, ReadWholeLog,
       Inside, Waiting
  <2> QED BY <1>6, <1>7, <2>1, <2>2
<1>9. CASE StepFails(r) \/ CheckStatus(r) \/ Report(r)
  <2>1. UNCHANGED <<row, container>> /\ at[r] \in Inside
    BY <1>9 DEF StepFails, CheckStatus, Report, NoContainer, NoDeletion, Inside, Waiting
  <2>2. \E s \in Inside : GoTo(r, s)
    BY <1>9 DEF StepFails, CheckStatus, Report, Inside, Waiting
  <2> QED BY <1>6, <2>1, <2>2
<1>10. CASE RemoveContainer(r)
  <2>0. at[r] \in {"remove", "give up"} /\ row' = row
    BY <1>10 DEF RemoveContainer
  <2>1. CASE DeleteContainer(r) /\ (Ends(r, "done") \/ Ends(r, "error"))
    <3>1. Deleted(r)'
      BY <2>1, DeleteIs
    <3> QED BY <2>0, <2>1, <3>1, EndsAre DEF Removes, Moves
  <2>2. CASE Deleted(r) /\ Ends(r, "error") /\ UNCHANGED <<container, deleted>>
    BY <2>0, <2>2, EndsAre DEF Removes, Moves, Deleted, State
  <2>3. CASE Ends(r, "kept") /\ UNCHANGED container
    BY <2>0, <2>3, EndsAre DEF Keeps, Moves
  <2> QED BY <1>10, <2>1, <2>2, <2>3 DEF RemoveContainer
<1>11. CASE Timeout(r)
  <2>1. UNCHANGED <<row, container>>
    BY <1>11 DEF Timeout
  <2>2. CASE at[r] \in Waiting /\ GoTo(r, "give up")
    BY <1>6, <2>1, <2>2 DEF Inside
  <2>3. CASE at[r] = "record" /\ Ends(r, "lost") /\ escaped' = escaped \union {r}
    BY <2>1, <2>3, EndsAre DEF Misses, Moves
  <2> QED BY <1>11, <2>2, <2>3 DEF Timeout
<1>13. CASE SeenInTime(r)
  <2>1. UNCHANGED <<row, container>> /\ at[r] \in Inside
    BY <1>13 DEF SeenInTime, NoContainer, Inside, Waiting
  <2>2. \E s \in Inside : GoTo(r, s)
    BY <1>13 DEF SeenInTime, Inside, Waiting
  <2> QED BY <1>6, <2>1, <2>2
<1>12. CASE WorkerDies(r)
  BY <1>12 DEF WorkerDies, NoContainer, NoDeletion, Dies, Moves, SameRow, TypeOK
<1> QED BY <1>1, <1>2, <1>3, <1>4, <1>5, <1>8, <1>9, <1>10, <1>11, <1>12, <1>13 DEF Job, JobStep

\* What it leaves alone.
OthersSame(r) ==
  \A q \in Runs : q # r =>
    /\ at'[q] = at[q] /\ result'[q] = result[q] /\ files'[q] = files[q]
    /\ container'[q] = container[q] /\ read'[q] = read[q] /\ outputs'[q] = outputs[q]
    /\ q \in deleted' => q \in deleted

LEMMA JobFrame ==
  ASSUME TypeOK, NEW r \in Runs, Job(r)
  PROVE  /\ UNCHANGED <<backend, run, web, printed>>
         /\ key'.netbird = key.netbird /\ key'.there = key.there /\ key.given \subseteq key'.given
         /\ OthersSame(r)
         /\ deleted \subseteq deleted' /\ escaped \subseteq escaped'
<1>1. UNCHANGED <<backend, run, web, printed>>
  BY DEF Job, JobStep, StartRun, Prepare, PreparationFails, StartContainer, RecordContainer,
     Outputs, WaitForPod, ReadLine, LogIsLost, LogEnds, DeleteOutputs, ReadWholeLog, StepFails,
     CheckStatus, Report, RemoveContainer, SeenInTime, Timeout, WorkerDies, NoRequests, NoContainer, NoDeletion
<1>2. CASE Prepare(r)
  <2>1. PICK i \in 1..4 :
           /\ at' = [at EXCEPT ![r] = Preparation[i + 1]]
           /\ files' = [files EXCEPT ![r] = files[r] \union {Preparation[i]}]
           /\ key' = [key EXCEPT !.given = key.given \union {r}] \/ key' = key
           /\ UNCHANGED <<result, container, deleted, escaped, read, outputs>>
    BY <1>2, PrepareIs
  <2>2. OthersSame(r)
    BY <2>1 DEF OthersSame, TypeOK
  <2>3. key'.netbird = key.netbird /\ key'.there = key.there /\ key.given \subseteq key'.given
    BY <2>1 DEF TypeOK
  <2>4. UNCHANGED <<deleted, escaped>>
    BY <2>1
  <2> QED BY <1>1, <2>2, <2>3, <2>4
<1>3. CASE ~Prepare(r)
  <2>1. UNCHANGED <<files, key>>
    BY <1>3 DEF Job, JobStep, StartRun, PreparationFails, StartContainer, RecordContainer,
       Outputs, WaitForPod, ReadLine, LogIsLost, LogEnds, DeleteOutputs, ReadWholeLog, StepFails,
       CheckStatus, Report, RemoveContainer, SeenInTime, Timeout, WorkerDies
  <2>2. \A q \in Runs : q # r => at'[q] = at[q]
    BY <1>3 DEF Job, JobStep, StartRun, PreparationFails, StartContainer, RecordContainer,
       Outputs, WaitForPod, ReadLine, LogIsLost, LogEnds, DeleteOutputs, ReadWholeLog, StepFails,
       CheckStatus, Report, RemoveContainer, SeenInTime, Timeout, WorkerDies, GoTo, Ends, TypeOK
  <2>3. \A q \in Runs : q # r => result'[q] = result[q]
    BY <1>3 DEF Job, JobStep, StartRun, PreparationFails, StartContainer, RecordContainer,
       Outputs, WaitForPod, ReadLine, LogIsLost, LogEnds, DeleteOutputs, ReadWholeLog, StepFails,
       CheckStatus, Report, RemoveContainer, SeenInTime, Timeout, WorkerDies, GoTo, Ends, TypeOK
  <2>4. \A q \in Runs : q # r => container'[q] = container[q]
    BY <1>3 DEF Job, JobStep, StartRun, PreparationFails, StartContainer, StartDocker,
       StartKubernetes, Becomes, DeleteContainer, RecordContainer,
       Outputs, WaitForPod, ReadLine, LogIsLost, LogEnds, DeleteOutputs, ReadWholeLog, StepFails,
       CheckStatus, Report, RemoveContainer, SeenInTime, Timeout, WorkerDies, NoContainer, NoDeletion, TypeOK
  <2>5. \A q \in Runs : q # r => read'[q] = read[q]
    BY <1>3 DEF Job, JobStep, StartRun, PreparationFails, StartContainer, RecordContainer,
       Outputs, WaitForPod, ReadLine, LogIsLost, LogEnds, DeleteOutputs, ReadWholeLog, StepFails,
       CheckStatus, Report, RemoveContainer, SeenInTime, Timeout, WorkerDies, NoLog, TypeOK
  <2>6. \A q \in Runs : q # r => outputs'[q] = outputs[q]
    BY <1>3 DEF Job, JobStep, StartRun, PreparationFails, StartContainer, RecordContainer,
       Outputs, WaitForPod, ReadLine, SaveLine, LogIsLost, LogEnds, DeleteOutputs, ReadWholeLog,
       StepFails, CheckStatus, Report, RemoveContainer, SeenInTime, Timeout, WorkerDies, NoLog, TypeOK
  <2>7. escaped \subseteq escaped'
    BY <1>3 DEF Job, JobStep, StartRun, PreparationFails, StartContainer, RecordContainer,
       Outputs, WaitForPod, ReadLine, LogIsLost, LogEnds, DeleteOutputs, ReadWholeLog, StepFails,
       CheckStatus, Report, RemoveContainer, SeenInTime, Timeout, WorkerDies, NoContainer, NoDeletion
  <2>8. deleted \subseteq deleted' /\ \A q \in Runs : q # r /\ q \in deleted' => q \in deleted
    BY <1>3 DEF Job, JobStep, StartRun, PreparationFails, StartContainer, DeleteContainer,
       RecordContainer, Outputs, WaitForPod, ReadLine, LogIsLost, LogEnds, DeleteOutputs,
       ReadWholeLog, StepFails, CheckStatus, Report, RemoveContainer, SeenInTime, Timeout,
       WorkerDies, NoContainer, NoDeletion
  <2> QED BY <1>1, <2>1, <2>2, <2>3, <2>4, <2>5, <2>6, <2>7, <2>8 DEF OthersSame
<1> QED BY <1>2, <1>3

\* The container goes on by itself.
PlaybookGoes(r) ==
  \/ /\ State(r) = "pending" /\ container'[r].state = "running" /\ printed'[r] = printed[r]
     /\ container'[r].code = container[r].code
  \/ /\ State(r) = "running" /\ container'[r] = container[r]
  \/ /\ State(r) = "running" /\ container'[r].state = "exited" /\ printed'[r] = printed[r]
  \/ /\ backend = "kubernetes" /\ State(r) = "exited" /\ container'[r].state = "noticed"
     /\ container'[r].code = container[r].code /\ printed'[r] = printed[r]
  \/ /\ r \in deleted /\ State(r) \in Exists /\ container'[r].state = "removed"
     /\ container'[r].code = container[r].code /\ printed'[r] = printed[r]

LEMMA PlaybookIs ==
  ASSUME TypeOK, NEW r \in Runs, Playbook(r)
  PROVE  /\ UNCHANGED <<backend, run, stage, row, at, result, files, key, web, read, outputs, deleted, escaped>>
         /\ PlaybookGoes(r)
         /\ \A q \in Runs : q # r => container'[q] = container[q] /\ printed'[q] = printed[q]
<1>1. UNCHANGED <<backend, run, stage, row, at, result, files, key, web, read, outputs, deleted, escaped>>
  BY DEF Playbook, PodStarts, PrintLine, Exit, StatusNoticed, PodGone, Untouched, NoDeletion, NoRequests, NoLog
<1>2. CASE PodStarts(r)
  BY <1>1, <1>2, BecomesTyped DEF PodStarts, PlaybookGoes, Exists
<1>3. CASE PrintLine(r)
  BY <1>1, <1>3 DEF PrintLine, PlaybookGoes, TypeOK
<1>4. CASE Exit(r)
  BY <1>1, <1>4 DEF Exit, PlaybookGoes, TypeOK
<1>5. CASE StatusNoticed(r)
  BY <1>1, <1>5, BecomesTyped DEF StatusNoticed, PlaybookGoes, Exists
<1>6. CASE PodGone(r)
  BY <1>1, <1>6, BecomesTyped DEF PodGone, PlaybookGoes
<1> QED BY <1>2, <1>3, <1>4, <1>5, <1>6 DEF Playbook

\* The states that a container may pass to without the job.
LEMMA PlaybookStates ==
  ASSUME TypeOK, NEW r \in Runs, Playbook(r)
  PROVE  \A q \in Runs :
           /\ State(q) = "none" <=> State(q)' = "none"
           /\ Deleted(q) <=> Deleted(q)'
           /\ State(q)' \in {"pending", "running"} => State(q) \in {"pending", "running"}
BY PlaybookIs DEF PlaybookGoes, State, Deleted, Exists

-----------------------------------------------------------------------------
(* Runs that have begun, and those that have not *)

\* A run that is still to be restarted waits; no container is there before it is
\* started; and a run has a result when it is over.
Begun ==
  \A r \in Runs :
    /\ r > run => at[r] = "idle"
    /\ at[r] \in Early => State(r) = "none"
    /\ result[r] # "none" => at[r] = "over"

BegunTyped == TypeOK /\ Begun

LEMMA JobBegun ==
  ASSUME BegunTyped, NEW r \in Runs, Job(r)
  PROVE  Begun'
<1>0. TypeOK /\ Begun /\ Moves(r) /\ OthersSame(r) /\ run' = run
  BY JobMoves, JobFrame DEF BegunTyped
<1>1. \A q \in Runs : q # r =>
        /\ q > run => at'[q] = "idle"
        /\ at'[q] \in Early => State(q)' = "none"
        /\ result'[q] # "none" => at'[q] = "over"
  BY <1>0 DEF Begun, OthersSame, State
<1>2. at[r] # "idle"
  BY <1>0 DEF Moves, Begins, Starts, Records, GoesOn, GivesIn, Removes, Keeps, Misses, Dies,
     Early, Inside, Preparing, Waiting, Files
<1>3. ~(r > run)
  BY <1>0, <1>2 DEF Begun
<1>4. (at'[r] \in Early => State(r)' = "none") /\ (result'[r] # "none" => at'[r] = "over")
  <2>1. CASE Begins(r)
    BY <1>0, <2>1 DEF Begins, SameContainer, State, Begun, Early, Preparing, Files
  <2>2. CASE Starts(r)
    BY <1>0, <2>2 DEF Starts, Begun, Early, Preparing, Files
  <2>3. CASE Records(r)
    BY <1>0, <2>3 DEF Records, SameContainer, Begun, Early, Preparing, Files
  <2>4. CASE GoesOn(r)
    BY <1>0, <2>4 DEF GoesOn, SameContainer, Begun, Early, Inside, Preparing, Files, Waiting
  <2>5. CASE at'[r] = "over"
    BY <2>5 DEF Early, Preparing, Files
  <2> QED BY <1>0, <2>1, <2>2, <2>3, <2>4, <2>5
        DEF Moves, GivesIn, Removes, Keeps, Misses, Dies, EndsAs
<1>5. ASSUME NEW q \in Runs
      PROVE  /\ q > run => at'[q] = "idle"
             /\ at'[q] \in Early => State(q)' = "none"
             /\ result'[q] # "none" => at'[q] = "over"
  <2>1. CASE q = r
    BY <1>3, <1>4, <2>1
  <2>2. CASE q # r
    BY <1>1, <2>2
  <2> QED BY <2>1, <2>2
<1> QED BY <1>0, <1>5 DEF Begun

\* What is done to the container of a run from outside, and what a request does.
LEMMA StopBegun ==
  ASSUME TypeOK, StopContainer
  PROVE  \A q \in Runs :
           /\ \/ State(q)' = State(q)
              \/ State(q) \in Exists /\ State(q)' = "removed"
           /\ Deleted(q) => Deleted(q)'
<1>1. CASE DeleteContainer(web.of)
  <2>1. PICK of \in Runs : of = web.of
    BY StopIs
  <2>2. DeleteContainer(of)
    BY <1>1, <2>1
  <2>3. /\ State(of) \in Exists /\ Deleted(of)' /\ State(of)' \in {"removed", State(of)}
        /\ deleted \subseteq deleted' /\ \A q \in Runs : q # of => container'[q] = container[q]
    BY <2>2, DeleteIs, Zenon
  <2>4. ASSUME NEW q \in Runs, q # of PROVE State(q)' = State(q) /\ (Deleted(q) => Deleted(q)')
    BY <2>3, <2>4 DEF State, Deleted
  <2> QED BY <2>3, <2>4
<1>2. CASE UNCHANGED <<container, deleted>>
  BY <1>2 DEF State, Deleted
<1> QED BY <1>1, <1>2, StopIs

LEMMA StepBegun == BegunTyped /\ [Next]_vars => BegunTyped'
<1> SUFFICES ASSUME BegunTyped, [Next]_vars PROVE Begun'
  BY StepTyped DEF BegunTyped
<1>0. TypeOK /\ Begun /\ run \in Runs /\ TypeOK'
  BY StepTyped DEF BegunTyped, TypeOK
<1>1. ASSUME NEW r \in Runs, Job(r) PROVE Begun'
  BY <1>1, JobBegun
<1>2. ASSUME NEW r \in Runs, Playbook(r) PROVE Begun'
  <2>1. UNCHANGED <<at, result, run>>
    BY <1>0, <1>2, PlaybookIs
  <2> QED BY <1>0, <1>2, <2>1, PlaybookStates DEF Begun
<1>3. CASE Provision \/ CloseStage \/ UNCHANGED vars
  <2>1. UNCHANGED <<at, result, run, container>>
    BY <1>3 DEF Provision, CloseStage, vars, NoRequests, NoContainer, NoDeletion
  <2> QED BY <1>0, <2>1 DEF Begun, State
<1>4. CASE Cancel
  <2>1. /\ UNCHANGED <<result, run, container>> /\ at \in [Runs -> Steps]
        /\ \/ at[run] = "queued" /\ at' = [at EXCEPT ![run] = "over"]
           \/ at' = at
    BY <1>0, <1>4, CancelIs DEF TypeOK
  <2>2. \A q \in Runs : at'[q] = at[q] \/ (q = run /\ at'[q] = "over")
    BY <2>1
  <2>3. "over" \notin Early
    BY DEF Early, Preparing, Files
  <2>4. \A q \in Runs : q > run => q # run
    BY <1>0, RunsAre
  <2> QED BY <1>0, <2>1, <2>2, <2>3, <2>4 DEF Begun, State
<1>5. CASE StopContainer
  <2>1. UNCHANGED <<at, result, run>>
    BY <1>0, <1>5, StopIs
  <2> QED BY <1>0, <1>5, <2>1, StopBegun DEF Begun, Exists
<1>6. CASE Restart
  <2>1. /\ run' = run + 1 /\ run + 1 \in Runs /\ at' = [at EXCEPT ![run + 1] = "queued"]
        /\ UNCHANGED <<result, container>> /\ at \in [Runs -> Steps]
    BY <1>0, <1>6, RestartIs DEF TypeOK
  <2>2. at[run + 1] = "idle"
    BY <1>0, <2>1, RunsAre DEF Begun
  <2>3. \A q \in Runs : q > run + 1 => q > run /\ q # run + 1
    BY <1>0, RunsAre
  <2>4. "idle" \in Early /\ "idle" # "over"
    BY DEF Early
  <2>5. State(run + 1) = "none" /\ result[run + 1] = "none"
    BY <1>0, <2>1, <2>2, <2>4 DEF Begun
  <2> QED BY <1>0, <2>1, <2>3, <2>5 DEF Begun, State
<1> QED BY <1>1, <1>2, <1>3, <1>4, <1>5, <1>6 DEF Next, Job

LEMMA InitBegun == Init => BegunTyped
<1>1. Init => Begun
  BY RunsAre DEF Init, Begun, State
<1> QED BY <1>1, InitTyped DEF BegunTyped

-----------------------------------------------------------------------------
(* No container is left behind *)

Cleaned == BegunTyped /\ NothingLeftRunning

LEMMA StepCleaned == Cleaned /\ [Next]_vars => Cleaned'
<1> SUFFICES ASSUME Cleaned, [Next]_vars PROVE NothingLeftRunning'
  BY StepBegun DEF Cleaned
<1>0. TypeOK /\ Begun /\ NothingLeftRunning /\ run \in Runs
  BY DEF Cleaned, BegunTyped, TypeOK
<1>1. ASSUME NEW r \in Runs, Job(r) PROVE NothingLeftRunning'
  <2>0. Moves(r) /\ OthersSame(r)
    BY <1>0, <1>1, JobMoves, JobFrame
  <2>1. result'[r] \in {"done", "error"} => State(r)' = "none" \/ Deleted(r)'
    <3>1. CASE at'[r] # "over"
      <4>1. result'[r] = result[r] /\ at[r] # "over"
        BY <2>0, <3>1 DEF Moves, Begins, Starts, Records, GoesOn, GivesIn, Removes, Keeps, Misses,
           Dies, EndsAs, SameContainer, Early, Inside, Preparing, Waiting, Files
      <4> QED BY <1>0, <4>1 DEF Begun
    <3>2. CASE GivesIn(r)
      BY <1>0, <3>2 DEF GivesIn, Begun, Early, State
    <3>3. CASE Removes(r)
      BY <3>3 DEF Removes, State
    <3>4. CASE Keeps(r) \/ Misses(r) \/ Dies(r)
      BY <3>4 DEF Keeps, Misses, Dies, EndsAs
    <3> QED BY <2>0, <3>1, <3>2, <3>3, <3>4
          DEF Moves, Begins, Starts, Records, GoesOn, Early, Inside, Preparing, Waiting, Files
  <2>2. \A q \in Runs : q # r => result'[q] = result[q] /\ State(q)' = State(q) /\ (Deleted(q) => Deleted(q)')
    BY <1>0, <1>1, <2>0, JobFrame DEF OthersSame, State, Deleted
  <2>3. ASSUME NEW q \in Runs
        PROVE  result'[q] \in {"done", "error"} => State(q)' = "none" \/ Deleted(q)'
    BY <1>0, <2>1, <2>2 DEF NothingLeftRunning
  <2> QED BY <2>3 DEF NothingLeftRunning
<1>2. ASSUME NEW r \in Runs, Playbook(r) PROVE NothingLeftRunning'
  <2>1. UNCHANGED result
    BY <1>0, <1>2, PlaybookIs
  <2> QED BY <1>0, <1>2, <2>1, PlaybookStates DEF NothingLeftRunning
<1>3. CASE Provision \/ CloseStage \/ Cancel \/ Restart \/ UNCHANGED vars
  <2>1. UNCHANGED <<result, container, deleted>>
    BY <1>3 DEF Provision, CloseStage, Cancel, Restart, vars, NoRequests, NoContainer, NoDeletion
  <2> QED BY <1>0, <2>1 DEF NothingLeftRunning, State, Deleted
<1>4. CASE StopContainer
  <2>1. UNCHANGED result
    BY <1>0, <1>4, StopIs
  <2>2. \A q \in Runs : State(q) = "none" \/ Deleted(q) => State(q)' = "none" \/ Deleted(q)'
    BY <1>0, <1>4, StopBegun DEF Exists
  <2> QED BY <1>0, <2>1, <2>2 DEF NothingLeftRunning
<1> QED BY <1>1, <1>2, <1>3, <1>4 DEF Next, Job

\* A job that ends by itself, done or with an error, has its container removed, whatever
\* step fails, whoever cancels it and whenever it is restarted; the job itself says when it
\* was refused, or interrupted before the try.
THEOREM ContainersAreRemoved == Spec => []NothingLeftRunning
<1>1. Init => Cleaned
  <2>1. Init => NothingLeftRunning
    BY DEF Init, NothingLeftRunning
  <2> QED BY <2>1, InitBegun DEF Cleaned
<1>2. Cleaned /\ [Next]_vars => Cleaned'
  BY StepCleaned
<1>3. Cleaned => NothingLeftRunning
  BY DEF Cleaned
<1> QED BY <1>1, <1>2, <1>3, PTL DEF Spec

-----------------------------------------------------------------------------
(* One playbook at a time *)

\* A run whose playbook neither works nor will work, or ran away.
Settled(r) ==
  \/ r \in escaped \/ Deleted(r) \/ result[r] = "kept"
  \/ at[r] = "over" /\ State(r) = "none"

\* Earlier runs are settled, and so is the run of a stage that is finished, or that a
\* cancellation is about to finish.
Superseded ==
  /\ \A r \in Runs : r < run => Settled(r)
  /\ stage.finished => Settled(run)
  /\ web.step = "close" => Settled(web.of)

\* Nothing brings a settled run back.
LEMMA JobSettled ==
  ASSUME BegunTyped, NEW r \in Runs, Job(r), NEW q \in Runs, Settled(q)
  PROVE  Settled(q)'
<1>0. /\ TypeOK /\ Begun /\ Moves(r) /\ OthersSame(r)
      /\ deleted \subseteq deleted' /\ escaped \subseteq escaped'
  BY JobMoves, JobFrame DEF BegunTyped
<1>1. CASE q # r
  BY <1>0, <1>1 DEF OthersSame, Settled, Deleted, State
<1>2. CASE q = r
  <2>1. at[r] # "over"
    BY <1>0 DEF Moves, Begins, Starts, Records, GoesOn, GivesIn, Removes, Keeps, Misses, Dies,
       Early, Inside, Preparing, Waiting, Files
  <2>2. r \in escaped \/ r \in deleted \/ State(r) = "removed"
    BY <1>0, <1>2, <2>1 DEF Settled, Deleted, Begun
  <2>3. ASSUME State(r) = "removed" PROVE Deleted(r)'
    <3>1. at[r] \notin Early /\ ~Starts(r)
      BY <1>0, <2>3 DEF Begun, Starts, Early, Preparing
    <3>2. container'[r] = container[r] \/ Removes(r)
      BY <1>0, <3>1 DEF Moves, Begins, Records, GoesOn, GivesIn, Keeps, Misses, Dies, SameContainer
    <3> QED BY <2>3, <3>2 DEF Removes, Deleted, State
  <2> QED BY <1>0, <1>2, <2>2, <2>3 DEF Settled, Deleted
<1> QED BY <1>1, <1>2

\* A job that finishes its stage has settled its run.
LEMMA JobFinishes ==
  ASSUME BegunTyped, NEW r \in Runs, Job(r), r = run, stage' # stage
  PROVE  Settled(r)'
<1>0. TypeOK /\ Begun /\ Moves(r)
  BY JobMoves DEF BegunTyped
<1>1. GivesIn(r) \/ Removes(r) \/ Keeps(r) \/ Misses(r)
  BY <1>0 DEF Moves, Begins, Starts, Records, GoesOn, Dies, SameRow
<1>2. CASE GivesIn(r)
  BY <1>0, <1>2 DEF GivesIn, EndsAs, Begun, Early, Settled, State
<1>3. CASE Removes(r) \/ Keeps(r) \/ Misses(r)
  BY <1>3 DEF Removes, Keeps, Misses, EndsAs, Settled
<1> QED BY <1>1, <1>2, <1>3

LEMMA JobSuperseded ==
  ASSUME BegunTyped, Superseded, NEW r \in Runs, Job(r)
  PROVE  Superseded'
<1>0. /\ TypeOK /\ run' = run /\ web' = web /\ run \in Runs /\ web.of \in Runs
  BY JobFrame DEF BegunTyped, TypeOK
<1>1. \A q \in Runs : Settled(q) => Settled(q)'
  BY JobSettled
<1>2. stage'.finished => Settled(run)'
  <2>1. CASE stage' = stage
    BY <1>0, <1>1, <2>1 DEF Superseded
  <2>2. CASE stage' # stage
    <3>1. r = run
      BY <1>0, <2>2, JobMoves DEF Moves, Begins, Starts, Records, GoesOn, GivesIn, Removes, Keeps,
         Misses, Dies, EndsAs, SameRow
    <3>2. Settled(r)'
      BY <2>2, <3>1, JobFinishes
    <3> QED BY <1>0, <3>1, <3>2 DEF Settled, Deleted, State
  <2> QED BY <2>1, <2>2
<1>3. Settled(web.of) => Settled(web.of)'
  BY <1>0, <1>1
<1> QED BY <1>0, <1>1, <1>2, <1>3 DEF Superseded

\* A step that changes neither rows nor requests, and unsettles nothing.
LEMMA FrameSuperseded ==
  ASSUME TypeOK, Superseded, UNCHANGED <<run, stage, web>>,
         \A q \in Runs : Settled(q) => Settled(q)'
  PROVE  Superseded'
BY DEF Superseded, TypeOK

LEMMA StopSuperseded ==
  ASSUME BegunTyped, Superseded, StopContainer
  PROVE  Superseded'
<1>0. TypeOK /\ run \in Runs /\ web.of \in Runs
  BY DEF BegunTyped, TypeOK
<1>1. UNCHANGED <<run, stage, at, result>> /\ web'.of = web.of /\ escaped \subseteq escaped'
  BY <1>0, StopIs
<1>2. \A q \in Runs : Settled(q) => Settled(q)'
  BY <1>0, <1>1, StopBegun DEF Settled, Exists
<1>3. Settled(web.of)'
  <2>1. CASE DeleteContainer(web.of)
    BY <1>0, <1>1, <2>1, DeleteIs DEF Settled, Deleted, State
  <2>2. CASE Deleted(web.of) /\ UNCHANGED <<container, deleted>>
    BY <1>1, <2>2 DEF Settled, Deleted, State
  <2>3. CASE escaped' = escaped \union {web.of}
    BY <1>1, <2>3 DEF Settled
  <2> QED BY <1>0, <2>1, <2>2, <2>3, StopIs
<1> QED BY <1>0, <1>1, <1>2, <1>3 DEF Superseded

LEMMA StepSuperseded ==
  BegunTyped /\ Superseded /\ [Next]_vars => Superseded'
<1> SUFFICES ASSUME BegunTyped, Superseded, [Next]_vars PROVE Superseded'
  OBVIOUS
<1>0. TypeOK /\ Begun /\ run \in Runs
  BY DEF BegunTyped, TypeOK
<1>1. ASSUME NEW r \in Runs, Job(r) PROVE Superseded'
  BY <1>1, JobSuperseded
<1>2. ASSUME NEW r \in Runs, Playbook(r) PROVE Superseded'
  <2>1. UNCHANGED <<run, stage, web, at, result, escaped>>
    BY <1>0, <1>2, PlaybookIs
  <2>2. \A q \in Runs : Settled(q) => Settled(q)'
    BY <1>0, <1>2, <2>1, PlaybookStates DEF Settled
  <2> QED BY <1>0, <2>1, <2>2, FrameSuperseded
<1>3. CASE Provision \/ UNCHANGED vars
  <2>1. UNCHANGED <<run, at, result, stage, web, container, deleted, escaped>>
    BY <1>3 DEF Provision, NoRequests, NoContainer, NoDeletion, vars
  <2> QED BY <1>0, <2>1, FrameSuperseded DEF Settled, Deleted, State
<1>4. CASE Cancel
  <2>1. /\ UNCHANGED <<run, result, stage, container, deleted, escaped>> /\ ~stage.finished
        /\ web'.step = "stop"
        /\ \/ at[run] = "queued" /\ at' = [at EXCEPT ![run] = "over"]
           \/ at' = at
    BY <1>0, <1>4, CancelIs
  <2>2. \A q \in Runs : at[q] = "over" => at'[q] = "over"
    BY <1>0, <2>1 DEF TypeOK
  <2>3. \A q \in Runs : Settled(q) => Settled(q)'
    BY <2>1, <2>2 DEF Settled, Deleted, State
  <2> QED BY <1>0, <2>1, <2>3 DEF Superseded
<1>5. CASE StopContainer
  BY <1>5, StopSuperseded
<1>6. CASE CloseStage
  <2>1. /\ UNCHANGED <<run, at, result, container, deleted, escaped>> /\ web.step = "close"
        /\ web'.step = "idle" /\ web.of \in Runs
        /\ web.of = run \/ stage' = stage
    BY <1>0, <1>6, CloseIs
  <2>2. \A q \in Runs : Settled(q)' <=> Settled(q)
    BY <2>1 DEF Settled, Deleted, State
  <2>3. stage'.finished => Settled(run)
    BY <2>1 DEF Superseded
  <2> QED BY <1>0, <2>1, <2>2, <2>3 DEF Superseded
<1>7. CASE Restart
  <2>1. /\ stage.finished /\ ~stage'.finished /\ run' = run + 1 /\ run + 1 \in Runs
        /\ at' = [at EXCEPT ![run + 1] = "queued"] /\ at[run + 1] = "idle"
        /\ UNCHANGED <<result, web, container, deleted, escaped>>
    BY <1>0, <1>7, RestartIs, RunsAre DEF Begun
  <2>2. \A q \in Runs : at[q] = "over" => at'[q] = "over"
    BY <1>0, <2>1 DEF TypeOK
  <2>3. \A q \in Runs : Settled(q) => Settled(q)'
    BY <2>1, <2>2 DEF Settled, Deleted, State
  <2>4. \A q \in Runs : q < run + 1 => q < run \/ q = run
    BY <1>0, RunsAre
  <2>5. web.of \in Runs
    BY <1>0 DEF TypeOK
  <2> QED BY <1>0, <2>1, <2>3, <2>4, <2>5 DEF Superseded
<1> QED BY <1>1, <1>2, <1>3, <1>4, <1>5, <1>6, <1>7 DEF Next, Job

\* On one sandbox one playbook works at a time, for any number of restarts, whatever is
\* cancelled, fails, times out or dies, and when: but for playbooks that ran away.
THEOREM OnePlaybookAtATime == Spec => []OnePlaybook
<1>1. Init => BegunTyped /\ Superseded
  <2>1. Init => Superseded
    BY DEF Init, NewStage, Runs, Superseded
  <2> QED BY <2>1, InitBegun
<1>2. BegunTyped /\ Superseded /\ [Next]_vars => (BegunTyped /\ Superseded)'
  BY StepBegun, StepSuperseded
<1>3. BegunTyped /\ Superseded => OnePlaybook
  <2> SUFFICES ASSUME BegunTyped, Superseded PROVE OnePlaybook
    OBVIOUS
  <2> DEFINE Playing == {r \in Runs : Working(r) /\ r \notin escaped /\ result[r] # "kept"}
  <2>1. run \in Runs
    BY DEF BegunTyped, TypeOK
  <2>2. ASSUME NEW r \in Playing PROVE r = run
    <3>1. r \in Runs /\ ~Settled(r) /\ State(r) # "none"
      BY DEF Settled, Working, Deleted
    <3>2. ~(r < run)
      BY <3>1 DEF Superseded
    <3>3. ~(r > run)
      BY <3>1 DEF BegunTyped, Begun, Early
    <3> QED BY <2>1, <3>1, <3>2, <3>3, RunsAre
  <2>3. Playing \subseteq {run}
    BY <2>2
  <2>4. IsFiniteSet({run}) /\ Cardinality({run}) = 1
    BY FS_Singleton
  <2>5. Cardinality(Playing) <= Cardinality({run})
    BY <2>3, <2>4, FS_Subset
  <2> QED BY <2>4, <2>5 DEF OnePlaybook
<1> QED BY <1>1, <1>2, <1>3, PTL DEF Spec

-----------------------------------------------------------------------------
(* A stage that is done has run its playbook *)

Saved(r, n) == \A l \in Lines : outputs[r][l] = IF l <= n THEN 1 ELSE 0
Unread(r) == outputs[r] = NoOutputs /\ read[r] = 0
Started == Inside \union {"start"}

\* What each step of the preparation has found prepared.
Prepared(r) ==
  /\ at[r] = "inventory" => "ssh" \in files[r]
  /\ at[r] = "containers" => {"ssh", "inventory"} \subseteq files[r]
  /\ at[r] = "credentials" => {"ssh", "inventory", "containers"} \subseteq files[r]
  /\ at[r] \in Started => files[r] = Files

\* The current run began when the NetBird job had ended, and took its key.
Keyed(r) ==
  /\ at[r] \notin {"idle", "queued", "over"} => key.netbird = "done"
  /\ at[r] \in Started \union {"containers", "credentials"} /\ key.there => r \in key.given

\* The docker log is read once and to its end; that of kubernetes is read anew when the
\* pod has come to its end.
Copied(r) ==
  /\ at[r] = "log" /\ backend = "docker" => Saved(r, read[r])
  /\ at[r] \in {"pod", "save", "read"} => backend # "docker"
  /\ at[r] \in {"save", "read"} /\ State(r) \in Exists => State(r) = "noticed"
  /\ at[r] \in {"status", "report", "remove"} /\ State(r) \in Exists =>
       HasExited(r) /\ Saved(r, printed[r])
  /\ at[r] \in {"report", "remove"} => container[r].code = "ok"

Complete(r) ==
  /\ at[r] = "over" /\ key.netbird = "done"
  /\ files[r] = Files /\ (key.there => r \in key.given)
  /\ container[r].code = "ok" /\ Deleted(r) /\ Saved(r, printed[r])
  /\ HasExited(r) \/ State(r) = "removed"

Ran ==
  /\ BegunTyped
  /\ \A r \in Runs : at[r] \in Early \union {"record", "pod"} => Unread(r)
  /\ \A r \in Runs : Prepared(r)
  /\ Keyed(run)
  /\ Copied(run)
  /\ stage.finished /\ ~stage.failed => Complete(run)

\* Steps of a job other than those of its preparation.
LEMMA JobRest ==
  ASSUME TypeOK, NEW r \in Runs, Job(r), ~Prepare(r)
  PROVE  /\ files' = files /\ key' = key
         /\ \/ at'[r] = "over"
            \/ at[r] = "queued" /\ at'[r] = "ssh" /\ key.netbird = "done"
            \/ at[r] \in Started /\ at'[r] \in Inside
<1>1. files' = files /\ key' = key
  BY DEF Job, JobStep, StartRun, PreparationFails, StartContainer, RecordContainer,
     Outputs, WaitForPod, ReadLine, LogIsLost, LogEnds, DeleteOutputs, ReadWholeLog, StepFails,
     CheckStatus, Report, RemoveContainer, SeenInTime, Timeout, WorkerDies
<1>2. CASE StartRun(r)
  BY <1>1, <1>2, PreparationIs DEF StartRun, GoTo, TypeOK
<1>3. CASE PreparationFails(r) \/ WorkerDies(r)
  BY <1>1, <1>3 DEF PreparationFails, WorkerDies, Ends, TypeOK
<1>4. CASE ~StartRun(r) /\ ~PreparationFails(r) /\ ~WorkerDies(r)
  <2>1. at[r] \in Started
    BY <1>4 DEF Job, JobStep, StartContainer, RecordContainer,
       Outputs, WaitForPod, ReadLine, LogIsLost, LogEnds, DeleteOutputs, ReadWholeLog, StepFails,
       CheckStatus, Report, RemoveContainer, SeenInTime, Timeout, Started, Inside, Waiting
  <2>2. Moves(r)
    BY JobMoves
  <2>3. at'[r] = "over" \/ at'[r] \in Inside \/ Begins(r)
    BY <2>2 DEF Moves, Starts, Records, GoesOn, GivesIn, Removes, Keeps, Misses, Dies, EndsAs,
       Inside, Waiting
  <2>4. CASE Begins(r)
    <3>1. at[r] = "start"
      BY <2>1, <2>4 DEF Begins, Early, Started, Inside, Waiting, Preparing, Files
    <3>2. StartContainer(r)
      BY <1>4, <3>1 DEF Job, JobStep, RecordContainer,
         Outputs, WaitForPod, ReadLine, LogIsLost, LogEnds, DeleteOutputs, ReadWholeLog, StepFails,
         CheckStatus, Report, RemoveContainer, SeenInTime, Timeout, Waiting
    <3> QED BY <1>1, <3>1, <3>2 DEF StartContainer, GoTo, TypeOK, Started, Inside
  <2> QED BY <1>1, <2>1, <2>3, <2>4
<1> QED BY <1>2, <1>3, <1>4

LEMMA JobPrepared ==
  ASSUME TypeOK, NEW r \in Runs, Job(r), Prepared(r)
  PROVE  Prepared(r)'
<1>1. CASE Prepare(r)
  <2>1. PICK i \in 1..4 :
          /\ at[r] = Preparation[i] /\ at' = [at EXCEPT ![r] = Preparation[i + 1]]
          /\ files' = [files EXCEPT ![r] = files[r] \union {Preparation[i]}]
    BY <1>1, PrepareIs
  <2>2. at'[r] = Preparation[i + 1] /\ files'[r] = files[r] \union {Preparation[i]}
    BY <2>1 DEF TypeOK
  <2>3. \/ i = 1 /\ i + 1 = 2
        \/ i = 2 /\ i + 1 = 3
        \/ i = 3 /\ i + 1 = 4
        \/ i = 4 /\ i + 1 = 5
    OBVIOUS
  <2>4. \/ at[r] = "ssh" /\ at'[r] = "inventory" /\ files'[r] = files[r] \union {"ssh"}
        \/ at[r] = "inventory" /\ at'[r] = "containers" /\ files'[r] = files[r] \union {"inventory"}
        \/ at[r] = "containers" /\ at'[r] = "credentials" /\ files'[r] = files[r] \union {"containers"}
        \/ at[r] = "credentials" /\ at'[r] = "start" /\ files'[r] = files[r] \union {"credentials"}
    BY <2>1, <2>2, <2>3, PreparationIs, Zenon
  <2>5. at'[r] = "start" => files'[r] = Files
    BY <2>4 DEF Prepared, Files, TypeOK
  <2> QED BY <2>4, <2>5 DEF Prepared, Started, Inside, Waiting
<1>2. CASE ~Prepare(r)
  <2>1. /\ files' = files
        /\ at'[r] \in {"over", "ssh"} \/ (at[r] \in Started /\ at'[r] \in Inside)
    BY <1>2, JobRest
  <2> QED BY <2>1 DEF Prepared, Started, Inside, Waiting
<1> QED BY <1>1, <1>2

LEMMA JobKeyed ==
  ASSUME TypeOK, NEW r \in Runs, Job(r), Keyed(r)
  PROVE  Keyed(r)'
<1>1. CASE Prepare(r)
  <2>1. PICK i \in 1..4 :
          /\ at[r] = Preparation[i] /\ at' = [at EXCEPT ![r] = Preparation[i + 1]]
          /\ \/ at[r] = "inventory" /\ key.there /\ key' = [key EXCEPT !.given = key.given \union {r}]
             \/ ~(at[r] = "inventory" /\ key.there) /\ key' = key
    BY <1>1, PrepareIs
  <2>2. at'[r] = Preparation[i + 1]
    BY <2>1 DEF TypeOK
  <2>3. \/ i = 1 /\ i + 1 = 2
        \/ i = 2 /\ i + 1 = 3
        \/ i = 3 /\ i + 1 = 4
        \/ i = 4 /\ i + 1 = 5
    OBVIOUS
  <2>4. \/ at[r] = "ssh" /\ at'[r] = "inventory"
        \/ at[r] = "inventory" /\ at'[r] = "containers"
        \/ at[r] = "containers" /\ at'[r] = "credentials"
        \/ at[r] = "credentials" /\ at'[r] = "start"
    BY <2>1, <2>2, <2>3, PreparationIs, Zenon
  <2>5. key'.netbird = key.netbird /\ key'.there = key.there /\ key.netbird = "done"
    BY <2>1, <2>4 DEF TypeOK, Keyed
  <2>6. at[r] = "inventory" /\ key.there => r \in key'.given
    BY <2>1 DEF TypeOK
  <2>7. at[r] \in {"containers", "credentials"} /\ key.there => r \in key'.given
    BY <2>1 DEF Keyed
  <2> QED BY <2>4, <2>5, <2>6, <2>7 DEF Keyed, Started, Inside, Waiting
<1>2. CASE ~Prepare(r)
  <2>1. /\ key' = key
        /\ \/ at'[r] = "over"
           \/ at'[r] = "ssh" /\ key.netbird = "done"
           \/ at[r] \in Started /\ at'[r] \in Inside
    BY <1>2, JobRest
  <2> QED BY <2>1 DEF Keyed, Started, Inside, Waiting
<1> QED BY <1>1, <1>2

\* Steps of a job that neither read nor write the outputs.
LEMMA JobUnread ==
  ASSUME TypeOK, NEW r \in Runs, Job(r), at[r] \in Early \union {"record", "pod"} => Unread(r)
  PROVE  at'[r] \in Early \union {"record", "pod"} => Unread(r)'
<1>1. CASE at[r] \in Early \union {"record", "pod"}
  <2>1. UNCHANGED <<read, outputs>>
    BY <1>1 DEF Job, JobStep, StartRun, Prepare, PreparationFails, StartContainer, RecordContainer,
       Outputs, WaitForPod, ReadLine, LogIsLost, LogEnds, DeleteOutputs, ReadWholeLog,
       StepFails, CheckStatus, Report, RemoveContainer, SeenInTime, Timeout, WorkerDies, NoLog,
       Early, Preparing, Files
  <2> QED BY <1>1, <2>1 DEF Unread
<1>2. CASE at[r] \notin Early \union {"record", "pod"}
  <2>1. Moves(r)
    BY JobMoves
  <2>2. at'[r] \in Inside \union {"over"}
    BY <1>2, <2>1 DEF Moves, Begins, Starts, Records, GoesOn, GivesIn, Removes, Keeps, Misses, Dies,
       EndsAs, Early, Inside, Preparing
  <2>3. at'[r] \notin {"record", "pod"}
    <3>1. CASE Prepare(r) \/ StartRun(r) \/ PreparationFails(r) \/ StartContainer(r) \/ RecordContainer(r)
      <4>1. CASE Prepare(r)
        <5>1. at[r] \in Files
          BY <4>1, PrepareIs, PreparationSteps
        <5> QED BY <1>2, <5>1 DEF Early, Preparing
      <4> QED BY <1>2, <3>1, <4>1 DEF StartRun, PreparationFails, StartContainer, RecordContainer,
            Early, Preparing
    <3>2. CASE Outputs(r)
      BY <1>2, <3>2 DEF Outputs, WaitForPod, ReadLine, LogIsLost, LogEnds, DeleteOutputs, ReadWholeLog,
         GoTo, TypeOK
    <3>3. CASE \/ StepFails(r) \/ CheckStatus(r) \/ Report(r) \/ RemoveContainer(r)
               \/ SeenInTime(r) \/ Timeout(r) \/ WorkerDies(r)
      BY <3>3 DEF StepFails, CheckStatus, Report, RemoveContainer, SeenInTime, Timeout, WorkerDies, GoTo, Ends, TypeOK
    <3> QED BY <3>1, <3>2, <3>3 DEF Job, JobStep
  <2> QED BY <2>2, <2>3 DEF Early, Inside, Preparing, Waiting, Files
<1> QED BY <1>1, <1>2

LEMMA NothingSaved ==
  ASSUME NEW r \in Runs, Unread(r)
  PROVE  Saved(r, 0) /\ read[r] = 0
BY DEF Saved, Unread, NoOutputs, Lines

\* One line more is saved.
LEMMA LineSaved ==
  ASSUME TypeOK, NEW r \in Runs, Saved(r, read[r]), SaveLine(r), read[r] + 1 \in Lines,
         read' = [read EXCEPT ![r] = read[r] + 1]
  PROVE  Saved(r, read[r])'
<1> DEFINE l == read[r] + 1
<1>1. outputs[r][l] = 0
  BY RunsAre DEF Saved, TypeOK
<1>2. outputs'[r] = [outputs[r] EXCEPT ![l] = 1]
  BY <1>1 DEF SaveLine, TypeOK
<1>3. outputs'[r][l] = 1 /\ \A k \in Lines : k # l => outputs'[r][k] = outputs[r][k]
  BY <1>2 DEF TypeOK
<1>4. read'[r] = l
  BY DEF TypeOK
<1>5. ASSUME NEW k \in Lines
      PROVE  outputs'[r][k] = IF k <= l THEN 1 ELSE 0
  <2>1. k = l \/ (k <= l <=> k <= read[r])
    BY RunsAre DEF TypeOK, Lines
  <2>2. CASE k = l
    BY <1>3, <2>2, RunsAre DEF TypeOK, Lines
  <2>3. CASE k # l
    BY <1>3, <2>1, <2>3 DEF Saved
  <2> QED BY <2>2, <2>3
<1> QED BY <1>4, <1>5 DEF Saved

LEMMA JobCopied ==
  ASSUME TypeOK, NEW r \in Runs, r = run, Job(r), Copied(r),
         at[r] \in Early \union {"record", "pod"} => Unread(r)
  PROVE  Copied(r)'
<1>0. UNCHANGED <<backend, printed>>
  BY JobFrame
<1>1. ASSUME at'[r] \in Early \union {"record", "give up", "over"} PROVE Copied(r)'
  BY <1>1 DEF Copied, Early, Preparing, Files
<1>2. CASE StartRun(r) \/ Prepare(r) \/ PreparationFails(r) \/ StartContainer(r)
  <2>1. at[r] \in Early
    <3>1. CASE Prepare(r)
      BY <3>1, PrepareIs, PreparationSteps DEF Early, Preparing
    <3> QED BY <1>2, <3>1 DEF StartRun, PreparationFails, StartContainer, Early, Preparing, Files
  <2>2. Moves(r)
    BY JobMoves
  <2>3. at'[r] \in Early \union {"record", "over"}
    BY <2>1, <2>2 DEF Moves, Begins, Starts, Records, GoesOn, GivesIn, Removes, Keeps, Misses, Dies,
       EndsAs, Early, Inside, Waiting, Preparing, Files
  <2> QED BY <1>1, <2>3
<1>3. CASE RecordContainer(r)
  <2>1. Saved(r, 0) /\ read[r] = 0
    BY <1>3, NothingSaved DEF RecordContainer
  <2>2. CASE backend = "docker"
    <3>1. at'[r] = "log" /\ UNCHANGED <<read, outputs>>
      BY <1>3, <2>2 DEF RecordContainer, GoTo, NoLog, TypeOK
    <3> QED BY <1>0, <2>1, <3>1 DEF Copied, Saved
  <2>3. CASE backend # "docker"
    <3>1. at'[r] = "pod"
      BY <1>3, <2>3 DEF RecordContainer, GoTo, TypeOK
    <3> QED BY <1>0, <2>3, <3>1 DEF Copied
  <2> QED BY <2>2, <2>3
<1>4. CASE WaitForPod(r)
  <2>1. backend # "docker" /\ at'[r] \in {"give up", "log"}
    BY <1>4 DEF WaitForPod, GoTo, TypeOK, Copied
  <2> QED BY <1>0, <1>1, <2>1 DEF Copied
<1>5. CASE ReadLine(r)
  <2>0. CASE GoTo(r, "give up")
    BY <1>1, <2>0 DEF GoTo, TypeOK
  <2>1. CASE backend = "kubernetes" /\ State(r) = "noticed" /\ GoTo(r, "save")
    <3>1. at'[r] = "save" /\ State(r)' = "noticed"
      BY <1>5, <2>1 DEF ReadLine, GoTo, TypeOK, NoContainer, NoDeletion, State
    <3> QED BY <1>0, <2>1, <3>1 DEF Copied
  <2>2. CASE read' = [read EXCEPT ![r] = read[r] + 1] /\ UNCHANGED at
    <3>0. /\ read[r] \in 0..MaxLines /\ printed[r] \in 0..MaxLines /\ read[r] < printed[r]
          /\ at[r] = "log" /\ SaveLine(r)
      BY <1>5 DEF ReadLine, TypeOK
    <3>1. read[r] + 1 \in Lines
      BY <3>0, RunsAre DEF Lines
    <3>2. backend = "docker" => Saved(r, read[r])'
      BY <2>2, <3>0, <3>1, LineSaved DEF Copied
    <3>3. at'[r] = "log"
      BY <1>5, <2>2 DEF ReadLine
    <3> QED BY <1>0, <3>2, <3>3 DEF Copied
  <2> QED BY <1>5, <2>0, <2>1, <2>2 DEF ReadLine
<1>6. CASE LogEnds(r)
  <2>1. UNCHANGED <<container, outputs>> /\ at[r] = "log"
    BY <1>6 DEF LogEnds, NoContainer, NoDeletion
  <2>2. CASE backend = "docker"
    <3>1. at'[r] = "status"
      BY <1>6, <2>2 DEF LogEnds, GoTo, TypeOK
    <3>2. State(r) = "removed" \/ (HasExited(r) /\ read[r] = printed[r])
      BY <1>6 DEF LogEnds
    <3>3. Saved(r, read[r])
      BY <2>1, <2>2 DEF Copied
    <3>4. State(r) \in Exists => HasExited(r) /\ Saved(r, printed[r])
      BY <3>2, <3>3 DEF Exists
    <3> QED BY <1>0, <2>1, <3>1, <3>4 DEF Copied, Saved, State, HasExited
  <2>3. CASE backend # "docker"
    <3>1. at'[r] = "log"
      BY <1>6, <2>1, <2>3 DEF LogEnds
    <3> QED BY <1>0, <2>3, <3>1 DEF Copied
  <2> QED BY <2>2, <2>3
<1>7. CASE DeleteOutputs(r)
  <2>1. /\ at[r] = "save" /\ at'[r] = "read" /\ UNCHANGED container
    BY <1>7 DEF DeleteOutputs, GoTo, TypeOK, NoContainer, NoDeletion
  <2> QED BY <1>0, <2>1 DEF Copied, State
<1>8. CASE ReadWholeLog(r)
  <2>1. CASE State(r) \in Exists
    <3>1. /\ at'[r] = "status" /\ UNCHANGED container /\ State(r) = "noticed"
          /\ outputs'[r] = [l \in Lines |-> IF l <= printed[r] THEN 1 ELSE 0]
      BY <1>8, <2>1 DEF ReadWholeLog, GoTo, TypeOK, NoContainer, NoDeletion, Copied
    <3>2. Saved(r, printed[r])'
      BY <1>0, <3>1 DEF Saved
    <3> QED BY <1>0, <3>1, <3>2 DEF Copied, State, HasExited
  <2>2. CASE State(r) \notin Exists
    BY <1>1, <1>8, <2>2 DEF ReadWholeLog, GoTo, TypeOK
  <2> QED BY <2>1, <2>2
<1>9. CASE CheckStatus(r)
  <2>1. UNCHANGED <<container, outputs>> /\ at[r] = "status"
    BY <1>9 DEF CheckStatus, NoContainer, NoDeletion, NoLog
  <2>2. CASE HasExited(r) /\ container[r].code = "ok"
    <3>1. at'[r] = "report"
      BY <1>9, <2>2 DEF CheckStatus, GoTo, TypeOK
    <3> QED BY <1>0, <2>1, <2>2, <3>1 DEF Copied, State, HasExited, Saved
  <2>3. CASE ~(HasExited(r) /\ container[r].code = "ok")
    BY <1>1, <1>9, <2>3 DEF CheckStatus, GoTo, TypeOK
  <2> QED BY <2>2, <2>3
<1>10. CASE Report(r)
  <2>1. UNCHANGED <<container, outputs>> /\ at[r] = "report" /\ at'[r] = "remove"
    BY <1>10 DEF Report, NoContainer, NoDeletion, NoLog, GoTo, TypeOK
  <2> QED BY <1>0, <2>1 DEF Copied, State, HasExited, Saved
<1>11. CASE LogIsLost(r) \/ StepFails(r) \/ RemoveContainer(r) \/ Timeout(r) \/ WorkerDies(r)
  <2>1. at'[r] \in {"give up", "over"}
    BY <1>11 DEF LogIsLost, StepFails, RemoveContainer, SeenInTime, Timeout, WorkerDies, GoTo, Ends, TypeOK
  <2> QED BY <1>1, <2>1
<1>12. CASE SeenInTime(r)
  <2>1. UNCHANGED <<container, outputs>>
    BY <1>12 DEF SeenInTime, NoContainer, NoDeletion, NoLog
  <2>2. CASE at[r] = "pod"
    <3>1. backend # "docker" /\ at'[r] \in {"give up", "log"}
      BY <1>12, <2>2 DEF SeenInTime, GoTo, TypeOK, Copied
    <3> QED BY <1>0, <1>1, <3>1 DEF Copied
  <2>3. CASE at[r] = "status" /\ State(r) = "noticed" /\ container[r].code = "ok"
    <3>1. at'[r] = "report"
      BY <1>12, <2>3 DEF SeenInTime, GoTo, TypeOK
    <3> QED BY <1>0, <2>1, <2>3, <3>1 DEF Copied, State, HasExited, Saved, Exists
  <2>4. CASE at[r] = "status" /\ container[r].code # "ok"
    <3>1. at'[r] = "give up"
      BY <1>12, <2>4 DEF SeenInTime, GoTo, TypeOK
    <3> QED BY <1>1, <3>1
  <2> QED BY <1>12, <2>2, <2>3, <2>4 DEF SeenInTime
<1> QED BY <1>2, <1>3, <1>4, <1>5, <1>6, <1>7, <1>8, <1>9, <1>10, <1>11, <1>12 DEF Job, JobStep, Outputs

\* The step that reports the stage as done.
LEMMA JobCompletes ==
  ASSUME TypeOK, TypeOK', NEW r \in Runs, r = run, Job(r), Prepared(r), Keyed(r), Copied(r),
         stage'.finished, ~stage'.failed, ~(stage.finished /\ ~stage.failed)
  PROVE  Complete(r)'
<1>1. stage' # stage
  OBVIOUS
<1>2. Ends(r, "done")
  <2>1. ~Prepare(r)
    BY <1>1, PrepareIs
  <2>2. ~\E how \in {"error", "kept", "lost"} : Ends(r, how)
    <3> SUFFICES ASSUME NEW how \in {"error", "kept", "lost"}, Ends(r, how) PROVE FALSE
      OBVIOUS
    <3>1. stage' = [finished |-> TRUE, failed |-> how # "done"]
      BY DEF Ends
    <3> QED BY <3>1
  <2>3. \A step : ~GoTo(r, step)
    BY <1>1 DEF GoTo
  <2> QED BY <1>1, <2>1, <2>2, <2>3 DEF Job, JobStep, StartRun, PreparationFails, StartContainer,
        RecordContainer, Outputs, WaitForPod, ReadLine, LogIsLost, LogEnds, DeleteOutputs,
        ReadWholeLog, StepFails, CheckStatus, Report, RemoveContainer, SeenInTime, Timeout, WorkerDies
<1>3. RemoveContainer(r) /\ at[r] = "remove" /\ DeleteContainer(r)
  <2>1. result'[r] = "done" /\ at'[r] = "over"
    BY <1>1, <1>2 DEF Ends, TypeOK
  <2>2. \A how : Ends(r, how) => result'[r] = how
    BY DEF Ends, TypeOK
  <2>3. ~Prepare(r) /\ ~\E step : GoTo(r, step)
    BY <1>1, PrepareIs DEF GoTo
  <2>4. RemoveContainer(r)
    BY <1>1, <2>1, <2>2, <2>3 DEF Job, JobStep, StartRun, PreparationFails, StartContainer,
       RecordContainer, Outputs, WaitForPod, ReadLine, LogIsLost, LogEnds, DeleteOutputs,
       ReadWholeLog, StepFails, CheckStatus, Report, SeenInTime, Timeout, WorkerDies
  <2> QED BY <2>1, <2>2, <2>4 DEF RemoveContainer
<1>4. /\ State(r) \in Exists /\ State(r)' \in {"removed", State(r)} /\ Deleted(r)'
      /\ container'[r].code = container[r].code
      /\ UNCHANGED <<files, key, printed, outputs>> /\ at'[r] = "over"
  BY <1>2, <1>3, DeleteIs DEF RemoveContainer, NoLog, Ends, TypeOK
<1>5. files[r] = Files /\ key.netbird = "done" /\ (key.there => r \in key.given)
  BY <1>3 DEF Prepared, Keyed, Started, Inside
<1>6. container[r].code = "ok" /\ Saved(r, printed[r]) /\ HasExited(r)
  BY <1>3, <1>4 DEF Copied
<1>7. HasExited(r)' \/ State(r)' = "removed"
  BY <1>4, <1>6 DEF HasExited
<1> QED BY <1>4, <1>5, <1>6, <1>7 DEF Complete, Saved

\* The pod of a log that is read to its end prints nothing more.
LEMMA PlaybookCopied ==
  ASSUME TypeOK, NEW r \in Runs, NEW q \in Runs, Playbook(q), Copied(r)
  PROVE  Copied(r)'
<1>0. UNCHANGED <<backend, at, read, outputs>>
  BY PlaybookIs
<1>1. CASE q # r
  <2>1. container'[r] = container[r] /\ printed'[r] = printed[r]
    BY <1>1, PlaybookIs
  <2> QED BY <1>0, <2>1 DEF Copied, State, HasExited, Saved
<1>2. CASE q = r
  <2>1. PlaybookGoes(r)
    BY <1>2, PlaybookIs
  <2>2. at[r] = "log" /\ backend = "docker" => Saved(r, read[r])'
    BY <1>0 DEF Copied, Saved
  <2>3. at[r] \in {"save", "read"} => State(r)' \notin Exists
    BY <2>1 DEF Copied, PlaybookGoes, State, Exists
  <2>4. ASSUME at[r] \in {"status", "report", "remove"}
        PROVE  /\ State(r)' \in {"noticed", "removed"} /\ container'[r].code = container[r].code
               /\ State(r)' = "noticed" => Saved(r, printed[r])' /\ HasExited(r)'
    <3>1. /\ State(r) \in Exists => HasExited(r) /\ Saved(r, printed[r])
          /\ State(r) \in Exists
      BY <2>1, <2>4 DEF Copied, PlaybookGoes, Exists
    <3>2. /\ State(r)' \in {"noticed", "removed"} /\ container'[r].code = container[r].code
          /\ printed'[r] = printed[r]
      BY <2>1, <3>1 DEF PlaybookGoes, HasExited, State
    <3> QED BY <1>0, <3>1, <3>2 DEF Saved, HasExited
  <2>5. at[r] \in {"report", "remove"} => container'[r].code = "ok"
    BY <2>4 DEF Copied
  <2> QED BY <1>0, <2>2, <2>3, <2>4, <2>5 DEF Copied, Exists
<1> QED BY <1>1, <1>2

\* What keeps the five parts of the invariant when nothing of them changes.
LEMMA RanKept ==
  ASSUME Ran, BegunTyped', NEW now \in Runs, now = run, now = run',
         UNCHANGED <<backend, files, key, read, outputs>>,
         \A r \in Runs : at'[r] = at[r] \/ (r = run /\ at[r] = "queued" /\ at'[r] = "over"),
         Copied(now)',
         stage'.finished /\ ~stage'.failed => Complete(now)'
  PROVE  Ran'
<1>1. \A r \in Runs : at'[r] \in Early \union {"record", "pod"} => Unread(r)'
  BY DEF Ran, Early, Preparing, Files, Unread
<1>2. ASSUME NEW r \in Runs PROVE Prepared(r)'
  <2>1. Prepared(r) /\ (at'[r] = at[r] \/ at'[r] = "over")
    BY DEF Ran
  <2> QED BY <2>1 DEF Prepared, Started, Inside, Waiting
<1>3. Keyed(now)'
  <2>1. Keyed(now) /\ (at'[now] = at[now] \/ at'[now] = "over")
    BY DEF Ran
  <2> QED BY <2>1 DEF Keyed, Started, Inside, Waiting
<1> QED BY <1>1, <1>2, <1>3 DEF Ran

LEMMA JobRan ==
  ASSUME Ran, BegunTyped', NEW r \in Runs, Job(r)
  PROVE  Ran'
<1>0. /\ TypeOK /\ TypeOK' /\ Begun /\ run \in Runs /\ Moves(r) /\ OthersSame(r)
      /\ UNCHANGED <<backend, run, printed>>
      /\ key'.netbird = key.netbird /\ key'.there = key.there /\ key.given \subseteq key'.given
  BY JobMoves, JobFrame DEF Ran, BegunTyped, TypeOK
<1>1. PICK now \in Runs : now = run /\ now = run'
  BY <1>0
<1>2. ASSUME NEW q \in Runs PROVE at'[q] \in Early \union {"record", "pod"} => Unread(q)'
  <2>1. CASE q = r
    BY <1>0, <2>1, JobUnread DEF Ran
  <2>2. CASE q # r
    BY <1>0, <2>2 DEF Ran, OthersSame, Unread
  <2> QED BY <2>1, <2>2
<1>3. ASSUME NEW q \in Runs PROVE Prepared(q)'
  <2>1. CASE q = r
    BY <1>0, <2>1, JobPrepared DEF Ran
  <2>2. CASE q # r
    BY <1>0, <2>2 DEF Ran, OthersSame, Prepared
  <2> QED BY <2>1, <2>2
<1>4. CASE r = now
  <2>1. Keyed(now)' /\ Copied(now)'
    BY <1>0, <1>1, <1>4, JobKeyed, JobCopied DEF Ran
  <2>2. ~(stage.finished /\ ~stage.failed)
    <3>1. at[r] # "over"
      BY <1>0 DEF Moves, Begins, Starts, Records, GoesOn, GivesIn, Removes, Keeps, Misses, Dies,
         Early, Inside, Preparing, Waiting, Files
    <3> QED BY <1>1, <1>4, <3>1 DEF Ran, Complete
  <2>3. stage'.finished /\ ~stage'.failed => Complete(now)'
    BY <1>0, <1>1, <1>4, <2>2, JobCompletes DEF Ran
  <2> QED BY <1>1, <1>2, <1>3, <2>1, <2>3 DEF Ran
<1>5. CASE r # now
  <2>1. /\ at'[now] = at[now] /\ files'[now] = files[now] /\ container'[now] = container[now]
        /\ read'[now] = read[now] /\ outputs'[now] = outputs[now] /\ printed' = printed
    BY <1>0, <1>5 DEF OthersSame
  <2>2. Keyed(now)'
    BY <1>0, <1>1, <2>1 DEF Ran, Keyed
  <2>3. Copied(now)'
    BY <1>0, <1>1, <2>1 DEF Ran, Copied, Saved, State, HasExited
  <2>4. stage' = stage
    BY <1>0, <1>1, <1>5 DEF Moves, Begins, Starts, Records, GoesOn, GivesIn, Removes, Keeps, Misses,
       Dies, EndsAs, SameRow
  <2>5. Deleted(now) => Deleted(now)'
    BY <1>0, <1>1, <2>1, JobFrame DEF Deleted, State
  <2>6. Complete(now) => Complete(now)'
    BY <1>0, <2>1, <2>5 DEF Complete, Saved, State, HasExited
  <2>7. stage'.finished /\ ~stage'.failed => Complete(now)'
    BY <1>0, <1>1, <2>4, <2>6 DEF Ran
  <2> QED BY <1>1, <1>2, <1>3, <2>2, <2>3, <2>7 DEF Ran
<1> QED BY <1>4, <1>5

LEMMA RestartRan ==
  ASSUME Ran, BegunTyped', Restart
  PROVE  Ran'
<1>0. /\ TypeOK /\ Begun /\ run \in Runs /\ run' = run + 1 /\ run + 1 \in Runs
      /\ ~stage'.finished /\ files' = files /\ read' = read
      /\ at' = [at EXCEPT ![run + 1] = "queued"]
      /\ outputs' = [outputs EXCEPT ![run] = NoOutputs]
  BY RestartIs DEF Ran, BegunTyped, TypeOK
<1>1. PICK next \in Runs : next = run + 1 /\ next = run'
  BY <1>0
<1>2. at[next] = "idle" /\ at'[next] = "queued" /\ run # next
  BY <1>0, <1>1, RunsAre DEF Begun, TypeOK
<1>3. \A q \in Runs : q # next => at'[q] = at[q]
  BY <1>0, <1>1 DEF TypeOK
<1>4. ASSUME NEW q \in Runs PROVE at'[q] \in Early \union {"record", "pod"} => Unread(q)'
  <2>1. outputs'[q] = outputs[q] \/ outputs'[q] = NoOutputs
    BY <1>0 DEF TypeOK
  <2>2. at'[q] \in Early \union {"record", "pod"} => Unread(q)
    BY <1>2, <1>3 DEF Ran, Early
  <2> QED BY <1>0, <2>1, <2>2 DEF Unread
<1>5. ASSUME NEW q \in Runs PROVE Prepared(q)'
  BY <1>0, <1>2, <1>3 DEF Ran, Prepared, Started, Inside, Waiting
<1>6. Keyed(next)' /\ Copied(next)'
  BY <1>2 DEF Keyed, Copied, Started, Inside, Waiting
<1> QED BY <1>0, <1>1, <1>4, <1>5, <1>6 DEF Ran

LEMMA StepRan == Ran /\ [Next]_vars => Ran'
<1> SUFFICES ASSUME Ran, [Next]_vars PROVE Ran'
  OBVIOUS
<1>0. /\ TypeOK /\ run \in Runs /\ BegunTyped' /\ Copied(run)
      /\ stage.finished /\ ~stage.failed => Complete(run)
  BY StepBegun DEF Ran, BegunTyped, TypeOK
<1>1. ASSUME NEW r \in Runs, Job(r) PROVE Ran'
  BY <1>0, <1>1, JobRan
<1>2. PICK now \in Runs : now = run
  BY <1>0
<1>3. ASSUME NEW r \in Runs, Playbook(r) PROVE Ran'
  <2>1. /\ UNCHANGED <<backend, run, stage, files, key, read, outputs, at>>
        /\ PlaybookGoes(r)
        /\ \A q \in Runs : q # r => container'[q] = container[q] /\ printed'[q] = printed[q]
    BY <1>0, <1>3, PlaybookIs
  <2>2. Copied(now)'
    BY <1>0, <1>2, <1>3, PlaybookCopied
  <2>3. ASSUME Complete(now) PROVE Complete(now)'
    <3>1. Deleted(now)'
      BY <1>0, <1>2, <1>3, <2>3, PlaybookStates DEF Complete
    <3>2. /\ HasExited(now)' \/ State(now)' = "removed"
          /\ container'[now].code = container[now].code /\ printed'[now] = printed[now]
      BY <2>1, <2>3 DEF Complete, PlaybookGoes, HasExited, State
    <3> QED BY <2>1, <2>3, <3>1, <3>2 DEF Complete, Saved
  <2> QED BY <1>0, <1>2, <2>1, <2>2, <2>3, RanKept
<1>4. CASE Provision
  <2>1. /\ key.netbird = "queued" /\ key'.netbird = "done"
        /\ UNCHANGED <<run, backend, stage, at, files, container, printed, read, outputs>>
    BY <1>0, <1>4 DEF Provision, NoRequests, NoContainer, NoDeletion, NoLog, TypeOK
  <2>2. at[now] \in {"idle", "queued", "over"} /\ ~Complete(now)
    BY <1>2, <2>1 DEF Ran, Keyed, Complete
  <2>3. Keyed(now)'
    BY <2>1, <2>2 DEF Keyed, Started, Inside, Waiting
  <2>4. Copied(now)'
    BY <1>0, <1>2, <2>1 DEF Copied, Saved, State, HasExited
  <2>5. ASSUME NEW q \in Runs
        PROVE  Prepared(q)' /\ (at'[q] \in Early \union {"record", "pod"} => Unread(q)')
    BY <2>1 DEF Ran, Prepared, Unread
  <2> QED BY <1>0, <1>2, <2>1, <2>2, <2>3, <2>4, <2>5 DEF Ran
<1>5. CASE Cancel
  <2>1. /\ UNCHANGED <<backend, run, stage, files, key, read, outputs, container, printed>>
        /\ ~stage.finished
        /\ \/ at[run] = "queued" /\ at' = [at EXCEPT ![run] = "over"]
           \/ at' = at
    BY <1>0, <1>5, CancelIs
  <2>2. \A q \in Runs : at'[q] = at[q] \/ (q = run /\ at[q] = "queued" /\ at'[q] = "over")
    BY <1>0, <2>1 DEF TypeOK
  <2>3. Copied(now)'
    BY <1>0, <1>2, <2>1, <2>2 DEF Copied, Saved, State, HasExited
  <2> QED BY <1>0, <1>2, <2>1, <2>2, <2>3, RanKept
<1>6. CASE StopContainer
  <2>1. UNCHANGED <<backend, run, stage, files, key, read, outputs, at, printed>>
    BY <1>0, <1>6, StopIs
  <2>2. \A q \in Runs : /\ container'[q].code = container[q].code
                        /\ \/ State(q)' = State(q)
                           \/ State(q) \in Exists /\ State(q)' = "removed"
                        /\ Deleted(q) => Deleted(q)'
    <3>1. CASE DeleteContainer(web.of)
      <4>0. PICK of \in Runs : of = web.of /\ DeleteContainer(of)
        BY <1>0, <1>6, <3>1, StopIs
      <4>1. \A q \in Runs : container'[q].code = container[q].code
        <5>1. \A q \in Runs : q # of => container'[q] = container[q]
          BY <1>0, <4>0, DeleteIs, Zenon
        <5>2. container'[of].code = container[of].code
          BY <1>0, <4>0, DeleteIs, Zenon
        <5> QED BY <5>1, <5>2
      <4> QED BY <1>0, <1>6, <4>1, StopBegun
    <3>2. CASE UNCHANGED <<container, deleted>>
      BY <3>2 DEF State, Deleted
    <3> QED BY <1>0, <1>6, <3>1, <3>2, StopIs
  <2>3. Copied(now)'
    BY <1>0, <1>2, <2>1, <2>2 DEF Copied, Saved, HasExited, Exists
  <2>4. Complete(now) => Complete(now)'
    BY <2>1, <2>2 DEF Complete, Saved, HasExited
  <2> QED BY <1>0, <1>2, <2>1, <2>3, <2>4, RanKept
<1>7. CASE CloseStage
  <2>1. /\ UNCHANGED <<backend, run, files, key, read, outputs, at, container, deleted, printed>>
        /\ \/ stage' = [finished |-> TRUE, failed |-> TRUE]
           \/ stage' = stage
    BY <1>0, <1>7, CloseIs
  <2>2. Copied(now)' /\ (Complete(now) => Complete(now)')
    BY <1>0, <1>2, <2>1 DEF Copied, Complete, Saved, State, Deleted, HasExited
  <2>3. stage'.finished /\ ~stage'.failed => stage.finished /\ ~stage.failed
    BY <2>1
  <2> QED BY <1>0, <1>2, <2>1, <2>2, <2>3, RanKept
<1>8. CASE Restart
  BY <1>0, <1>8, RestartRan
<1>9. CASE UNCHANGED vars
  <2>1. UNCHANGED <<backend, run, stage, files, key, read, outputs, at, container, deleted, printed>>
    BY <1>9 DEF vars
  <2>2. Copied(now)' /\ (Complete(now) => Complete(now)')
    BY <1>0, <1>2, <2>1 DEF Copied, Complete, Saved, State, Deleted, HasExited
  <2> QED BY <1>0, <1>2, <2>1, <2>2, RanKept
<1> QED BY <1>1, <1>3, <1>4, <1>5, <1>6, <1>7, <1>8, <1>9 DEF Next, Job

\* A stage reported as done has run its playbook to a good end, with all the files and
\* the setup key if there is one, and its log is saved, each line once: with any faults,
\* cancellations at any time, and either container manager.
THEOREM DoneStagesRan == Spec => []DoneMeansRan
<1>1. Init => Ran
  <2> SUFFICES ASSUME Init PROVE Ran
    OBVIOUS
  <2>1. BegunTyped /\ run \in Runs
    BY InitBegun DEF BegunTyped, TypeOK
  <2>2. \A r \in Runs : at[r] \in {"idle", "queued"} /\ Unread(r)
    BY DEF Init, Unread
  <2>3. \A r \in Runs : Prepared(r) /\ Keyed(r) /\ Copied(r)
    BY <2>2 DEF Prepared, Keyed, Copied, Started, Inside, Waiting
  <2>4. ~stage.finished
    BY DEF Init, NewStage
  <2> QED BY <2>1, <2>2, <2>3, <2>4 DEF Ran
<1>2. Ran /\ [Next]_vars => Ran'
  BY StepRan
<1>3. Ran => DoneMeansRan
  BY DEF Ran, DoneMeansRan, Complete, Saved
<1> QED BY <1>1, <1>2, <1>3, PTL DEF Spec

=============================================================================
