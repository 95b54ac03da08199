------------------------ MODULE StackDirectoryProofs ------------------------
(***************************************************************************)
(* The stack of a unit, built, deleted and read through one directory, for *)
(* any resources, any number of readers, builds and cleanups.              *)
(*                                                                         *)
(* The argument: as long as nothing but builds has been asked for, the     *)
(* workspace of the stage exists only while it is selected; from then on   *)
(* nothing can be made, and whoever leaves the workspace or removes the    *)
(* directory has found the stack empty, which it then remains.             *)
(***************************************************************************)
EXTENDS StackDirectory, FiniteSetTheorems, TLAPS

-----------------------------------------------------------------------------
(* Types *)

Directories == [there : BOOLEAN, initialised : BOOLEAN, selected : Workspaces]
Results == {"none", "done", "build failed", "error"}
Processes == [command : {"none", "apply", "destroy"},
              state : {"none", "starting", "working", "exited"},
              in : Workspaces, ok : BOOLEAN, stopping : BOOLEAN]
Stages == [started : BOOLEAN, finished : BOOLEAN, failed : BOOLEAN, pid : Builds \union {0}]

\* The type invariant, but for the resources, which need a workspace that exists.
Typed ==
  /\ dir \in Directories
  /\ file \in SUBSET SUBSET Resources /\ (file = {} \/ \E s : file = {s})
  /\ ~dir.there => dir = NoDirectory /\ file = {}
  /\ workspaces \in SUBSET Workspaces /\ "default" \in workspaces
  /\ recorded \in [Workspaces -> SUBSET Resources]
  /\ lock \in [Workspaces -> Jobs \union {0}]
  /\ at \in [Actors -> Steps]
  /\ result \in [Actors -> Results]
  /\ tofu \in [Jobs -> Processes]
  /\ stage \in Stages
  /\ build \in Builds
  /\ cleanup \in Cleanups \union {0}
  /\ answer \in [Readers -> SUBSET SUBSET Resources]

LEMMA ActorsAre ==
  /\ 1 \in Builds /\ Builds \subseteq Nat \ {0} /\ Cleanups \subseteq Nat \ {0}
  /\ Builds \subseteq Jobs /\ Cleanups \subseteq Jobs /\ Jobs \subseteq Actors
  /\ Readers \subseteq Actors /\ 0 \notin Jobs
  /\ \A b \in Builds, c \in Cleanups : b < c
  /\ \A r \in Readers : r \notin Jobs /\ r \notin Builds /\ r \notin Cleanups
<1>1. /\ 1 \in Builds /\ Builds \subseteq Nat \ {0} /\ Cleanups \subseteq Nat \ {0}
      /\ \A b \in Builds, c \in Cleanups : b < c
      /\ Builds \subseteq 1..(MaxBuilds + MaxCleanups)
      /\ Cleanups \subseteq 1..(MaxBuilds + MaxCleanups)
  BY ConstantsAssumption DEF Builds, Cleanups
<1> QED BY <1>1, ConstantsAssumption DEF Jobs, Actors

\* A record of a process is built from one that has been changed in a field or two.
LEMMA ProcessesAre ==
  /\ NoProcess \in Processes
  /\ NoDirectory \in Directories
  /\ NewStage \in Stages
BY DEF NoProcess, Processes, NoDirectory, Directories, NewStage, Stages, Workspaces

LEMMA GoToTyped ==
  ASSUME Typed, NEW a \in Actors, NEW s \in Steps, GoTo(a, s)
  PROVE  /\ at' \in [Actors -> Steps] /\ result' \in [Actors -> Results] /\ stage' \in Stages
         /\ at'[a] = s /\ result' = result /\ stage' = stage
         /\ \A b \in Actors : b # a => at'[b] = at[b]
BY DEF GoTo, Typed

LEMMA EndsTyped ==
  ASSUME Typed, NEW a \in Actors, NEW how \in Results, Ends(a, how)
  PROVE  /\ at' \in [Actors -> Steps] /\ result' \in [Actors -> Results] /\ stage' \in Stages
         /\ at'[a] = "over" /\ result'[a] = how
         /\ a # build => stage' = stage
         /\ a = build => /\ stage'.finished /\ (stage'.failed <=> how # "done")
                         /\ stage'.pid = stage.pid
         /\ \A b \in Actors : b # a => at'[b] = at[b] /\ result'[b] = result[b]
<1>1. /\ at' \in [Actors -> Steps] /\ result' \in [Actors -> Results]
      /\ at'[a] = "over" /\ result'[a] = how
      /\ \A b \in Actors : b # a => at'[b] = at[b] /\ result'[b] = result[b]
  BY DEF Ends, Typed, Steps, Idle
<1>2. CASE a = build
  <2>1. PICK failed \in BOOLEAN :
          /\ failed <=> how # "done"
          /\ stage' = [stage EXCEPT !.finished = TRUE, !.failed = failed]
    BY <1>2 DEF Ends
  <2> QED BY <1>1, <1>2, <2>1 DEF Typed, Stages
<1>3. CASE a # build
  BY <1>1, <1>3 DEF Ends, Typed
<1> QED BY <1>2, <1>3

-----------------------------------------------------------------------------
(* What a step of an actor does *)

To(a, s) == at'[a] = s /\ result'[a] = result[a] /\ stage' = stage

Over(a, how) ==
  /\ at'[a] = "over" /\ result'[a] = how
  /\ a # build => stage' = stage
  /\ a = build => stage'.finished /\ (stage'.failed <=> how # "done") /\ stage'.pid = stage.pid

SameFiles == UNCHANGED <<dir, file, workspaces, tofu>>
Selected(w) == dir'.there = dir.there /\ dir'.initialised = dir.initialised /\ dir'.selected = w

Alone(a) ==
  /\ \A b \in Actors : b # a => at'[b] = at[b] /\ result'[b] = result[b]
  /\ UNCHANGED <<recorded, lock, build, cleanup>>

Errs(a) ==
  /\ Over(a, "error") /\ SameFiles
  /\ \/ ~dir.there /\ at[a] \in Steps \ {"idle", "over", "queued", "save", "applying", "destroying"}
     \/ at[a] = "queued"
     \/ at[a] = "save" /\ a # build
     \/ a \in Jobs /\ at[a] \in Steps \ {"idle", "over", "queued"} /\ tofu[a].state # "starting"
     \/ at[a] \in ReadSteps /\ a \notin Builds
Makes(a) ==
  /\ \/ at[a] = "files" /\ To(a, "init")
     \/ at[a] = "delete" /\ To(a, "init deletion")
  /\ dir'.there /\ dir'.initialised = dir.initialised /\ dir'.selected = dir.selected
  /\ UNCHANGED <<file, workspaces, tofu>>
Inits(a) ==
  /\ \/ at[a] = "init deletion" /\ To(a, "select deletion")
     \/ at[a] = "init" /\ a \in Builds /\ To(a, "new")
     \/ at[a] = "init" /\ a \notin Builds /\ To(a, "select")
  /\ dir.there /\ dir'.there /\ dir'.initialised /\ dir'.selected = dir.selected
  /\ UNCHANGED <<file, workspaces, tofu>>

Begins(j) ==
  /\ j \in Builds /\ at[j] = "queued" /\ at'[j] = "files" /\ result'[j] = result[j]
  /\ stage'.finished = stage.finished /\ stage'.failed = stage.failed /\ stage'.pid = stage.pid
  /\ SameFiles
Turns(j) ==
  /\ \/ at[j] = "queued" /\ j \in Cleanups
     \/ at[j] = "init" /\ j \in Builds
     \/ at[j] = "new" /\ "stack" \notin workspaces
     \/ at[j] = "applying" /\ tofu[j].state = "exited" /\ ~tofu[j].ok
  /\ To(j, "delete") /\ SameFiles
Creates(j) ==
  /\ at[j] = "new" /\ dir.there /\ workspaces' = workspaces \union {"stack"}
  /\ UNCHANGED <<file, tofu>>
  /\ \/ To(j, "apply") /\ Selected("stack")
     \/ "workspace" \in Faults /\ UNCHANGED <<at, result, stage, dir>>
Finds(j) == at[j] = "new" /\ dir.there /\ "stack" \in workspaces /\ To(j, "apply") /\ SameFiles
Launches(j) ==
  /\ \/ at[j] = "apply" /\ To(j, "save") /\ tofu'[j].command = "apply"
     \/ at[j] = "destroy" /\ To(j, "destroying") /\ tofu'[j].command = "destroy"
  /\ tofu'[j].state = "starting" /\ ~tofu'[j].ok /\ ~tofu'[j].stopping
  /\ \A i \in Jobs : i # j => tofu'[i] = tofu[i]
  /\ UNCHANGED <<dir, file, workspaces>>
Saves(j) ==
  /\ at[j] = "save" /\ j = build /\ at'[j] = "applying" /\ result'[j] = result[j]
  /\ stage'.finished = stage.finished /\ stage'.failed = stage.failed /\ stage'.pid = j
  /\ SameFiles
Succeeds(j) ==
  at[j] = "applying" /\ tofu[j].state = "exited" /\ tofu[j].ok /\ Over(j, "done") /\ SameFiles

Selects(j) ==
  /\ at[j] = "select deletion" /\ dir.initialised /\ "stack" \in workspaces
  /\ To(j, "destroy") /\ Selected("stack") /\ UNCHANGED <<file, workspaces, tofu>>
Skips(j) ==
  /\ \/ at[j] = "select deletion" /\ (~dir.initialised \/ "stack" \notin workspaces)
     \/ at[j] \in {"init deletion", "select deletion"} /\ "init" \in Faults
  /\ To(j, "leave") /\ SameFiles
Destroyed(j) ==
  at[j] = "destroying" /\ tofu[j].state = "exited" /\ tofu[j].ok /\ To(j, "leave") /\ SameFiles
Leaves(j) ==
  /\ at[j] = "leave" /\ dir.initialised
  /\ To(j, "delete workspace") /\ Selected("default") /\ UNCHANGED <<file, workspaces, tofu>>
NotLeft(j) == at[j] = "leave" /\ ~dir.initialised /\ To(j, "remove") /\ SameFiles
Drops(j) ==
  /\ at[j] = "delete workspace" /\ Deletable /\ workspaces' = workspaces \ {"stack"}
  /\ To(j, "remove") /\ UNCHANGED <<dir, file, tofu>>
NotDropped(j) ==
  at[j] = "delete workspace" /\ (~Deletable \/ "workspace" \in Faults) /\ To(j, "remove") /\ SameFiles
Removes(j) ==
  /\ at[j] = "remove" /\ dir' = NoDirectory /\ file' = {} /\ UNCHANGED <<workspaces, tofu>>
  /\ \/ dir.there /\ j \in Builds /\ Over(j, "build failed")
     \/ dir.there /\ j \notin Builds /\ Over(j, "done")
     \/ ~dir.there /\ Over(j, "error")

JobMoves(j) ==
  \/ Errs(j) \/ Makes(j) \/ Inits(j) \/ Begins(j) \/ Turns(j) \/ Creates(j) \/ Finds(j)
  \/ Launches(j) \/ Saves(j) \/ Succeeds(j) \/ Selects(j) \/ Skips(j) \/ Destroyed(j)
  \/ Leaves(j) \/ NotLeft(j) \/ Drops(j) \/ NotDropped(j) \/ Removes(j)

Asks(r) == /\ at[r] = "idle" /\ stage.finished /\ ~stage.failed /\ cleanup = 0
           /\ To(r, "files") /\ SameFiles
Looks(r) == /\ at[r] = "select" /\ dir.initialised /\ To(r, "pull")
            /\ Selected("stack") /\ UNCHANGED <<file, workspaces, tofu>>
Truncates(r) == /\ at[r] = "pull" /\ file' = {} /\ To(r, "write")
                /\ UNCHANGED <<dir, workspaces, tofu>>
Pulls(r) == /\ at[r] = "write" /\ file' = {recorded[dir.selected]} /\ To(r, "read")
            /\ UNCHANGED <<dir, workspaces, tofu>>
Answers(r) == /\ at[r] = "read" /\ answer'[r] = file
              /\ Over(r, "error") \/ Over(r, "done")
              /\ SameFiles

ReaderMoves(r) ==
  \/ Asks(r) \/ Makes(r) \/ Inits(r) \/ Looks(r) \/ Truncates(r) \/ Pulls(r) \/ Answers(r)
  \/ Errs(r)

\* A step that leaves everything alone but the place of an actor and the row.
LEMMA SamesTyped ==
  ASSUME Typed, SameFiles, UNCHANGED <<recorded, lock, build, cleanup, answer>>,
         at' \in [Actors -> Steps], result' \in [Actors -> Results], stage' \in Stages
  PROVE  Typed'
BY DEF Typed, SameFiles

\* A step that changes the directory as well.
LEMMA DirTyped ==
  ASSUME Typed, UNCHANGED <<tofu, recorded, lock, build, cleanup, answer>>,
         at' \in [Actors -> Steps], result' \in [Actors -> Results], stage' \in Stages,
         dir' \in Directories, workspaces' \in SUBSET Workspaces, "default" \in workspaces',
         file' = file, dir'.there
  PROVE  Typed'
BY DEF Typed

LEMMA SelectIs ==
  ASSUME Typed, NEW w \in Workspaces, SelectWorkspace(w)
  PROVE  /\ dir' \in Directories /\ Selected(w) /\ dir.initialised /\ w \in workspaces /\ dir'.there
<1>1. dir.initialised /\ w \in workspaces /\ dir' = [dir EXCEPT !.selected = w] /\ dir \in Directories
  BY DEF SelectWorkspace, Typed
<1>2. dir' \in Directories /\ Selected(w)
  BY <1>1 DEF Selected, Directories
<1>3. dir.there
  <2>1. NoDirectory.initialised = FALSE
    BY DEF NoDirectory
  <2> QED BY <1>1, <2>1 DEF Typed
<1> QED BY <1>1, <1>2, <1>3 DEF Selected

LEMMA CannotStartIs ==
  ASSUME Typed, NEW a \in Actors, CannotStart(a), UNCHANGED <<file, tofu>>,
         at[a] \in Steps \ {"idle", "over", "queued", "save", "applying", "destroying"}
  PROVE  /\ at' \in [Actors -> Steps] /\ result' \in [Actors -> Results] /\ stage' \in Stages
         /\ Errs(a) /\ \A b \in Actors : b # a => at'[b] = at[b] /\ result'[b] = result[b]
<1>1. Ends(a, "error") /\ ~dir.there /\ SameFiles
  BY DEF CannotStart, SameFiles
<1>2. "error" \in Results
  BY DEF Results
<1>3. Over(a, "error")
  BY <1>1, <1>2, EndsTyped DEF Over
<1> QED BY <1>1, <1>2, <1>3, EndsTyped DEF Errs

LEMMA CreateFilesIs ==
  ASSUME Typed, NEW a \in Actors, CreateFiles(a)
  PROVE  Typed' /\ Makes(a) /\ Alone(a) /\ UNCHANGED answer
<1>1. /\ dir' \in Directories /\ dir'.there
      /\ dir'.initialised = dir.initialised /\ dir'.selected = dir.selected
      /\ UNCHANGED <<file, workspaces, tofu, recorded, lock, build, cleanup, answer>>
  BY DEF CreateFiles, Typed, Directories, NoState, NoProcesses, NoRequests
<1>2. PICK s \in {"init", "init deletion"} :
        GoTo(a, s) /\ \/ (at[a] = "files" /\ s = "init")
                      \/ (at[a] = "delete" /\ s = "init deletion")
  BY DEF CreateFiles
<1>3. s \in Steps
  BY DEF Steps, BuildSteps, DeletionSteps
<1>4. Typed'
  BY <1>1, <1>2, <1>3, GoToTyped, DirTyped DEF Typed
<1> QED BY <1>1, <1>2, <1>3, <1>4, GoToTyped DEF Makes, To, Alone

LEMMA InitTerraformIs ==
  ASSUME Typed, NEW a \in Actors, InitTerraform(a)
  PROVE  /\ Typed' /\ Alone(a) /\ UNCHANGED answer
         /\ Inits(a) \/ Errs(a) \/ Turns(a) \/ Skips(a)
         /\ a \in Builds \/ Inits(a) \/ Errs(a) \/ at[a] = "init deletion"
<1>0. /\ UNCHANGED <<file, workspaces, tofu, recorded, lock, build, cleanup, answer>>
      /\ at[a] \in {"init", "init deletion"}
  BY DEF InitTerraform, NoState, NoProcesses, NoRequests
<1>1. CASE dir.there /\ dir' = [dir EXCEPT !.initialised = TRUE]
           /\ GoTo(a, CASE at[a] = "init deletion" -> "select deletion"
                        [] at[a] = "init" /\ a \in Builds -> "new"
                        [] at[a] = "init" /\ a \notin Builds -> "select")
  <2>1. dir' \in Directories /\ dir'.there /\ dir'.initialised /\ dir'.selected = dir.selected
    BY <1>1 DEF Typed, Directories
  <2>2. PICK s \in {"select deletion", "new", "select"} :
          /\ GoTo(a, s)
          /\ \/ at[a] = "init deletion" /\ s = "select deletion"
             \/ at[a] = "init" /\ a \in Builds /\ s = "new"
             \/ at[a] = "init" /\ a \notin Builds /\ s = "select"
    <3>1. CASE at[a] = "init deletion"
      <4>1. GoTo(a, "select deletion")
        BY <1>1, <3>1
      <4> QED BY <3>1, <4>1
    <3>2. CASE at[a] = "init" /\ a \in Builds
      <4>1. GoTo(a, "new")
        BY <1>1, <3>2
      <4> QED BY <3>2, <4>1
    <3>3. CASE at[a] = "init" /\ a \notin Builds
      <4>1. GoTo(a, "select")
        BY <1>1, <3>3
      <4> QED BY <3>3, <4>1
    <3> QED BY <1>0, <3>1, <3>2, <3>3
  <2>3. s \in Steps
    BY DEF Steps, BuildSteps, DeletionSteps, ReadSteps
  <2>4. Typed'
    BY <1>0, <2>1, <2>2, <2>3, GoToTyped, DirTyped DEF Typed
  <2> QED BY <1>0, <1>1, <2>1, <2>2, <2>3, <2>4, GoToTyped DEF Inits, To, Alone
<1>2. CASE at[a] = "init" /\ a \in Builds /\ GoTo(a, "delete") /\ UNCHANGED dir
  <2>1. "delete" \in Steps
    BY DEF Steps, DeletionSteps
  <2>2. Typed'
    BY <1>0, <1>2, <2>1, GoToTyped, SamesTyped DEF SameFiles
  <2> QED BY <1>0, <1>2, <2>1, <2>2, GoToTyped DEF Turns, To, Alone, SameFiles
<1>3. CASE at[a] = "init" /\ a \notin Builds /\ Ends(a, "error") /\ UNCHANGED dir
  <2>1. "error" \in Results /\ "init" \in ReadSteps
    BY DEF Results, ReadSteps
  <2>2. Typed'
    BY <1>0, <1>3, <2>1, EndsTyped, SamesTyped DEF SameFiles
  <2> QED BY <1>0, <1>3, <2>1, <2>2, EndsTyped DEF Errs, Over, Alone, SameFiles
<1>4. CASE at[a] = "init deletion" /\ "init" \in Faults /\ GoTo(a, "leave") /\ UNCHANGED dir
  <2>1. "leave" \in Steps
    BY DEF Steps, DeletionSteps
  <2>2. Typed'
    BY <1>0, <1>4, <2>1, GoToTyped, SamesTyped DEF SameFiles
  <2> QED BY <1>0, <1>4, <2>1, <2>2, GoToTyped DEF Skips, To, Alone, SameFiles
<1>5. CASE CannotStart(a)
  <2>1. at[a] \in Steps \ {"idle", "over", "queued", "save", "applying", "destroying"} /\ SameFiles
    BY <1>0, <1>5 DEF Steps, BuildSteps, DeletionSteps, CannotStart, SameFiles
  <2> QED BY <1>0, <1>5, <2>1, CannotStartIs, SamesTyped DEF Alone
<1> QED BY <1>0, <1>1, <1>2, <1>3, <1>4, <1>5 DEF InitTerraform

\* A step to another place, with the files as they are.
LEMMA TurnIs ==
  ASSUME Typed, NEW a \in Actors, NEW s \in Steps, GoTo(a, s), SameFiles,
         UNCHANGED <<recorded, lock, build, cleanup, answer>>
  PROVE  Typed' /\ To(a, s) /\ Alone(a)
BY GoToTyped, SamesTyped DEF To, Alone

\* The end of an actor, with the files as they are.
LEMMA EndIs ==
  ASSUME Typed, NEW a \in Actors, NEW how \in Results, Ends(a, how), SameFiles,
         UNCHANGED <<recorded, lock, build, cleanup, answer>>
  PROVE  Typed' /\ Over(a, how) /\ Alone(a)
BY EndsTyped, SamesTyped DEF Over, Alone

\* A step to another place that changes the directory.
LEMMA MoveIs ==
  ASSUME Typed, NEW a \in Actors, NEW s \in Steps, GoTo(a, s), dir' \in Directories, dir'.there,
         workspaces' \in SUBSET Workspaces, "default" \in workspaces',
         UNCHANGED <<file, tofu, recorded, lock, build, cleanup, answer>>
  PROVE  Typed' /\ To(a, s) /\ Alone(a)
BY GoToTyped, DirTyped DEF To, Alone

\* An actor that finds no directory.
LEMMA NoDirectoryIs ==
  ASSUME Typed, NEW a \in Actors, CannotStart(a),
         UNCHANGED <<file, tofu, recorded, lock, build, cleanup, answer>>,
         at[a] \in Steps \ {"idle", "over", "queued", "save", "applying", "destroying"}
  PROVE  Typed' /\ Errs(a) /\ Alone(a)
<1>1. SameFiles
  BY DEF CannotStart, SameFiles
<1> QED BY <1>1, CannotStartIs, SamesTyped DEF Alone

Stays == UNCHANGED <<recorded, lock, build, cleanup, answer>>

LEMMA StaysIs ==
  NoState /\ NoRequests => Stays
BY DEF NoState, NoRequests, Stays

LEMMA BuildIs ==
  ASSUME Typed, NEW j \in Jobs,
         StartBuild(j) \/ CreateWorkspace(j) \/ SaveProcess(j) \/ ApplyEnds(j)
  PROVE  Typed' /\ Alone(j) /\ JobMoves(j) /\ UNCHANGED answer
<1> USE ActorsAre
<1>0. /\ j \in Actors /\ Stays /\ file' = file /\ tofu' = tofu
      /\ {"files", "apply", "delete", "applying"} \subseteq Steps
      /\ {"error", "done"} \subseteq Results
  BY StaysIs DEF StartBuild, CreateWorkspace, SaveProcess, ApplyEnds, NoFiles, NoProcesses,
     Steps, BuildSteps, DeletionSteps, Results
<1>1. CASE StartBuild(j)
  <2>0. SameFiles /\ j \in Builds /\ at[j] = "queued"
    BY <1>0, <1>1 DEF StartBuild, NoFiles, SameFiles
  <2>1. CASE /\ at' = [at EXCEPT ![j] = "files"]
             /\ stage' = [stage EXCEPT !.started = TRUE]
             /\ UNCHANGED result
    <3>1. /\ stage' \in Stages /\ stage'.finished = stage.finished
          /\ stage'.failed = stage.failed /\ stage'.pid = stage.pid
      BY <2>1 DEF Typed, Stages
    <3>2. at' \in [Actors -> Steps] /\ result' \in [Actors -> Results] /\ at'[j] = "files"
          /\ \A b \in Actors : b # j => at'[b] = at[b]
      BY <1>0, <2>1 DEF Typed
    <3>3. Typed'
      BY <1>0, <2>0, <3>1, <3>2, SamesTyped DEF Stays
    <3> QED BY <1>0, <2>0, <2>1, <3>1, <3>2, <3>3 DEF Begins, JobMoves, Alone, Stays
  <2>2. CASE Ends(j, "error")
    BY <1>0, <2>0, <2>2, EndIs DEF Stays, Errs, JobMoves
  <2> QED BY <1>1, <2>1, <2>2 DEF StartBuild
<1>2. CASE CreateWorkspace(j)
  <2>0. at[j] = "new"
    BY <1>2 DEF CreateWorkspace
  <2>1. CASE CannotStart(j)
    <3>1. at[j] \in Steps \ {"idle", "over", "queued", "save", "applying", "destroying"}
      BY <2>0 DEF Steps, BuildSteps
    <3> QED BY <1>0, <2>1, <3>1, NoDirectoryIs DEF Stays, JobMoves
  <2>2. CASE /\ dir.there /\ "stack" \notin workspaces /\ workspaces' = workspaces \union {"stack"}
             /\ dir' = [dir EXCEPT !.selected = "stack"] /\ GoTo(j, "apply")
    <3>1. /\ dir' \in Directories /\ dir'.there /\ Selected("stack")
          /\ workspaces' \in SUBSET Workspaces /\ "default" \in workspaces'
      BY <2>2 DEF Typed, Directories, Selected, Workspaces
    <3> QED BY <1>0, <2>0, <2>2, <3>1, MoveIs DEF Stays, Creates, JobMoves
  <2>3. CASE dir.there /\ "stack" \in workspaces /\ GoTo(j, "apply") /\ UNCHANGED <<dir, workspaces>>
    BY <1>0, <2>0, <2>3, TurnIs DEF Stays, SameFiles, Finds, JobMoves
  <2>4. CASE dir.there /\ "stack" \notin workspaces /\ GoTo(j, "delete") /\ UNCHANGED <<dir, workspaces>>
    BY <1>0, <2>0, <2>4, TurnIs DEF Stays, SameFiles, Turns, JobMoves
  <2>5. CASE /\ dir.there /\ "workspace" \in Faults /\ workspaces' = workspaces \union {"stack"}
             /\ UNCHANGED <<dir, at, result, stage>>
    <3>1. workspaces' \in SUBSET Workspaces /\ "default" \in workspaces'
      BY <2>5 DEF Typed, Workspaces
    <3>2. Typed'
      BY <1>0, <2>5, <3>1, DirTyped DEF Stays, Typed
    <3> QED BY <1>0, <2>0, <2>5, <3>2 DEF Stays, Creates, JobMoves, Alone
  <2> QED BY <1>2, <2>1, <2>2, <2>3, <2>4, <2>5 DEF CreateWorkspace
<1>3. CASE SaveProcess(j)
  <2>0. SameFiles /\ at[j] = "save"
    BY <1>3 DEF SaveProcess, NoFiles, NoProcesses, SameFiles
  <2>1. CASE j = build
    <3>0. at' = [at EXCEPT ![j] = "applying"] /\ stage' = [stage EXCEPT !.pid = j] /\ UNCHANGED result
      BY <1>3, <2>1 DEF SaveProcess
    <3>1. /\ stage' \in Stages /\ stage'.finished = stage.finished
          /\ stage'.failed = stage.failed /\ stage'.pid = j
      BY <2>1, <3>0 DEF Typed, Stages
    <3>2. at' \in [Actors -> Steps] /\ result' \in [Actors -> Results] /\ at'[j] = "applying"
          /\ \A b \in Actors : b # j => at'[b] = at[b]
      BY <1>0, <3>0 DEF Typed
    <3>3. Typed'
      BY <1>0, <2>0, <3>1, <3>2, SamesTyped DEF Stays
    <3> QED BY <1>0, <2>0, <2>1, <3>0, <3>1, <3>2, <3>3 DEF Saves, JobMoves, Alone, Stays
  <2>2. CASE j # build
    <3>1. Ends(j, "error")
      BY <1>3, <2>2 DEF SaveProcess
    <3> QED BY <1>0, <2>0, <2>2, <3>1, EndIs DEF Stays, Errs, JobMoves
  <2> QED BY <2>1, <2>2
<1>4. CASE ApplyEnds(j)
  <2>0. SameFiles /\ at[j] = "applying" /\ tofu[j].state = "exited"
    BY <1>4 DEF ApplyEnds, NoFiles, NoProcesses, SameFiles, HasEnded
  <2>1. CASE tofu[j].ok
    <3>1. Ends(j, "done")
      BY <1>4, <2>1 DEF ApplyEnds
    <3> QED BY <1>0, <2>0, <2>1, <3>1, EndIs DEF Stays, Succeeds, JobMoves
  <2>2. CASE ~tofu[j].ok
    <3>1. GoTo(j, "delete")
      BY <1>4, <2>2 DEF ApplyEnds
    <3> QED BY <1>0, <2>0, <2>2, <3>1, TurnIs DEF Stays, Turns, JobMoves
  <2> QED BY <2>1, <2>2
<1> QED BY <1>1, <1>2, <1>3, <1>4

LEMMA LaunchIs ==
  ASSUME Typed, NEW j \in Jobs, StartApply(j) \/ StartDestroy(j)
  PROVE  Typed' /\ Alone(j) /\ JobMoves(j) /\ UNCHANGED answer
<1> USE ActorsAre
<1>1. PICK from \in {"apply", "destroy"}, command \in {"apply", "destroy"}, to \in {"save", "destroying"} :
        /\ StartTerraform(j, from, command, to)
        /\ \/ from = "apply" /\ command = "apply" /\ to = "save"
           \/ from = "destroy" /\ command = "destroy" /\ to = "destroying"
  BY DEF StartApply, StartDestroy
<1>2. /\ j \in Actors /\ Stays /\ UNCHANGED <<dir, file, workspaces>> /\ at[j] = from /\ to \in Steps
  BY <1>1, StaysIs DEF StartTerraform, NoFiles, Steps, BuildSteps, DeletionSteps
<1>3. CASE CannotStart(j) /\ NoProcesses
  <2>1. at[j] \in Steps \ {"idle", "over", "queued", "save", "applying", "destroying"}
    BY <1>2 DEF Steps, BuildSteps, DeletionSteps
  <2> QED BY <1>2, <1>3, <2>1, NoDirectoryIs DEF Stays, JobMoves, NoProcesses
<1>4. CASE /\ dir.there /\ GoTo(j, to)
           /\ tofu' = [tofu EXCEPT ![j] = [NoProcess EXCEPT !.command = command, !.state = "starting"]]
  <2>1. PICK p : /\ p = [NoProcess EXCEPT !.command = command, !.state = "starting"]
                 /\ tofu' = [tofu EXCEPT ![j] = p]
    BY <1>4
  <2>2. p \in Processes /\ p.command = command /\ p.state = "starting" /\ ~p.ok /\ ~p.stopping
    BY <2>1, ProcessesAre DEF Processes, NoProcess
  <2>3. /\ tofu' \in [Jobs -> Processes] /\ tofu'[j] = p
        /\ \A i \in Jobs : i # j => tofu'[i] = tofu[i]
    BY <2>1, <2>2 DEF Typed
  <2>4. Typed'
    BY <1>2, <1>4, <2>3, GoToTyped DEF Stays, Typed
  <2>5. To(j, to) /\ Alone(j)
    BY <1>2, <1>4, GoToTyped DEF To, Stays, Alone
  <2>6. tofu'[j].command = command /\ tofu'[j].state = "starting" /\ ~tofu'[j].ok /\ ~tofu'[j].stopping
    BY <2>2, <2>3
  <2>7. Launches(j)
    <3>1. CASE from = "apply" /\ command = "apply" /\ to = "save"
      BY <1>2, <2>3, <2>5, <2>6, <3>1 DEF Launches
    <3>2. CASE from = "destroy" /\ command = "destroy" /\ to = "destroying"
      BY <1>2, <2>3, <2>5, <2>6, <3>2 DEF Launches
    <3> QED BY <1>1, <3>1, <3>2
  <2> QED BY <1>2, <2>4, <2>5, <2>7 DEF Stays, JobMoves
<1> QED BY <1>1, <1>3, <1>4 DEF StartTerraform


LEMMA DeletionIs ==
  ASSUME Typed, NEW j \in Jobs,
         \/ StartCleanup(j) \/ SelectForDeletion(j) \/ DestroyEnds(j) \/ LeaveWorkspace(j)
         \/ DeleteWorkspace(j) \/ Timeout(j)
  PROVE  Typed' /\ Alone(j) /\ JobMoves(j) /\ UNCHANGED answer
<1> USE ActorsAre
<1>0. /\ j \in Actors /\ Stays /\ file' = file /\ tofu' = tofu
      /\ {"delete", "destroy", "leave", "delete workspace", "remove"} \subseteq Steps
      /\ "error" \in Results
      /\ {"stack", "default"} \subseteq Workspaces
      /\ {"select deletion", "leave", "delete workspace", "remove"}
           \subseteq Steps \ {"idle", "over", "queued", "save", "applying", "destroying"}
  BY StaysIs DEF StartCleanup, SelectForDeletion, DestroyEnds, LeaveWorkspace, DeleteWorkspace,
     Timeout, NoFiles, NoProcesses, Steps, DeletionSteps, Results, Workspaces
<1>1. CASE StartCleanup(j)
  <2>1. SameFiles /\ j \in Cleanups /\ at[j] = "queued" /\ GoTo(j, "delete")
    BY <1>0, <1>1 DEF StartCleanup, NoFiles, SameFiles
  <2> QED BY <1>0, <2>1, TurnIs DEF Stays, Turns, JobMoves
<1>2. CASE SelectForDeletion(j)
  <2>0. at[j] = "select deletion" /\ workspaces' = workspaces
    BY <1>2 DEF SelectForDeletion
  <2>1. CASE dir.there /\ SelectWorkspace("stack") /\ GoTo(j, "destroy")
    <3>1. /\ dir' \in Directories /\ Selected("stack") /\ dir.initialised /\ "stack" \in workspaces
          /\ dir'.there /\ workspaces' \in SUBSET Workspaces /\ "default" \in workspaces'
      BY <1>0, <2>0, <2>1, SelectIs DEF Typed
    <3> QED BY <1>0, <2>0, <2>1, <3>1, MoveIs DEF Stays, Selects, JobMoves
  <2>2. CASE /\ dir.there
             /\ ~dir.initialised \/ "stack" \notin workspaces \/ "init" \in Faults
             /\ GoTo(j, "leave") /\ UNCHANGED dir
    BY <1>0, <2>0, <2>2, TurnIs DEF Stays, SameFiles, Skips, JobMoves
  <2>3. CASE CannotStart(j)
    BY <1>0, <2>0, <2>3, NoDirectoryIs DEF Stays, JobMoves
  <2> QED BY <1>2, <2>1, <2>2, <2>3 DEF SelectForDeletion
<1>3. CASE DestroyEnds(j)
  <2>0. SameFiles /\ at[j] = "destroying" /\ tofu[j].state = "exited"
    BY <1>0, <1>3 DEF DestroyEnds, NoFiles, SameFiles, HasEnded
  <2>1. CASE tofu[j].ok
    <3>1. GoTo(j, "leave")
      BY <1>3, <2>1 DEF DestroyEnds
    <3> QED BY <1>0, <2>0, <2>1, <3>1, TurnIs DEF Stays, Destroyed, JobMoves
  <2>2. CASE ~tofu[j].ok
    <3>1. Ends(j, "error")
      BY <1>3, <2>2 DEF DestroyEnds
    <3>2. at[j] \in Steps \ {"idle", "over", "queued"} /\ tofu[j].state # "starting"
      BY <1>0, <2>0 DEF Typed
    <3> QED BY <1>0, <2>0, <3>1, <3>2, EndIs DEF Stays, Errs, JobMoves
  <2> QED BY <2>1, <2>2
<1>4. CASE LeaveWorkspace(j)
  <2>0. at[j] = "leave" /\ workspaces' = workspaces
    BY <1>4 DEF LeaveWorkspace
  <2>1. CASE dir.there /\ SelectWorkspace("default") /\ GoTo(j, "delete workspace")
    <3>1. /\ dir' \in Directories /\ Selected("default") /\ dir.initialised
          /\ dir'.there /\ workspaces' \in SUBSET Workspaces /\ "default" \in workspaces'
      BY <1>0, <2>0, <2>1, SelectIs DEF Typed
    <3> QED BY <1>0, <2>0, <2>1, <3>1, MoveIs DEF Stays, Leaves, JobMoves
  <2>2. CASE dir.there /\ ~dir.initialised /\ GoTo(j, "remove") /\ UNCHANGED dir
    BY <1>0, <2>0, <2>2, TurnIs DEF Stays, SameFiles, NotLeft, JobMoves
  <2>3. CASE CannotStart(j)
    BY <1>0, <2>0, <2>3, NoDirectoryIs DEF Stays, JobMoves
  <2> QED BY <1>4, <2>1, <2>2, <2>3 DEF LeaveWorkspace
<1>5. CASE DeleteWorkspace(j)
  <2>0. at[j] = "delete workspace" /\ dir' = dir
    BY <1>5, <1>0 DEF DeleteWorkspace, CannotStart
  <2>1. CASE dir.there /\ Deletable /\ workspaces' = workspaces \ {"stack"} /\ GoTo(j, "remove")
    <3>1. /\ dir' \in Directories /\ dir'.there
          /\ workspaces' \in SUBSET Workspaces /\ "default" \in workspaces'
      BY <2>0, <2>1 DEF Typed
    <3> QED BY <1>0, <2>0, <2>1, <3>1, MoveIs DEF Stays, Drops, JobMoves
  <2>2. CASE /\ dir.there /\ (~Deletable \/ "workspace" \in Faults)
             /\ GoTo(j, "remove") /\ UNCHANGED workspaces
    BY <1>0, <2>0, <2>2, TurnIs DEF Stays, SameFiles, NotDropped, JobMoves
  <2>3. CASE CannotStart(j)
    BY <1>0, <2>0, <2>3, NoDirectoryIs DEF Stays, JobMoves
  <2> QED BY <1>5, <2>1, <2>2, <2>3 DEF DeleteWorkspace
<1>6. CASE Timeout(j)
  <2>1. /\ SameFiles /\ Ends(j, "error")
        /\ at[j] \in Steps \ {"idle", "over", "queued"} /\ tofu[j].state # "starting"
    BY <1>0, <1>6 DEF Timeout, NoFiles, SameFiles, Idle, Typed
  <2> QED BY <1>0, <2>1, EndIs DEF Stays, Errs, JobMoves
<1> QED BY <1>1, <1>2, <1>3, <1>4, <1>5, <1>6

LEMMA RemoveIs ==
  ASSUME Typed, NEW j \in Jobs, RemoveDirectory(j)
  PROVE  Typed' /\ Alone(j) /\ JobMoves(j) /\ UNCHANGED answer
<1> USE ActorsAre
<1>1. /\ j \in Actors /\ Stays /\ at[j] = "remove" /\ dir' = NoDirectory /\ file' = {}
      /\ UNCHANGED <<workspaces, tofu>>
  BY StaysIs DEF RemoveDirectory, NoProcesses
<1>2. PICK how \in Results :
        /\ Ends(j, how)
        /\ \/ dir.there /\ j \in Builds /\ how = "build failed"
           \/ dir.there /\ j \notin Builds /\ how = "done"
           \/ ~dir.there /\ how = "error"
  <2>1. {"build failed", "done", "error"} \subseteq Results
    BY DEF Results
  <2> QED BY <2>1 DEF RemoveDirectory
<1>3. Typed'
  BY <1>1, <1>2, EndsTyped, ProcessesAre DEF Typed, Stays
<1>4. Over(j, how) /\ Alone(j)
  BY <1>1, <1>2, EndsTyped DEF Over, Alone, Stays
<1> QED BY <1>1, <1>2, <1>3, <1>4 DEF Removes, JobMoves, Stays

\* What a step of a job is.
LEMMA JobStepIs ==
  ASSUME Typed, NEW j \in Jobs, JobStep(j)
  PROVE  Typed' /\ Alone(j) /\ JobMoves(j) /\ UNCHANGED answer
<1> USE ActorsAre
<1>1. CASE CreateFiles(j)
  BY <1>1, CreateFilesIs DEF JobMoves
<1>2. CASE InitTerraform(j)
  BY <1>2, InitTerraformIs DEF JobMoves
<1>3. CASE StartBuild(j) \/ CreateWorkspace(j) \/ SaveProcess(j) \/ ApplyEnds(j)
  BY <1>3, BuildIs
<1>4. CASE StartApply(j) \/ StartDestroy(j)
  BY <1>4, LaunchIs
<1>5. CASE \/ StartCleanup(j) \/ SelectForDeletion(j) \/ DestroyEnds(j) \/ LeaveWorkspace(j)
           \/ DeleteWorkspace(j) \/ Timeout(j)
  BY <1>5, DeletionIs
<1>6. CASE RemoveDirectory(j)
  BY <1>6, RemoveIs
<1> QED BY <1>1, <1>2, <1>3, <1>4, <1>5, <1>6 DEF JobStep, Deletes

\* What a step of a reader is.  A reader is never in the steps of a deletion.
LEMMA ReaderStepIs ==
  ASSUME Typed, NEW r \in Readers, ReaderStep(r),
         at[r] \in {"idle", "over"} \union ReadSteps
  PROVE  /\ Typed' /\ Alone(r) /\ ReaderMoves(r)
         /\ \A q \in Readers : q # r => answer'[q] = answer[q]
         /\ answer' = answer \/ Answers(r)
<1> USE ActorsAre
<1>0. /\ r \in Actors /\ {"files", "pull", "write", "read"} \subseteq Steps
      /\ {"error", "done"} \subseteq Results /\ {"stack", "default"} \subseteq Workspaces
      /\ at[r] # "init deletion" /\ at[r] # "delete" /\ "read" \in ReadSteps
  BY DEF Steps, ReadSteps, Results, Workspaces
<1>1. CASE AskRead(r)
  <2>1. SameFiles /\ Stays /\ GoTo(r, "files") /\ at[r] = "idle"
    BY <1>1, StaysIs DEF AskRead, NoFiles, NoProcesses, SameFiles
  <2> QED BY <1>0, <1>1, <2>1, TurnIs DEF Stays, Asks, AskRead, ReaderMoves
<1>2. CASE CreateFiles(r)
  BY <1>2, <1>0, CreateFilesIs DEF ReaderMoves
<1>3. CASE InitTerraform(r)
  BY <1>3, <1>0, InitTerraformIs DEF ReaderMoves
<1>4. CASE SelectForReading(r)
  <2>0. at[r] = "select" /\ workspaces' = workspaces /\ file' = file /\ tofu' = tofu /\ Stays
        /\ r \notin Builds /\ "select" \in ReadSteps
    BY <1>4, StaysIs DEF SelectForReading, NoProcesses, ReadSteps
  <2>1. CASE dir.there /\ SelectWorkspace("stack") /\ GoTo(r, "pull")
    <3>1. /\ dir' \in Directories /\ Selected("stack") /\ dir.initialised
          /\ dir'.there /\ workspaces' \in SUBSET Workspaces /\ "default" \in workspaces'
      BY <1>0, <2>0, <2>1, SelectIs DEF Typed
    <3> QED BY <1>0, <2>0, <2>1, <3>1, MoveIs DEF Stays, Looks, ReaderMoves
  <2>2. CASE Ends(r, "error") /\ UNCHANGED dir
    BY <1>0, <2>0, <2>2, EndIs DEF Stays, SameFiles, Errs, ReaderMoves
  <2> QED BY <1>4, <2>1, <2>2 DEF SelectForReading
<1>5. CASE TruncateFile(r)
  <2>0. /\ at[r] = "pull" /\ UNCHANGED <<dir, workspaces, tofu>> /\ Stays
        /\ r \notin Builds /\ "pull" \in ReadSteps
    BY <1>5, StaysIs DEF TruncateFile, NoProcesses, ReadSteps
  <2>1. CASE file' = {} /\ GoTo(r, "write")
    <3>1. Typed'
      BY <1>0, <2>0, <2>1, GoToTyped DEF Typed, Stays
    <3> QED BY <1>0, <2>0, <2>1, <3>1, GoToTyped DEF Stays, Alone, To, Truncates, ReaderMoves
  <2>2. CASE Ends(r, "error") /\ UNCHANGED file
    BY <1>0, <2>0, <2>2, EndIs DEF Stays, SameFiles, Errs, ReaderMoves
  <2> QED BY <1>5, <2>1, <2>2 DEF TruncateFile
<1>6. CASE PullState(r)
  <2>0. /\ at[r] = "write" /\ UNCHANGED <<dir, workspaces, tofu>> /\ Stays
        /\ r \notin Builds /\ "write" \in ReadSteps
    BY <1>6, StaysIs DEF PullState, NoProcesses, ReadSteps
  <2>1. CASE dir.initialised /\ file' = {recorded[dir.selected]} /\ GoTo(r, "read")
    <3>1. recorded[dir.selected] \subseteq Resources
      BY DEF Typed, Directories
    <3>2. dir.there
      <4>1. NoDirectory.initialised = FALSE
        BY DEF NoDirectory
      <4> QED BY <2>1, <4>1 DEF Typed
    <3>3. file' \in SUBSET SUBSET Resources /\ \E s : file' = {s}
      BY <2>1, <3>1
    <3>4. at' \in [Actors -> Steps] /\ result' \in [Actors -> Results] /\ stage' \in Stages
      BY <1>0, <2>1, GoToTyped
    <3>5. Typed'
      BY <2>0, <3>2, <3>3, <3>4 DEF Typed, Stays
    <3> QED BY <1>0, <2>0, <2>1, <3>5, GoToTyped DEF Stays, Alone, To, Pulls, ReaderMoves
  <2>2. CASE Ends(r, "error") /\ UNCHANGED file
    BY <1>0, <2>0, <2>2, EndIs DEF Stays, SameFiles, Errs, ReaderMoves
  <2> QED BY <1>6, <2>1, <2>2 DEF PullState
<1>7. CASE ReadFile(r)
  <2>0. /\ at[r] = "read" /\ SameFiles /\ UNCHANGED <<recorded, lock, build, cleanup>>
        /\ answer' = [answer EXCEPT ![r] = file]
    BY <1>7 DEF ReadFile, NoFiles, NoState, NoProcesses, SameFiles
  <2>1. PICK how \in {"error", "done"} : Ends(r, how)
    BY <1>7 DEF ReadFile
  <2>2. /\ answer' \in [Readers -> SUBSET SUBSET Resources] /\ answer'[r] = file
        /\ \A q \in Readers : q # r => answer'[q] = answer[q]
    BY <2>0 DEF Typed
  <2>3. Typed'
    BY <1>0, <2>0, <2>1, <2>2, EndsTyped DEF Typed, SameFiles
  <2>4. Over(r, how) /\ Alone(r)
    BY <1>0, <2>0, <2>1, EndsTyped DEF Over, Alone
  <2> QED BY <2>0, <2>1, <2>2, <2>3, <2>4 DEF Answers, ReaderMoves
<1> QED BY <1>1, <1>2, <1>3, <1>4, <1>5, <1>6, <1>7 DEF ReaderStep


-----------------------------------------------------------------------------
(* What a step of terraform, and a request, does *)

OthersRun(j) ==
  /\ \A i \in Jobs : i # j => tofu'[i] = tofu[i]
  /\ tofu'[j].command = tofu[j].command /\ tofu'[j].stopping = tofu[j].stopping
SamePlaces == UNCHANGED <<dir, file, workspaces, at, result, stage, build, cleanup, answer>>

Locks(j) ==
  /\ tofu[j].state = "starting" /\ ~tofu[j].stopping
  /\ dir.initialised /\ dir.selected \in workspaces /\ lock[dir.selected] = 0
  /\ tofu'[j].state = "working" /\ tofu'[j].in = dir.selected /\ tofu'[j].ok = tofu[j].ok
  /\ lock'[dir.selected] = j /\ \A w \in Workspaces : w # dir.selected => lock'[w] = lock[w]
  /\ UNCHANGED recorded
GivesUp(j) ==
  /\ tofu[j].state = "starting"
  /\ tofu'[j].state = "exited" /\ tofu'[j].in = tofu[j].in /\ tofu'[j].ok = tofu[j].ok
  /\ UNCHANGED <<lock, recorded>>
Exits(j) ==
  /\ tofu[j].state = "working"
  /\ tofu'[j].state = "exited" /\ tofu'[j].in = tofu[j].in
  /\ tofu'[j].ok /\ tofu[j].command = "apply" => recorded[tofu[j].in] = Resources
  /\ tofu'[j].ok /\ tofu[j].command # "apply" => recorded[tofu[j].in] = {}
  /\ lock'[tofu[j].in] = 0 /\ \A w \in Workspaces : w # tofu[j].in => lock'[w] = lock[w]
  /\ UNCHANGED recorded
Changes(j) ==
  /\ tofu[j].state = "working" /\ UNCHANGED <<tofu, lock>>
  /\ \A w \in Workspaces : w # tofu[j].in => recorded'[w] = recorded[w]
  /\ \/ tofu[j].command = "apply"
     \/ tofu[j].command # "apply" /\ recorded'[tofu[j].in] \subseteq recorded[tofu[j].in]

LEMMA TakeLockIs ==
  ASSUME Typed, NEW j \in Jobs, TakeLock(j)
  PROVE  Typed' /\ SamePlaces /\ OthersRun(j) /\ (Locks(j) \/ GivesUp(j))
<1>1. SamePlaces /\ UNCHANGED recorded /\ tofu[j].state = "starting" /\ tofu[j] \in Processes
  BY DEF TakeLock, NoFiles, NoRequests, SamePlaces, Typed
<1>2. CASE /\ dir.initialised /\ dir.selected \in workspaces /\ lock[dir.selected] = 0
           /\ ~tofu[j].stopping
           /\ tofu' = [tofu EXCEPT ![j].state = "working", ![j].in = dir.selected]
           /\ lock' = [lock EXCEPT ![dir.selected] = j]
  <2>1. PICK p : /\ p = [tofu[j] EXCEPT !.state = "working", !.in = dir.selected]
                 /\ tofu' = [tofu EXCEPT ![j] = p]
    BY <1>2 DEF Typed
  <2>2. dir.selected \in Workspaces
    BY DEF Typed, Directories
  <2>3. /\ p \in Processes /\ p.state = "working" /\ p.in = dir.selected /\ p.ok = tofu[j].ok
        /\ p.command = tofu[j].command /\ p.stopping = tofu[j].stopping
    BY <1>1, <2>1, <2>2 DEF Processes
  <2>4. /\ tofu' \in [Jobs -> Processes] /\ tofu'[j] = p
        /\ \A i \in Jobs : i # j => tofu'[i] = tofu[i]
    BY <2>1, <2>3 DEF Typed
  <2>5. /\ lock' \in [Workspaces -> Jobs \union {0}] /\ lock'[dir.selected] = j
        /\ \A w \in Workspaces : w # dir.selected => lock'[w] = lock[w]
    BY <1>2, <2>2 DEF Typed
  <2>6. Typed'
    BY <1>1, <2>4, <2>5 DEF Typed, SamePlaces
  <2> QED BY <1>1, <1>2, <2>3, <2>4, <2>5, <2>6 DEF OthersRun, Locks
<1>3. CASE tofu' = [tofu EXCEPT ![j].state = "exited"] /\ UNCHANGED lock
  <2>1. PICK p : p = [tofu[j] EXCEPT !.state = "exited"] /\ tofu' = [tofu EXCEPT ![j] = p]
    BY <1>3 DEF Typed
  <2>2. /\ p \in Processes /\ p.state = "exited" /\ p.in = tofu[j].in /\ p.ok = tofu[j].ok
        /\ p.command = tofu[j].command /\ p.stopping = tofu[j].stopping
    BY <1>1, <2>1 DEF Processes
  <2>3. /\ tofu' \in [Jobs -> Processes] /\ tofu'[j] = p
        /\ \A i \in Jobs : i # j => tofu'[i] = tofu[i]
    BY <2>1, <2>2 DEF Typed
  <2>4. Typed'
    BY <1>1, <1>3, <2>3 DEF Typed, SamePlaces
  <2> QED BY <1>1, <1>3, <2>2, <2>3, <2>4 DEF OthersRun, GivesUp
<1> QED BY <1>2, <1>3 DEF TakeLock

LEMMA ExitIs ==
  ASSUME Typed, NEW j \in Jobs, Exit(j)
  PROVE  Typed' /\ SamePlaces /\ OthersRun(j) /\ Exits(j)
<1>1. /\ SamePlaces /\ UNCHANGED recorded /\ tofu[j].state = "working" /\ tofu[j] \in Processes
      /\ tofu[j].in \in Workspaces
  BY DEF Exit, NoFiles, NoRequests, SamePlaces, Typed, Processes
<1>2. PICK ok \in BOOLEAN :
        /\ ok => recorded[tofu[j].in] = IF tofu[j].command = "apply" THEN Resources ELSE {}
        /\ tofu' = [tofu EXCEPT ![j].state = "exited", ![j].ok = ok]
        /\ lock' = [lock EXCEPT ![tofu[j].in] = 0]
  BY DEF Exit
<1>3. PICK p : /\ p = [tofu[j] EXCEPT !.state = "exited", !.ok = ok]
               /\ tofu' = [tofu EXCEPT ![j] = p]
  BY <1>2 DEF Typed
<1>4. /\ p \in Processes /\ p.state = "exited" /\ p.in = tofu[j].in /\ p.ok = ok
      /\ p.command = tofu[j].command /\ p.stopping = tofu[j].stopping
  BY <1>1, <1>3 DEF Processes
<1>5. /\ tofu' \in [Jobs -> Processes] /\ tofu'[j] = p
      /\ \A i \in Jobs : i # j => tofu'[i] = tofu[i]
  BY <1>3, <1>4 DEF Typed
<1>6. /\ lock' \in [Workspaces -> Jobs \union {0}] /\ lock'[tofu[j].in] = 0
      /\ \A w \in Workspaces : w # tofu[j].in => lock'[w] = lock[w]
  BY <1>1, <1>2 DEF Typed
<1>7. Typed'
  BY <1>1, <1>5, <1>6 DEF Typed, SamePlaces
<1>8. /\ ok /\ tofu[j].command = "apply" => recorded[tofu[j].in] = Resources
      /\ ok /\ tofu[j].command # "apply" => recorded[tofu[j].in] = {}
  BY <1>2
<1>9. tofu'[j].state = "exited" /\ tofu'[j].in = tofu[j].in /\ tofu'[j].ok = ok
  BY <1>4, <1>5
<1>10. Exits(j)
  BY <1>1, <1>6, <1>8, <1>9 DEF Exits
<1> QED BY <1>1, <1>4, <1>5, <1>7, <1>10 DEF OthersRun

LEMMA ChangeIs ==
  ASSUME Typed, NEW j \in Jobs, Change(j)
  PROVE  Typed' /\ SamePlaces /\ OthersRun(j) /\ Changes(j)
<1>1. /\ SamePlaces /\ UNCHANGED <<tofu, lock>> /\ tofu[j].state = "working"
      /\ tofu[j].in \in Workspaces
  BY DEF Change, NoFiles, NoProcesses, NoRequests, SamePlaces, Typed, Processes
<1>2. PICK now \in SUBSET Resources :
        /\ recorded' = [recorded EXCEPT ![tofu[j].in] = now]
        /\ tofu[j].command # "apply" => now \subseteq recorded[tofu[j].in]
  <2>1. CASE tofu[j].command = "apply"
    <3>1. PICK r \in Resources :
            recorded' = [recorded EXCEPT ![tofu[j].in] = recorded[tofu[j].in] \union {r}]
      BY <2>1 DEF Change, Typed
    <3>2. recorded[tofu[j].in] \union {r} \in SUBSET Resources
      BY <1>1 DEF Typed
    <3> QED BY <2>1, <3>1, <3>2
  <2>2. CASE tofu[j].command # "apply"
    <3>1. PICK r \in Resources :
            recorded' = [recorded EXCEPT ![tofu[j].in] = recorded[tofu[j].in] \ {r}]
      BY <1>1, <2>2 DEF Change, Typed
    <3>2. recorded[tofu[j].in] \ {r} \in SUBSET Resources
      BY <1>1 DEF Typed
    <3> QED BY <2>2, <3>1, <3>2
  <2> QED BY <2>1, <2>2
<1>3. /\ recorded' \in [Workspaces -> SUBSET Resources] /\ recorded'[tofu[j].in] = now
      /\ \A w \in Workspaces : w # tofu[j].in => recorded'[w] = recorded[w]
  BY <1>1, <1>2 DEF Typed
<1>4. Typed'
  BY <1>1, <1>3 DEF Typed, SamePlaces
<1> QED BY <1>1, <1>2, <1>3, <1>4 DEF OthersRun, Changes

Cancels ==
  /\ ~stage.finished
  /\ \/ stage.pid # 0 \/ "early" \in Faults
     \/ at[build] \in DeletionSteps \union {"queued"}
  /\ stage'.finished /\ stage'.failed /\ stage'.pid = stage.pid
  /\ \A a \in Actors : a # build \/ at[a] # "queued" => at'[a] = at[a]
  /\ at[build] = "queued" => at'[build] = "over"
  /\ \A i \in Jobs : i # build => tofu'[i] = tofu[i]
  /\ tofu'[build].state = tofu[build].state /\ tofu'[build].in = tofu[build].in
  /\ tofu'[build].ok = tofu[build].ok /\ tofu'[build].command = tofu[build].command
  /\ stage.pid # 0 /\ tofu[build].command = "apply" => tofu'[build].stopping
  /\ UNCHANGED <<dir, file, workspaces, recorded, lock, result, build, cleanup, answer>>

LEMMA CancelIs ==
  ASSUME Typed, Cancel
  PROVE  Typed' /\ Cancels
<1> USE ActorsAre
<1>1. /\ UNCHANGED <<dir, file, workspaces, recorded, lock, result, build, cleanup, answer>>
      /\ ~stage.finished
      /\ \/ stage.pid # 0 \/ "early" \in Faults
         \/ at[build] \in DeletionSteps \union {"queued"}
      /\ build \in Builds /\ build \in Jobs /\ build \in Actors /\ "over" \in Steps
  BY DEF Cancel, NoFiles, NoState, NoRequests, Typed, Steps, Idle
<1>2. /\ stage' \in Stages /\ stage'.finished /\ stage'.failed /\ stage'.pid = stage.pid
  <2>1. stage' = [stage EXCEPT !.finished = TRUE, !.failed = TRUE]
    BY DEF Cancel
  <2> QED BY <2>1 DEF Stages, Typed
<1>3. /\ at' \in [Actors -> Steps]
      /\ \A a \in Actors : a # build \/ at[a] # "queued" => at'[a] = at[a]
      /\ at[build] = "queued" => at'[build] = "over"
  <2>1. CASE at[build] = "queued"
    <3>1. at' = [at EXCEPT ![build] = "over"]
      BY <2>1 DEF Cancel
    <3> QED BY <1>1, <2>1, <3>1 DEF Typed
  <2>2. CASE at[build] # "queued"
    <3>1. at' = at
      BY <2>2 DEF Cancel
    <3> QED BY <2>2, <3>1 DEF Typed
  <2> QED BY <2>1, <2>2
<1>4. /\ tofu' \in [Jobs -> Processes]
      /\ \A i \in Jobs : i # build => tofu'[i] = tofu[i]
      /\ tofu'[build].state = tofu[build].state /\ tofu'[build].in = tofu[build].in
      /\ tofu'[build].ok = tofu[build].ok /\ tofu'[build].command = tofu[build].command
      /\ stage.pid # 0 /\ tofu[build].command = "apply" => tofu'[build].stopping
  <2>1. CASE stage.pid # 0 /\ tofu[build].command = "apply"
    <3>1. PICK p : p = [tofu[build] EXCEPT !.stopping = TRUE] /\ tofu' = [tofu EXCEPT ![build] = p]
      BY <2>1 DEF Cancel, StopProcess, Typed
    <3>2. tofu[build] \in Processes
      BY <1>1 DEF Typed
    <3>3. /\ p \in Processes /\ p.state = tofu[build].state /\ p.in = tofu[build].in
          /\ p.ok = tofu[build].ok /\ p.command = tofu[build].command /\ p.stopping
      BY <3>1, <3>2 DEF Processes
    <3> QED BY <1>1, <3>1, <3>3 DEF Typed
  <2>2. CASE ~(stage.pid # 0 /\ tofu[build].command = "apply")
    <3>1. tofu' = tofu
      BY <2>2 DEF Cancel, StopProcess
    <3> QED BY <2>2, <3>1 DEF Typed
  <2> QED BY <2>1, <2>2
<1>5. Typed'
  BY <1>1, <1>2, <1>3, <1>4 DEF Typed
<1> QED BY <1>1, <1>2, <1>3, <1>4, <1>5 DEF Cancels

Restarts ==
  /\ stage.finished /\ stage.failed /\ cleanup = 0
  /\ at[build] = "over" \/ "overlap" \in Faults
  /\ ~Astray \/ "astray" \in Faults
  /\ build' = build + 1
  /\ ~stage'.finished /\ ~stage'.failed /\ stage'.pid = 0
  /\ at'[build + 1] = "queued" /\ \A a \in Actors : a # build + 1 => at'[a] = at[a]
  /\ UNCHANGED <<dir, file, workspaces, recorded, lock, result, tofu, cleanup, answer>>

LEMMA RestartIs ==
  ASSUME Typed, Restart
  PROVE  Typed' /\ Restarts /\ build' \in Builds
<1> USE ActorsAre
<1>1. /\ UNCHANGED <<dir, file, workspaces, recorded, lock, result, tofu, cleanup, answer>>
      /\ stage.finished /\ stage.failed /\ cleanup = 0
      /\ at[build] = "over" \/ "overlap" \in Faults
      /\ ~Astray \/ "astray" \in Faults
      /\ build' = build + 1 /\ "queued" \in Steps
  BY DEF Restart, NoFiles, NoState, NoProcesses, Typed, Steps, Idle
<1>2. build + 1 \in Builds
  BY ConstantsAssumption DEF Restart, Typed, Builds
<1>3. /\ at' \in [Actors -> Steps] /\ at'[build + 1] = "queued"
      /\ \A a \in Actors : a # build + 1 => at'[a] = at[a]
  BY <1>1, <1>2 DEF Restart, Typed
<1>4. stage' \in Stages /\ ~stage'.finished /\ ~stage'.failed /\ stage'.pid = 0
  BY ProcessesAre DEF Restart, NewStage
<1>5. Typed'
  BY <1>1, <1>2, <1>3, <1>4 DEF Typed
<1> QED BY <1>1, <1>2, <1>3, <1>4, <1>5 DEF Restarts

CleansUp ==
  /\ stage.finished
  /\ cleanup # 0 => at[cleanup] = "over" /\ result[cleanup] = "error" /\ cleanup' = cleanup + 1
  /\ cleanup = 0 => cleanup' = MaxBuilds + 1
  /\ cleanup' \in Cleanups
  /\ at'[cleanup'] = "queued" /\ \A a \in Actors : a # cleanup' => at'[a] = at[a]
  /\ UNCHANGED <<dir, file, workspaces, recorded, lock, result, tofu, stage, build, answer>>

LEMMA CleanupIs ==
  ASSUME Typed, AskCleanup
  PROVE  Typed' /\ CleansUp
<1> USE ActorsAre
<1>1. /\ UNCHANGED <<dir, file, workspaces, recorded, lock, result, tofu, stage, build, answer>>
      /\ stage.finished /\ "queued" \in Steps
  BY DEF AskCleanup, NoFiles, NoState, NoProcesses, Typed, Steps, Idle
<1>2. PICK next \in Cleanups :
        /\ cleanup' = next /\ at' = [at EXCEPT ![next] = "queued"]
        /\ cleanup # 0 => at[cleanup] = "over" /\ result[cleanup] = "error" /\ next = cleanup + 1
        /\ cleanup = 0 => next = MaxBuilds + 1
  BY DEF AskCleanup
<1>3. /\ at' \in [Actors -> Steps] /\ at'[next] = "queued"
      /\ \A a \in Actors : a # next => at'[a] = at[a]
  BY <1>1, <1>2 DEF Typed
<1>4. Typed'
  BY <1>1, <1>2, <1>3 DEF Typed
<1> QED BY <1>1, <1>2, <1>3, <1>4 DEF CleansUp

Loses ==
  /\ dir' = NoDirectory /\ file' = {}
  /\ \/ stage.finished /\ ~stage.failed
     \/ "lost all" \in Faults
  /\ \A a \in Actors : at[a] \in Idle
  /\ \A j \in Jobs : tofu[j].state \in {"none", "exited"}
  /\ UNCHANGED <<workspaces, recorded, lock, at, result, tofu, stage, build, cleanup, answer>>

LEMMA LoseIs ==
  ASSUME Typed, LoseDirectory
  PROVE  Typed' /\ Loses
BY ProcessesAre DEF LoseDirectory, Loses, Typed, NoState, NoProcesses, NoRequests


-----------------------------------------------------------------------------
(* What holds whatever goes wrong *)

\* An actor is in steps of its own; those to come wait, and those with a result are over.
Placed ==
  /\ \A b \in Builds : /\ at[b] \in Idle \union BuildSteps \union DeletionSteps
                       /\ b > build => at[b] = "idle"
  /\ \A c \in Cleanups : /\ at[c] \in Idle \union DeletionSteps
                         /\ c > cleanup => at[c] = "idle"
  /\ \A r \in Readers : at[r] \in {"idle", "over"} \union ReadSteps
  /\ \A a \in Actors : result[a] # "none" => at[a] = "over"

Going == {"starting", "working"}

\* The lock is held by the process that works in the workspace, and a workspace with
\* resources, or whose state is locked, is not deleted.
Locked ==
  /\ \A j \in Jobs : tofu[j].state \in Going => at[j] \in {"save", "applying", "destroying", "over"}
  /\ \A j \in Jobs : tofu[j].state = "working" => lock[tofu[j].in] = j
  /\ \A w \in Workspaces : lock[w] # 0 => tofu[lock[w]].state = "working" /\ tofu[lock[w]].in = w
  /\ lock["stack"] # 0 => "stack" \in workspaces
  /\ recorded["stack"] # {} => "stack" \in workspaces

JobAct == \E j \in Jobs : Alone(j) /\ JobMoves(j) /\ UNCHANGED answer
ProcessAct ==
  \E j \in Jobs : SamePlaces /\ OthersRun(j) /\ (Locks(j) \/ GivesUp(j) \/ Exits(j) \/ Changes(j))
ReaderAct ==
  \E r \in Readers : /\ Alone(r) /\ ReaderMoves(r)
                     /\ \A q \in Readers : q # r => answer'[q] = answer[q]
                     /\ answer' = answer \/ Answers(r)

LEMMA NextIs ==
  ASSUME Typed, Placed, [Next]_vars
  PROVE  /\ Typed'
         /\ \/ JobAct \/ ProcessAct \/ ReaderAct
            \/ Cancels \/ (Restarts /\ build' \in Builds) \/ CleansUp \/ Loses \/ UNCHANGED vars
<1>1. CASE \E j \in Jobs : JobStep(j)
  BY <1>1, JobStepIs DEF JobAct
<1>2. CASE \E j \in Jobs : Terraform(j)
  <2>1. PICK j \in Jobs : TakeLock(j) \/ Change(j) \/ Exit(j)
    BY <1>2 DEF Terraform
  <2> QED BY <2>1, TakeLockIs, ExitIs, ChangeIs DEF ProcessAct
<1>3. CASE \E r \in Readers : ReaderStep(r)
  <2>1. PICK r \in Readers : ReaderStep(r)
    BY <1>3
  <2>2. at[r] \in {"idle", "over"} \union ReadSteps
    BY DEF Placed
  <2> QED BY <2>1, <2>2, ReaderStepIs DEF ReaderAct
<1>4. CASE Cancel \/ Restart \/ AskCleanup \/ LoseDirectory
  BY <1>4, CancelIs, RestartIs, CleanupIs, LoseIs
<1>5. CASE UNCHANGED vars
  BY <1>5 DEF vars, Typed
<1> QED BY <1>1, <1>2, <1>3, <1>4, <1>5 DEF Next

LEMMA JobPlaced ==
  ASSUME Typed, Typed', Placed, JobAct
  PROVE  Placed'
<1> USE ActorsAre
<1>1. PICK j \in Jobs : Alone(j) /\ JobMoves(j)
  BY DEF JobAct
<1>2. /\ \A b \in Actors : b # j => at'[b] = at[b] /\ result'[b] = result[b]
      /\ build' = build /\ cleanup' = cleanup
      /\ j \in Actors /\ j \notin Readers
  BY <1>1 DEF Alone
<1>3. at[j] \notin {"idle", "over"} /\ (result'[j] = result[j] \/ at'[j] = "over")
  BY <1>1 DEF JobMoves, Errs, Makes, Inits, Begins, Turns, Creates, Finds, Launches, Saves,
     Succeeds, Selects, Skips, Destroyed, Leaves, NotLeft, Drops, NotDropped, Removes, To, Over,
     ReadSteps
<1>4. /\ j \in Builds => at'[j] \in {"over"} \union BuildSteps \union DeletionSteps
      /\ j \in Cleanups => at'[j] \in {"over"} \union DeletionSteps
  <2>1. CASE j \in Cleanups
    <3>1. at[j] \in Idle \union DeletionSteps /\ j \notin Builds
      BY <2>1 DEF Placed
    <3>2. at'[j] \in {"over"} \union DeletionSteps
      BY <1>1, <3>1 DEF JobMoves, Errs, Makes, Inits, Begins, Turns, Creates, Finds, Launches, Saves,
       Succeeds, Selects, Skips, Destroyed, Leaves, NotLeft, Drops, NotDropped, Removes, To, Over,
         DeletionSteps, Idle
    <3> QED BY <2>1, <3>1, <3>2
  <2>2. CASE j \in Builds
    <3>1. j \notin Cleanups
      BY <2>2
    <3>2. at'[j] \in {"over"} \union BuildSteps \union DeletionSteps
      BY <1>1, <2>2 DEF JobMoves, Errs, Makes, Inits, Begins, Turns, Creates, Finds, Launches, Saves,
       Succeeds, Selects, Skips, Destroyed, Leaves, NotLeft, Drops, NotDropped, Removes, To, Over,
         BuildSteps, DeletionSteps
    <3> QED BY <2>2, <3>1, <3>2
  <2> QED BY <2>1, <2>2 DEF Jobs
<1>5. \A b \in Builds : /\ at'[b] \in Idle \union BuildSteps \union DeletionSteps
                        /\ b > build => at'[b] = "idle"
  BY <1>2, <1>3, <1>4 DEF Placed, Idle
<1>6. \A c \in Cleanups : /\ at'[c] \in Idle \union DeletionSteps
                          /\ c > cleanup => at'[c] = "idle"
  BY <1>2, <1>3, <1>4 DEF Placed, Idle
<1>7. \A r \in Readers : at'[r] \in {"idle", "over"} \union ReadSteps
  BY <1>2 DEF Placed
<1>8. \A a \in Actors : result'[a] # "none" => at'[a] = "over"
  BY <1>2, <1>3 DEF Placed
<1> QED BY <1>2, <1>5, <1>6, <1>7, <1>8 DEF Placed

LEMMA PlacedStep ==
  ASSUME Typed, Placed, [Next]_vars
  PROVE  Placed'
<1> USE ActorsAre
<1>0. Typed'
  BY NextIs
<1>1. CASE JobAct
  BY <1>0, <1>1, JobPlaced
<1>2. CASE ProcessAct \/ Loses \/ UNCHANGED vars
  BY <1>2 DEF ProcessAct, SamePlaces, Loses, vars, Placed
<1>3. CASE ReaderAct
  <2>1. PICK r \in Readers : Alone(r) /\ ReaderMoves(r)
    BY <1>3 DEF ReaderAct
  <2>2. /\ \A b \in Actors : b # r => at'[b] = at[b] /\ result'[b] = result[b]
        /\ build' = build /\ cleanup' = cleanup
        /\ r \in Actors /\ r \notin Builds /\ r \notin Cleanups
    BY <2>1 DEF Alone
  <2>3. /\ at'[r] \in {"over"} \union ReadSteps
        /\ at[r] # "over" /\ (result'[r] = result[r] \/ at'[r] = "over")
    BY <2>1, <2>2 DEF ReaderMoves, Asks, Makes, Inits, Looks, Truncates, Pulls, Answers, Errs, To,
       Over, ReadSteps, DeletionSteps, Placed
  <2> QED BY <2>2, <2>3 DEF Placed
<1>4. CASE Cancels
  <2>1. /\ \A a \in Actors : at'[a] = at[a] \/ at'[a] = "over"
        /\ \A a \in Actors : at'[a] = at[a] \/ a = build
        /\ UNCHANGED <<build, cleanup, result>> /\ build \in Builds
    BY <1>4 DEF Cancels, Typed
  <2>2. \A b \in Builds : b > build => b # build
    BY <2>1
  <2> QED BY <2>1, <2>2 DEF Placed, Idle
<1>5. CASE Restarts /\ build' \in Builds
  <2>1. /\ \A a \in Actors : a # build' => at'[a] = at[a]
        /\ at'[build'] = "queued" /\ at[build'] = "idle"
        /\ UNCHANGED <<cleanup, result>> /\ build' \in Builds
        /\ \A b \in Builds : b > build' => b > build /\ b # build'
    BY <1>5 DEF Restarts, Typed, Placed
  <2> QED BY <2>1 DEF Placed, Idle
<1>6. CASE CleansUp
  <2>1. /\ \A a \in Actors : a # cleanup' => at'[a] = at[a]
        /\ cleanup' \in Cleanups /\ at'[cleanup'] = "queued"
        /\ UNCHANGED <<build, result>>
    BY <1>6 DEF CleansUp
  <2>2. cleanup' > cleanup
    BY <1>6 DEF CleansUp, Typed, Cleanups
  <2>3. at[cleanup'] = "idle" /\ \A c \in Cleanups : c > cleanup' => c > cleanup /\ c # cleanup'
    BY <2>1, <2>2 DEF Placed, Typed
  <2> QED BY <2>1, <2>3 DEF Placed, Idle
<1> QED BY <1>1, <1>2, <1>3, <1>4, <1>5, <1>6, NextIs


\* What is started by a job, and what it does with the workspace of the stack.
LEMMA JobWorks ==
  ASSUME Typed, NEW j \in Jobs, Alone(j), JobMoves(j)
  PROVE  /\ \A i \in Jobs : i # j => tofu'[i] = tofu[i]
         /\ \/ tofu'[j] = tofu[j]
            \/ at[j] \in {"apply", "destroy"} /\ at'[j] \in {"save", "destroying"} /\ tofu'[j].state = "starting"
         /\ at[j] = "save" => at'[j] \in {"applying", "over"}
         /\ at[j] \in {"applying", "destroying"} => at'[j] = "over" \/ tofu[j].state = "exited"
         /\ \/ workspaces' = workspaces
            \/ workspaces' = workspaces \union {"stack"} /\ at[j] = "new" /\ dir.there
            \/ /\ workspaces' = workspaces \ {"stack"} /\ Deletable
               /\ at[j] = "delete workspace" /\ at'[j] = "remove"
<1>1. \/ tofu' = tofu
      \/ Launches(j)
  BY DEF JobMoves, Errs, Makes, Inits, Begins, Turns, Creates, Finds, Saves, SameFiles,
     Succeeds, Selects, Skips, Destroyed, Leaves, NotLeft, Drops, NotDropped, Removes
<1>2. \/ workspaces' = workspaces
      \/ workspaces' = workspaces \union {"stack"} /\ at[j] = "new" /\ dir.there
      \/ /\ workspaces' = workspaces \ {"stack"} /\ Deletable
         /\ at[j] = "delete workspace" /\ at'[j] = "remove"
  BY DEF JobMoves, Errs, Makes, Inits, Begins, Turns, Creates, Finds, Launches, Saves, SameFiles,
     Succeeds, Selects, Skips, Destroyed, Leaves, NotLeft, Drops, NotDropped, Removes, To
<1>3. /\ at[j] = "save" => at'[j] \in {"applying", "over"}
      /\ at[j] \in {"applying", "destroying"} => at'[j] = "over" \/ tofu[j].state = "exited"
  BY DEF JobMoves, Errs, Makes, Inits, Begins, Turns, Creates, Finds, Launches, Saves,
     Succeeds, Selects, Skips, Destroyed, Leaves, NotLeft, Drops, NotDropped, Removes, To, Over,
     ReadSteps
<1> QED BY <1>1, <1>2, <1>3 DEF Launches, To

LEMMA ReaderLeaves ==
  ASSUME Typed, Placed, NEW r \in Readers, Alone(r), ReaderMoves(r)
  PROVE  /\ UNCHANGED <<tofu, workspaces, recorded, lock, build, cleanup, stage>>
         /\ \A b \in Actors : b # r => at'[b] = at[b] /\ result'[b] = result[b]
         /\ \A j \in Jobs : at'[j] = at[j] /\ result'[j] = result[j]
         /\ at'[r] \in {"over"} \union ReadSteps /\ at[r] # "over"
<1> USE ActorsAre
<1>1. at[r] \in {"idle", "over"} \union ReadSteps /\ r \notin Jobs /\ r # build
  BY DEF Placed, Typed
<1> QED BY <1>1 DEF ReaderMoves, Asks, Makes, Inits, Looks, Truncates, Pulls, Answers, Errs, To,
       Over, ReadSteps, DeletionSteps, SameFiles, Alone

LEMMA LockedStep ==
  ASSUME Typed, Placed, Locked, [Next]_vars
  PROVE  Locked'
<1> USE ActorsAre
<1>0. Typed' /\ "stack" \in Workspaces
  BY NextIs DEF Workspaces
<1>1. CASE JobAct
  <2>1. PICK j \in Jobs : Alone(j) /\ JobMoves(j)
    BY <1>1 DEF JobAct
  <2>2. /\ UNCHANGED <<lock, recorded>>
        /\ \A i \in Jobs : i # j => tofu'[i] = tofu[i] /\ at'[i] = at[i]
    BY <2>1, JobWorks DEF Alone
  <2>3. /\ lock["stack"] # 0 => "stack" \in workspaces'
        /\ recorded["stack"] # {} => "stack" \in workspaces'
    BY <2>1, JobWorks DEF Locked, Deletable
  <2>4. CASE tofu'[j] = tofu[j]
    <3>1. tofu'[j].state \in Going => at'[j] \in {"save", "applying", "destroying", "over"}
      <4>1. at[j] = "over" => at'[j] = "over"
        BY <2>1 DEF JobMoves, Errs, Makes, Inits, Begins, Turns, Creates, Finds, Launches, Saves,
          Succeeds, Selects, Skips, Destroyed, Leaves, NotLeft, Drops, NotDropped, Removes, ReadSteps
      <4> QED BY <2>1, <2>4, <4>1, JobWorks DEF Locked, Going
    <3>2. \A i \in Jobs : tofu'[i] = tofu[i]
      BY <2>2, <2>4
    <3>3. \A w \in Workspaces : lock[w] # 0 => lock[w] \in Jobs
      BY DEF Typed
    <3> QED BY <2>2, <2>3, <3>1, <3>2, <3>3 DEF Locked
  <2>5. CASE /\ at[j] \in {"apply", "destroy"} /\ at'[j] \in {"save", "destroying"}
             /\ tofu'[j].state = "starting"
    <3>1. tofu[j].state \notin Going
      BY <2>5 DEF Locked
    <3>2. \A w \in Workspaces : lock[w] # j /\ (lock[w] # 0 => lock[w] \in Jobs)
      BY <3>1 DEF Locked, Going, Typed
    <3>3. \A i \in Jobs : tofu'[i].state = "working" => i # j
      BY <2>5
    <3>4. \A i \in Jobs : tofu'[i].state \in Going => at'[i] \in {"save", "applying", "destroying", "over"}
      BY <2>2, <2>5 DEF Locked
    <3>5. \A i \in Jobs : tofu'[i].state = "working" => lock[tofu'[i].in] = i
      BY <2>2, <3>3 DEF Locked
    <3>6. \A w \in Workspaces : lock[w] # 0 => tofu'[lock[w]].state = "working" /\ tofu'[lock[w]].in = w
      BY <2>2, <3>2 DEF Locked
    <3> QED BY <2>2, <2>3, <3>4, <3>5, <3>6 DEF Locked
  <2> QED BY <2>1, <2>4, <2>5, JobWorks
<1>2. CASE ProcessAct
  <2>1. PICK j \in Jobs : SamePlaces /\ OthersRun(j)
                          /\ (Locks(j) \/ GivesUp(j) \/ Exits(j) \/ Changes(j))
    BY <1>2 DEF ProcessAct
  <2>2. UNCHANGED <<at, workspaces>> /\ \A i \in Jobs : i # j => tofu'[i] = tofu[i]
    BY <2>1 DEF SamePlaces, OthersRun
  <2>3. /\ \A w \in Workspaces : lock[w] # 0 => lock[w] \in Jobs
        /\ tofu[j].in \in Workspaces /\ dir.selected \in Workspaces
    BY DEF Typed, Processes, Directories
  <2>4. CASE Locks(j)
    <3>1. /\ tofu'[j].state = "working" /\ tofu'[j].in = dir.selected /\ tofu[j].state = "starting"
          /\ lock[dir.selected] = 0 /\ lock'[dir.selected] = j
          /\ \A w \in Workspaces : w # dir.selected => lock'[w] = lock[w]
          /\ dir.selected \in workspaces /\ recorded' = recorded
      BY <2>4 DEF Locks
    <3>2. \A w \in Workspaces : lock[w] # j
      BY <3>1 DEF Locked
    <3>3. \A i \in Jobs : tofu'[i].state \in Going => at[i] \in {"save", "applying", "destroying", "over"}
      BY <2>2, <3>1 DEF Locked, Going
    <3>4. \A i \in Jobs : tofu'[i].state = "working" => lock'[tofu'[i].in] = i
      <4> SUFFICES ASSUME NEW i \in Jobs, tofu'[i].state = "working" PROVE lock'[tofu'[i].in] = i
        OBVIOUS
      <4>1. CASE i = j
        BY <4>1, <3>1
      <4>2. CASE i # j
        BY <4>2, <2>2, <3>1, <1>0 DEF Locked, Typed, Processes
      <4> QED BY <4>1, <4>2
    <3>5. \A w \in Workspaces : lock'[w] # 0 => tofu'[lock'[w]].state = "working" /\ tofu'[lock'[w]].in = w
      <4> SUFFICES ASSUME NEW w \in Workspaces, lock'[w] # 0
                   PROVE  tofu'[lock'[w]].state = "working" /\ tofu'[lock'[w]].in = w
        OBVIOUS
      <4>1. CASE w = dir.selected
        BY <3>1, <4>1
      <4>2. CASE w # dir.selected
        <5>1. lock'[w] = lock[w] /\ lock[w] \in Jobs
          BY <3>1, <4>2 DEF Typed
        <5>2. tofu[lock[w]].state = "working" /\ tofu[lock[w]].in = w
          BY <5>1 DEF Locked
        <5>3. tofu'[lock[w]] = tofu[lock[w]]
          BY <2>2, <3>2, <5>1
        <5> QED BY <5>1, <5>2, <5>3
      <4> QED BY <4>1, <4>2
    <3> QED BY <1>0, <2>2, <3>1, <3>3, <3>4, <3>5 DEF Locked
  <2>5. CASE GivesUp(j)
    <3>1. tofu'[j].state = "exited" /\ tofu[j].state = "starting" /\ UNCHANGED <<lock, recorded>>
      BY <2>5 DEF GivesUp
    <3>2. \A w \in Workspaces : lock[w] # j
      BY <3>1 DEF Locked
    <3>3. \A i \in Jobs : tofu'[i].state \in Going => at'[i] \in {"save", "applying", "destroying", "over"}
      BY <2>2, <3>1 DEF Locked, Going
    <3>4. \A i \in Jobs : tofu'[i].state = "working" => lock'[tofu'[i].in] = i
      BY <2>2, <3>1 DEF Locked
    <3>5. \A w \in Workspaces : lock'[w] # 0 => tofu'[lock'[w]].state = "working" /\ tofu'[lock'[w]].in = w
      <4> SUFFICES ASSUME NEW w \in Workspaces, lock'[w] # 0
                   PROVE  tofu'[lock'[w]].state = "working" /\ tofu'[lock'[w]].in = w
        OBVIOUS
      <4>1. lock'[w] = lock[w] /\ lock[w] \in Jobs /\ lock[w] # j
        BY <2>3, <3>1, <3>2
      <4>2. tofu[lock[w]].state = "working" /\ tofu[lock[w]].in = w
        BY <4>1 DEF Locked
      <4>3. tofu'[lock[w]] = tofu[lock[w]]
        BY <2>2, <4>1
      <4> QED BY <4>1, <4>2, <4>3
    <3> QED BY <2>2, <3>1, <3>3, <3>4, <3>5 DEF Locked
  <2>6. CASE Exits(j)
    <3>1. /\ tofu'[j].state = "exited" /\ tofu[j].state = "working"
          /\ lock'[tofu[j].in] = 0 /\ \A w \in Workspaces : w # tofu[j].in => lock'[w] = lock[w]
          /\ recorded' = recorded
      BY <2>6 DEF Exits
    <3>2. \A i \in Jobs : tofu'[i].state \in Going => at[i] \in {"save", "applying", "destroying", "over"}
      BY <2>2, <3>1 DEF Locked, Going
    <3>3. \A i \in Jobs : tofu'[i].state = "working" => lock'[tofu'[i].in] = i
      BY <1>0, <2>2, <2>3, <3>1 DEF Locked, Typed, Processes
    <3>4. \A w \in Workspaces : lock'[w] # 0 => lock'[w] = lock[w] /\ lock[w] \in Jobs /\ lock[w] # j
      BY <2>3, <3>1 DEF Locked
    <3>5. \A w \in Workspaces : lock'[w] # 0 => tofu'[lock'[w]].state = "working" /\ tofu'[lock'[w]].in = w
      BY <2>2, <3>4 DEF Locked
    <3> QED BY <1>0, <2>2, <3>1, <3>2, <3>3, <3>4, <3>5 DEF Locked
  <2>7. CASE Changes(j)
    <3>1. /\ UNCHANGED <<tofu, lock>> /\ tofu[j].state = "working"
          /\ \A w \in Workspaces : w # tofu[j].in => recorded'[w] = recorded[w]
      BY <2>7 DEF Changes
    <3>2. lock[tofu[j].in] = j /\ j # 0
      BY <3>1 DEF Locked
    <3>3. recorded'["stack"] # {} => "stack" \in workspaces
      BY <1>0, <3>1, <3>2 DEF Locked
    <3> QED BY <2>2, <3>1, <3>3 DEF Locked
  <2> QED BY <2>1, <2>4, <2>5, <2>6, <2>7
<1>3. CASE ReaderAct
  <2>1. PICK r \in Readers : Alone(r) /\ ReaderMoves(r)
    BY <1>3 DEF ReaderAct
  <2>2. UNCHANGED <<tofu, workspaces, recorded, lock>> /\ \A j \in Jobs : at'[j] = at[j]
    BY <2>1, ReaderLeaves
  <2> QED BY <2>2 DEF Locked
<1>4. CASE Cancels
  <2>1. /\ \A i \in Jobs : tofu'[i].state = tofu[i].state /\ tofu'[i].in = tofu[i].in
        /\ \A i \in Jobs : at'[i] = at[i] \/ at'[i] = "over"
        /\ UNCHANGED <<lock, recorded, workspaces>>
    BY <1>4 DEF Cancels
  <2>2. \A w \in Workspaces : lock[w] # 0 => lock[w] \in Jobs
    BY DEF Typed
  <2> QED BY <2>1, <2>2 DEF Locked
<1>5. CASE Restarts /\ build' \in Builds
  <2>1. /\ \A a \in Actors : a # build' => at'[a] = at[a]
        /\ build' \in Jobs /\ at[build'] = "idle" /\ UNCHANGED <<tofu, lock, recorded, workspaces>>
    BY <1>5 DEF Restarts, Typed, Placed
  <2>2. tofu[build'].state \notin Going
    BY <2>1 DEF Locked
  <2> QED BY <2>1, <2>2 DEF Locked
<1>6. CASE CleansUp
  <2>1. /\ \A a \in Actors : a # cleanup' => at'[a] = at[a]
        /\ cleanup' \in Cleanups /\ cleanup' \in Jobs /\ UNCHANGED <<tofu, lock, recorded, workspaces>>
    BY <1>6 DEF CleansUp
  <2>2. cleanup' > cleanup
    BY <1>6 DEF CleansUp, Typed, Cleanups
  <2>3. tofu[cleanup'].state \notin Going
    BY <2>1, <2>2 DEF Placed, Locked
  <2> QED BY <2>1, <2>3 DEF Locked
<1>7. CASE Loses \/ UNCHANGED vars
  BY <1>7 DEF Loses, vars, Locked
<1> QED BY <1>1, <1>2, <1>3, <1>4, <1>5, <1>6, <1>7, NextIs

LEMMA AtFirst ==
  Init => Typed /\ Placed /\ Locked
<1> USE ActorsAre
<1> SUFFICES ASSUME Init PROVE Typed /\ Placed /\ Locked
  OBVIOUS
<1>2. /\ at \in [Actors -> Steps] /\ result \in [Actors -> Results] /\ tofu \in [Jobs -> Processes]
      /\ \A a \in Actors : at[a] = IF a = 1 THEN "queued" ELSE "idle"
  BY ProcessesAre DEF Init, Steps, Idle, Results
<1>3. Typed
  BY <1>2, ProcessesAre DEF Init, Typed, Workspaces, NoDirectory
<1>4. Placed
  <2>1. build = 1 /\ cleanup = 0 /\ \A a \in Actors : result[a] = "none"
    BY DEF Init
  <2> QED BY <1>2, <2>1 DEF Placed, Idle
<1>5. Locked
  <2>1. \A j \in Jobs : tofu[j].state = "none"
    BY DEF Init, NoProcess
  <2>2. lock["stack"] = 0 /\ recorded["stack"] = {} /\ \A w \in Workspaces : lock[w] = 0
    BY DEF Init, Workspaces
  <2> QED BY <2>1, <2>2 DEF Locked, Going
<1> QED BY <1>3, <1>4, <1>5

\* The variables keep their types whatever goes wrong: no interleaving of jobs and
\* requests brings the directory, a command or a result into a state of no meaning.
THEOREM StackTyped == Spec => []TypeOK
<1>1. Init => Typed /\ Placed /\ Locked
  BY AtFirst
<1>2. Typed /\ Placed /\ Locked /\ [Next]_vars => Typed' /\ Placed' /\ Locked'
  BY NextIs, PlacedStep, LockedStep
<1>3. Typed /\ Locked => TypeOK
  <2> SUFFICES ASSUME Typed, Locked PROVE TypeOK
    OBVIOUS
  <2>2. Cardinality(file) <= 1
    <3>1. CASE file = {}
      BY <3>1, FS_EmptySet
    <3>2. CASE \E s : file = {s}
      <4>1. PICK s : file = {s}
        BY <3>2
      <4>2. Cardinality({s}) = 1
        BY FS_Singleton
      <4> QED BY <4>1, <4>2
    <3> QED BY <3>1, <3>2 DEF Typed
  <2> QED BY <2>2 DEF Typed, Locked, TypeOK, Directories, Results, Processes, Stages
<1> QED BY <1>1, <1>2, <1>3, PTL DEF Spec


-----------------------------------------------------------------------------
(* The faults against which the rest is proved: the cloud fails, a job is    *)
(* timed out wherever it is, and the directory of a built stack is lost,     *)
(* whenever they like.  The others break the properties one by one: a        *)
(* restart in a directory left on the default workspace, the directory lost  *)
(* during a build, terraform init refused, a workspace made and reported as  *)
(* failed, a cancellation that finds no process, a build begun beside a      *)
(* deletion.                                                                 *)

Usual == Faults \cap {"astray", "lost all", "init", "workspace", "early", "overlap"} = {}

Done == stage.finished /\ ~stage.failed
Building == cleanup = 0 /\ ~Done
Applies(j) == tofu[j].state = "working" /\ tofu[j].command = "apply"

\* The stack is empty, and stays so: nothing makes a resource any more.
Clear == recorded["stack"] = {} /\ \A j \in Jobs : ~Applies(j)

Early == {"queued", "files", "init", "new", "apply", "save"}

\* Who has gone how far: one build after the other, readers when one is done,
\* cleanups when the row says that it is finished.
InTurn ==
  /\ \A b \in Builds : b < build => at[b] = "over"
  /\ Done <=> result[build] = "done"
  /\ cleanup # 0 => stage.finished
  /\ \A r \in Readers : at[r] # "idle" => Done
  /\ at[build] \in Early => ~stage.finished /\ stage.pid = 0
  /\ at[build] = "applying" => stage.pid # 0 /\ (stage.finished => tofu[build].stopping)

\* What each process does, and that nothing is made in the default workspace.
AtWork ==
  /\ \A j \in Jobs : /\ tofu[j].state = "starting" => at[j] # "over"
                     /\ tofu[j].state \in Going => ~tofu[j].ok
                     /\ at[j] \in {"save", "applying"} => tofu[j].command = "apply"
                     /\ at[j] = "destroying" => tofu[j].command = "destroy"
                     /\ Applies(j) => tofu[j].in = "stack"
  /\ recorded["default"] = {}

\* Whoever leaves the stack behind has found it empty.
Vacates(j) ==
  \/ at[j] \in {"leave", "delete workspace", "remove"}
  \/ at[j] = "destroying" /\ tofu[j].state = "exited" /\ tofu[j].ok
  \/ at[j] = "destroying" /\ tofu[j].state = "working" /\ tofu[j].in = "default"
Heads(j) == at[j] = "destroy" \/ (at[j] = "destroying" /\ tofu[j].state = "starting")
Emptied ==
  /\ \A j \in Jobs : /\ Vacates(j) => Clear
                     /\ Heads(j) => dir.selected = "stack" \/ Clear
                     /\ at[j] = "select deletion" => dir.initialised \/ Clear
  /\ \A c \in Cleanups : result[c] = "done" => Clear

\* A build that is not yet done, or that has failed, is alone with the directory.
InHand ==
  /\ at[build] \notin Idle \union {"files"} => dir.there
  /\ at[build] \in {"new", "apply", "save", "applying", "select deletion", "destroy",
                    "destroying", "leave", "delete workspace", "remove"} => dir.initialised
  /\ at[build] \in {"apply", "save", "applying", "destroy", "destroying"} => "stack" \in workspaces
  /\ "stack" \in workspaces => dir.initialised
  /\ "stack" \in workspaces /\ at[build] \notin {"delete workspace", "over"} =>
       dir.selected = "stack"
  /\ at[build] = "leave" => lock["stack"] = 0
  /\ at[build] = "destroying" /\ tofu[build].state = "exited" /\ tofu[build].ok =>
       lock["stack"] = 0
  /\ at[build] = "destroying" /\ tofu[build].state = "working" => tofu[build].in = "stack"
  /\ at[build] = "delete workspace" => dir.selected = "default" /\ lock["stack"] = 0
  /\ at[build] = "remove" => "stack" \notin workspaces
  /\ result[build] = "build failed" => "stack" \notin workspaces /\ ~dir.there
  /\ at[build] \in {"save", "applying"} /\ tofu[build].state = "exited" /\ tofu[build].ok =>
       recorded["stack"] = Resources /\ lock["stack"] = 0
Built == Building => InHand

\* A build that is done has all its resources, until a cleanup is asked for.
Whole == Done /\ cleanup = 0 => recorded["stack"] = Resources /\ lock["stack"] = 0

\* Nothing is made while anybody reads, and what a file or a reader has got is the
\* state of the stack at an earlier time.
Read ==
  /\ \A r \in Readers : /\ at[r] # "idle" => \A j \in Jobs : ~Applies(j)
                        /\ at[r] \in {"pull", "write"} => dir.selected = "stack" \/ Clear
                        /\ answer[r] # {} => at[r] = "over"
  /\ file # {} => \E r \in Readers : at[r] # "idle"
  /\ \A s \in file : recorded["stack"] \subseteq s
  /\ ReadersTrue

\* A step of a job is one of the current build or of a cleanup that has been asked for.
LEMMA WhoMoves ==
  ASSUME Typed, Placed, InTurn, NEW j \in Jobs, Alone(j), JobMoves(j)
  PROVE  /\ at[j] \notin {"idle", "over"}
         /\ \/ j = build
            \/ /\ j \in Cleanups /\ j # build /\ cleanup # 0 /\ stage' = stage
               /\ at[j] \in {"queued"} \union DeletionSteps
<1> USE ActorsAre
<1>1. at[j] \notin {"idle", "over"}
  BY DEF JobMoves, Errs, Makes, Inits, Begins, Turns, Creates, Finds, Launches, Saves,
     Succeeds, Selects, Skips, Destroyed, Leaves, NotLeft, Drops, NotDropped, Removes, ReadSteps
<1>2. CASE j \in Builds
  <2>1. ~(j < build) /\ ~(j > build)
    BY <1>1, <1>2 DEF Placed, InTurn
  <2>2. j = build
    BY <1>2, <2>1 DEF Typed
  <2> QED BY <1>1, <2>2
<1>3. CASE j \in Cleanups
  <2>1. j # build /\ j \notin Builds
    BY <1>3 DEF Typed
  <2>2. ~(j > cleanup) /\ j \in Nat \ {0} /\ at[j] \in {"queued"} \union DeletionSteps
    BY <1>1, <1>3 DEF Placed, Idle
  <2>3. stage' = stage
    BY <2>1, <2>2 DEF JobMoves, Errs, Makes, Inits, Begins, Turns, Creates, Finds, Launches, Saves,
     Succeeds, Selects, Skips, Destroyed, Leaves, NotLeft, Drops, NotDropped, Removes, To, Over
  <2> QED BY <1>1, <1>3, <2>1, <2>2, <2>3
<1> QED BY <1>2, <1>3 DEF Jobs

\* What a step of the current build does to the row and to its process.
LEMMA BuildMoves ==
  ASSUME Typed, build \in Jobs, JobMoves(build)
  PROVE  /\ \/ /\ at'[build] = "over" /\ stage'.finished
               /\ stage'.failed <=> result'[build] # "done"
            \/ /\ result'[build] = result[build]
               /\ stage'.finished = stage.finished /\ stage'.failed = stage.failed
               /\ at'[build] # "over"
         /\ at'[build] \in Early => at[build] \in Early /\ stage'.pid = stage.pid
                                   /\ stage'.finished = stage.finished
         /\ at'[build] = "applying" => /\ at[build] = "save" /\ stage'.pid # 0
                                       /\ stage'.finished = stage.finished
<1> USE ActorsAre
<1>0. build # 0 /\ build \notin Cleanups
  BY DEF Typed
<1>1. CASE Errs(build) \/ Succeeds(build) \/ Removes(build)
  BY <1>1 DEF Errs, Succeeds, Removes, Over, Early
<1>2. CASE Begins(build) \/ Saves(build)
  BY <1>0, <1>2 DEF Begins, Saves, Early
<1>3. CASE \/ Makes(build) \/ Inits(build) \/ Turns(build) \/ Finds(build) \/ Launches(build)
           \/ Selects(build) \/ Skips(build) \/ Destroyed(build) \/ Leaves(build) \/ NotLeft(build)
           \/ Drops(build) \/ NotDropped(build)
  BY <1>3 DEF Makes, Inits, Turns, Finds, Launches, Selects, Skips, Destroyed, Leaves,
     NotLeft, Drops, NotDropped, To, Early
<1>4. CASE Creates(build)
  BY <1>4 DEF Creates, To, Early
<1> QED BY <1>1, <1>2, <1>3, <1>4 DEF JobMoves

LEMMA InTurnStep ==
  ASSUME Usual, Typed, Placed, AtWork, InTurn, [Next]_vars
  PROVE  InTurn'
<1> USE ActorsAre
<1>0. Typed' /\ Placed' /\ build \in Builds /\ build \in Jobs /\ build \in Actors
  BY NextIs, PlacedStep DEF Typed
<1>d. Done => at[build] = "over"
  BY <1>0 DEF InTurn, Placed
<1>1. CASE JobAct
  <2>1. PICK j \in Jobs : Alone(j) /\ JobMoves(j)
    BY <1>1 DEF JobAct
  <2>2. /\ \A b \in Actors : b # j => at'[b] = at[b] /\ result'[b] = result[b]
        /\ build' = build /\ cleanup' = cleanup /\ j \notin Readers
        /\ \A i \in Jobs : i # j => tofu'[i] = tofu[i]
    BY <2>1, JobWorks DEF Alone
  <2>3. \A b \in Builds : b < build => at'[b] = "over"
    BY <2>1, <2>2, WhoMoves DEF InTurn
  <2>4. CASE j # build
    <3>1. stage' = stage
      BY <2>1, <2>4, WhoMoves
    <3>2. at'[build] = at[build] /\ result'[build] = result[build] /\ tofu'[build] = tofu[build]
      BY <1>0, <2>2, <2>4
    <3> QED BY <2>2, <2>3, <3>1, <3>2 DEF InTurn, Done
  <2>5. CASE j = build
    <3>1. ~Done /\ at[build] # "over" /\ result[build] # "done"
      BY <1>d, <2>1, <2>5, WhoMoves DEF InTurn
    <3>2. \A r \in Readers : at'[r] = "idle"
      BY <2>2, <3>1 DEF InTurn
    <3>3. /\ Done' <=> result'[build] = "done"
          /\ cleanup # 0 => stage'.finished
      BY <2>1, <2>5, <3>1, BuildMoves, <1>0 DEF Done, InTurn
    <3>4. at'[build] \in Early => ~stage'.finished /\ stage'.pid = 0
      BY <2>1, <2>5, BuildMoves, <1>0 DEF InTurn
    <3>5. at'[build] = "applying" => stage'.pid # 0 /\ ~stage'.finished
      BY <2>1, <2>5, BuildMoves, <1>0 DEF InTurn, Early
    <3> QED BY <2>2, <2>3, <3>2, <3>3, <3>4, <3>5 DEF InTurn
  <2> QED BY <2>4, <2>5
<1>2. CASE ProcessAct
  <2>1. SamePlaces /\ tofu'[build].stopping = tofu[build].stopping
    BY <1>0, <1>2 DEF ProcessAct, OthersRun
  <2> QED BY <2>1 DEF SamePlaces, InTurn, Done
<1>3. CASE ReaderAct
  <2>1. PICK r \in Readers : Alone(r) /\ ReaderMoves(r)
    BY <1>3 DEF ReaderAct
  <2>2. /\ UNCHANGED <<tofu, build, cleanup, stage>>
        /\ \A b \in Actors : b # r => at'[b] = at[b] /\ result'[b] = result[b]
        /\ \A j \in Jobs : at'[j] = at[j] /\ result'[j] = result[j]
    BY <2>1, ReaderLeaves
  <2>3. Done
    BY <2>1 DEF ReaderMoves, Asks, Makes, Inits, Looks, Truncates, Pulls, Answers, Errs, InTurn,
       Done, ReadSteps
  <2> QED BY <1>0, <2>2, <2>3 DEF InTurn, Done
<1>4. CASE Cancels
  <2>1. /\ ~stage.finished /\ stage'.finished /\ stage'.failed /\ stage'.pid = stage.pid
        /\ UNCHANGED <<build, cleanup, result>>
        /\ \A a \in Actors : a # build => at'[a] = at[a]
        /\ build \notin Readers
    BY <1>0, <1>4 DEF Cancels
  <2>2. \A b \in Builds : b < build => b # build
    BY <1>0
  <2>3. at'[build] \notin Early
    <3>1. "early" \notin Faults
      BY DEF Usual
    <3>2. at[build] \in Early /\ at[build] # "queued" => stage.pid = 0 /\ at[build] \notin DeletionSteps
      BY DEF InTurn, Early, DeletionSteps
    <3>3. at[build] = "queued" => at'[build] = "over"
      BY <1>4 DEF Cancels
    <3>4. at[build] # "queued" => at'[build] = at[build]
      BY <1>0, <1>4 DEF Cancels
    <3>5. "over" \notin Early
      BY DEF Early
    <3> QED BY <1>4, <3>1, <3>2, <3>3, <3>4, <3>5 DEF Cancels
  <2>4. at'[build] = "applying" => stage.pid # 0 /\ tofu'[build].stopping
    <3>1. at'[build] = "applying" => at[build] = "applying"
      BY <1>0, <1>4 DEF Cancels
    <3> QED BY <1>0, <1>4, <3>1 DEF Cancels, InTurn, AtWork
  <2> QED BY <2>1, <2>2, <2>3, <2>4 DEF InTurn, Done
<1>5. CASE Restarts /\ build' \in Builds
  <2>1. at[build] = "over" /\ ~Done
    BY <1>5 DEF Restarts, Usual, Done
  <2>2. /\ build' = build + 1 /\ cleanup' = 0 /\ result' = result
        /\ \A a \in Actors : a # build' => at'[a] = at[a]
        /\ at'[build'] = "queued" /\ ~stage'.finished /\ stage'.pid = 0
    BY <1>5 DEF Restarts
  <2>3. \A b \in Builds : b < build' => b # build' /\ (b < build \/ b = build)
    BY <1>0, <2>2
  <2>4. result[build'] = "none"
    <3>1. at[build'] = "idle" /\ build' \in Actors
      BY <1>0, <1>5, <2>2 DEF Placed
    <3> QED BY <3>1 DEF Placed
  <2>5. \A r \in Readers : at'[r] = "idle"
    BY <1>5, <2>1, <2>2 DEF InTurn
  <2> QED BY <1>0, <2>1, <2>2, <2>3, <2>4, <2>5 DEF InTurn, Done
<1>6. CASE CleansUp
  <2>1. /\ UNCHANGED <<result, stage, build, tofu>> /\ stage.finished
        /\ cleanup' \in Cleanups /\ \A a \in Actors : a # cleanup' => at'[a] = at[a]
    BY <1>6 DEF CleansUp
  <2>2. \A b \in Builds : at'[b] = at[b]
    <3>1. \A b \in Builds : b < cleanup' /\ b # cleanup' /\ b \in Actors
      BY <2>1
    <3> QED BY <2>1, <3>1
  <2>3. \A r \in Readers : at'[r] = at[r]
    BY <2>1
  <2> QED BY <1>0, <2>1, <2>2, <2>3 DEF InTurn, Done
<1>7. CASE Loses \/ UNCHANGED vars
  BY <1>7 DEF Loses, vars, InTurn, Done
<1> QED BY <1>1, <1>2, <1>3, <1>4, <1>5, <1>6, <1>7, NextIs


\* Terraform starts to make something only for the current build, before anything
\* else is asked for, and in the workspace of the stack.
LEMMA NewApply ==
  ASSUME Typed, Placed, InTurn, AtWork, Built,
         NEW j \in Jobs, Locks(j), tofu[j].command = "apply", Locked
  PROVE  /\ j = build /\ ~stage.finished /\ cleanup = 0 /\ Building
         /\ at[build] \in {"save", "applying"} /\ dir.selected = "stack"
<1> USE ActorsAre
<1>1. at[j] \in {"save", "applying", "destroying"} /\ ~tofu[j].stopping
  BY DEF Locks, Locked, AtWork, Going
<1>2. at[j] \in {"save", "applying"}
  BY <1>1 DEF AtWork
<1>3. j = build
  <2>1. j \in Builds
    BY <1>2 DEF Placed, Jobs, Idle, DeletionSteps
  <2>2. ~(j < build) /\ ~(j > build)
    BY <1>2, <2>1 DEF InTurn, Placed
  <2> QED BY <2>1, <2>2 DEF Typed
<1>4. ~stage.finished
  BY <1>1, <1>2, <1>3 DEF InTurn, Early
<1>5. cleanup = 0 /\ Building
  BY <1>4 DEF InTurn, Building, Done
<1>6. dir.selected = "stack"
  BY <1>2, <1>3, <1>5 DEF Built, InHand
<1> QED BY <1>2, <1>3, <1>4, <1>5, <1>6

LEMMA AtWorkStep ==
  ASSUME Usual, Typed, Placed, Locked, InTurn, AtWork, Built, [Next]_vars
  PROVE  AtWork'
<1> USE ActorsAre
<1>0. Typed' /\ build \in Builds /\ build \in Jobs
  BY NextIs DEF Typed
<1>1. CASE JobAct
  <2>1. PICK j \in Jobs : Alone(j) /\ JobMoves(j)
    BY <1>1 DEF JobAct
  <2>2. /\ \A b \in Actors : b # j => at'[b] = at[b] /\ result'[b] = result[b]
        /\ \A i \in Jobs : i # j => tofu'[i] = tofu[i]
        /\ recorded' = recorded
    BY <2>1, JobWorks DEF Alone
  <2>3. CASE tofu'[j] = tofu[j]
    <3>1. tofu[j].state = "starting" => at'[j] # "over"
      BY <2>1, WhoMoves DEF JobMoves, Errs, Makes, Inits, Begins, Turns, Creates, Finds, Launches,
        Saves, Succeeds, Selects, Skips, Destroyed, Leaves, NotLeft, Drops, NotDropped, Removes, To,
        Over, AtWork, Locked, Going, ReadSteps, DeletionSteps
    <3>2. /\ at'[j] \in {"save", "applying"} => at[j] \in {"save", "applying"} \/ Launches(j)
          /\ at'[j] = "destroying" => Launches(j)
      BY <2>1 DEF JobMoves, Errs, Makes, Inits, Begins, Turns, Creates, Finds,
        Saves, Succeeds, Selects, Skips, Destroyed, Leaves, NotLeft, Drops, NotDropped, Removes, To,
        Over
    <3>3. CASE Launches(j)
      BY <2>2, <3>1, <3>3 DEF AtWork, Applies, Launches, To, Going
    <3>4. CASE ~Launches(j)
      <4>1. /\ tofu[j].state = "starting" => at'[j] # "over"
            /\ at'[j] \in {"save", "applying"} => tofu[j].command = "apply"
            /\ at'[j] = "destroying" => tofu[j].command = "destroy"
        BY <3>1, <3>2, <3>4 DEF AtWork
      <4>2. \A i \in Jobs : tofu'[i] = tofu[i]
        BY <2>2, <2>3
      <4>3. \A i \in Jobs : /\ tofu[i].state = "starting" => at'[i] # "over"
                            /\ at'[i] \in {"save", "applying"} => tofu[i].command = "apply"
                            /\ at'[i] = "destroying" => tofu[i].command = "destroy"
        BY <2>2, <4>1 DEF AtWork
      <4> QED BY <2>2, <4>2, <4>3 DEF AtWork, Applies
    <3> QED BY <3>3, <3>4
  <2>4. CASE Launches(j)
    BY <2>2, <2>4 DEF AtWork, Applies, Launches, To, Going
  <2>5. tofu'[j] = tofu[j] \/ Launches(j)
    BY <2>1 DEF JobMoves, Errs, Makes, Inits, Begins, Turns, Creates, Finds, Saves, SameFiles,
     Succeeds, Selects, Skips, Destroyed, Leaves, NotLeft, Drops, NotDropped, Removes
  <2> QED BY <2>3, <2>4, <2>5
<1>2. CASE ProcessAct
  <2>1. PICK j \in Jobs : SamePlaces /\ OthersRun(j)
                          /\ (Locks(j) \/ GivesUp(j) \/ Exits(j) \/ Changes(j))
    BY <1>2 DEF ProcessAct
  <2>2. at' = at /\ tofu'[j].command = tofu[j].command /\ \A i \in Jobs : i # j => tofu'[i] = tofu[i]
    BY <2>1 DEF SamePlaces, OthersRun
  <2>3. CASE Locks(j)
    <3>1. /\ tofu'[j].state = "working" /\ tofu'[j].in = dir.selected /\ tofu[j].state = "starting"
          /\ tofu'[j].ok = tofu[j].ok /\ recorded' = recorded
      BY <2>3 DEF Locks
    <3>2. tofu[j].command = "apply" => dir.selected = "stack"
      BY <2>3, NewApply
    <3> QED BY <2>2, <3>1, <3>2 DEF AtWork, Applies, Going
  <2>4. CASE GivesUp(j) \/ Exits(j)
    BY <2>2, <2>4 DEF GivesUp, Exits, AtWork, Applies, Going
  <2>5. CASE Changes(j)
    <3>1. "default" \in Workspaces
      BY DEF Workspaces
    <3>2. recorded'["default"] = {}
      BY <2>5, <3>1 DEF Changes, AtWork, Applies
    <3> QED BY <2>2, <2>5, <3>2 DEF Changes, AtWork, Applies
  <2> QED BY <2>1, <2>3, <2>4, <2>5
<1>3. CASE ReaderAct
  <2>1. PICK r \in Readers : Alone(r) /\ ReaderMoves(r)
    BY <1>3 DEF ReaderAct
  <2>2. UNCHANGED <<tofu, recorded>> /\ \A j \in Jobs : at'[j] = at[j]
    BY <2>1, ReaderLeaves
  <2> QED BY <2>2 DEF AtWork, Applies
<1>4. CASE Cancels
  <2>1. /\ \A i \in Jobs : /\ tofu'[i].state = tofu[i].state /\ tofu'[i].in = tofu[i].in
                           /\ tofu'[i].ok = tofu[i].ok /\ tofu'[i].command = tofu[i].command
        /\ \A i \in Jobs : at'[i] = at[i] \/ (at'[i] = "over" /\ at[i] = "queued")
        /\ recorded' = recorded
    BY <1>4 DEF Cancels
  <2>2. \A i \in Jobs : at[i] = "queued" => tofu[i].state \notin Going
    BY DEF Locked
  <2> QED BY <2>1, <2>2 DEF AtWork, Applies, Going
<1>5. CASE Restarts /\ build' \in Builds
  <2>1. /\ \A a \in Actors : a # build' => at'[a] = at[a]
        /\ at'[build'] = "queued" /\ UNCHANGED <<tofu, recorded>>
    BY <1>5 DEF Restarts
  <2> QED BY <2>1 DEF AtWork, Applies
<1>6. CASE CleansUp
  <2>1. /\ \A a \in Actors : a # cleanup' => at'[a] = at[a]
        /\ at'[cleanup'] = "queued" /\ UNCHANGED <<tofu, recorded>>
    BY <1>6 DEF CleansUp
  <2> QED BY <2>1 DEF AtWork, Applies
<1>7. CASE Loses \/ UNCHANGED vars
  BY <1>7 DEF Loses, vars, AtWork, Applies
<1> QED BY <1>1, <1>2, <1>3, <1>4, <1>5, <1>6, <1>7, NextIs


\* The stack stays empty unless terraform starts to make something.
LEMMA ClearStays ==
  ASSUME Typed, Placed, Clear, [Next]_vars,
         \A j \in Jobs : Locks(j) => tofu[j].command # "apply"
  PROVE  Clear'
<1> USE ActorsAre
<1>0. "stack" \in Workspaces
  BY DEF Workspaces
<1>1. CASE JobAct
  <2>1. PICK j \in Jobs : Alone(j) /\ JobMoves(j)
    BY <1>1 DEF JobAct
  <2>2. \A i \in Jobs : i # j => tofu'[i] = tofu[i]
    BY <2>1, JobWorks
  <2>3. tofu'[j] = tofu[j] \/ tofu'[j].state = "starting"
    BY <2>1, JobWorks
  <2>4. \A i \in Jobs : ~Applies(i)'
    BY <2>2, <2>3 DEF Clear, Applies
  <2>5. recorded' = recorded
    BY <2>1 DEF Alone
  <2> QED BY <2>4, <2>5 DEF Clear
<1>2. CASE ProcessAct
  <2>1. PICK j \in Jobs : OthersRun(j) /\ (Locks(j) \/ GivesUp(j) \/ Exits(j) \/ Changes(j))
    BY <1>2 DEF ProcessAct
  <2>2. CASE Locks(j) \/ GivesUp(j) \/ Exits(j)
    BY <2>1, <2>2 DEF OthersRun, Locks, GivesUp, Exits, Clear, Applies
  <2>3. CASE Changes(j)
    <3>1. tofu[j].command # "apply"
      BY <2>3 DEF Changes, Clear, Applies
    <3>2. recorded'["stack"] = {}
      BY <1>0, <2>3, <3>1 DEF Changes, Clear
    <3> QED BY <2>3, <3>2 DEF Changes, Clear, Applies
  <2> QED BY <2>1, <2>2, <2>3
<1>3. CASE ReaderAct
  <2>1. PICK r \in Readers : Alone(r) /\ ReaderMoves(r)
    BY <1>3 DEF ReaderAct
  <2> QED BY <2>1, ReaderLeaves DEF Clear, Applies
<1>4. CASE Cancels
  <2>1. /\ \A i \in Jobs : tofu'[i].state = tofu[i].state /\ tofu'[i].command = tofu[i].command
        /\ recorded' = recorded
    BY <1>4 DEF Cancels
  <2> QED BY <2>1 DEF Clear, Applies
<1>5. CASE Restarts \/ CleansUp \/ Loses \/ UNCHANGED vars
  BY <1>5 DEF Restarts, CleansUp, Loses, vars, Clear, Applies
<1> QED BY <1>1, <1>2, <1>3, <1>4, <1>5, NextIs

\* What a job does to the directory.
LEMMA JobFiles ==
  ASSUME Typed, NEW j \in Jobs, Alone(j), JobMoves(j)
  PROVE  /\ dir.selected = "stack" => dir'.selected = "stack" \/ at[j] \in {"leave", "remove"}
         /\ dir.initialised => dir'.initialised \/ at[j] = "remove"
         /\ dir.there => dir'.there \/ at[j] = "remove"
         /\ file' = file \/ file' = {}
<1>1. file' = file \/ file' = {}
  BY DEF JobMoves, Errs, Makes, Inits, Begins, Turns, Creates, Finds, Launches,
     Saves, Succeeds, Selects, Skips, Destroyed, Leaves, NotLeft, Drops, NotDropped, Removes, SameFiles
<1>2. CASE \/ Errs(j) \/ Begins(j) \/ Turns(j) \/ Finds(j) \/ Launches(j) \/ Saves(j) \/ Succeeds(j)
           \/ Skips(j) \/ Destroyed(j) \/ NotLeft(j) \/ Drops(j) \/ NotDropped(j)
  <2>1. dir' = dir
    BY <1>2 DEF Errs, Begins, Turns, Finds, Launches,
       Saves, Succeeds, Skips, Destroyed, NotLeft, Drops, NotDropped, SameFiles
  <2> QED BY <1>1, <2>1
<1>3. CASE Makes(j) \/ Inits(j) \/ Creates(j) \/ Selects(j) \/ Leaves(j) \/ Removes(j)
  BY <1>1, <1>3 DEF Makes, Inits, Creates, Selects, Leaves, Removes, Selected
<1> QED BY <1>2, <1>3 DEF JobMoves

\* Without its workspace the stack is empty.
LEMMA NoWorkspace ==
  ASSUME Typed, Locked, AtWork, "stack" \notin workspaces
  PROVE  Clear /\ lock["stack"] = 0
<1>1. recorded["stack"] = {} /\ lock["stack"] = 0
  BY DEF Locked
<1>2. ASSUME NEW j \in Jobs, Applies(j) PROVE FALSE
  <2>1. lock["stack"] = j
    BY <1>2 DEF AtWork, Applies, Locked
  <2> QED BY <1>1, <2>1, ActorsAre
<1> QED BY <1>1, <1>2 DEF Clear

\* Who holds the lock on the state of the stack is the only one that works on it.
LEMMA NobodyApplies ==
  ASSUME Typed, Locked, AtWork, NEW j \in Jobs \union {0}, lock["stack"] = j,
         j \in Jobs => ~Applies(j)
  PROVE  \A i \in Jobs : ~Applies(i)
<1> SUFFICES ASSUME NEW i \in Jobs, Applies(i) PROVE FALSE
  OBVIOUS
<1>1. lock["stack"] = i
  BY DEF AtWork, Applies, Locked
<1> QED BY <1>1, ActorsAre

LEMMA EmptiedStep ==
  ASSUME Usual, Typed, Placed, Locked, InTurn, AtWork, Emptied, Built, [Next]_vars
  PROVE  Emptied'
<1> USE ActorsAre
<1>0. Typed' /\ build \in Builds /\ build \in Jobs /\ "stack" \in Workspaces /\ "init" \notin Faults
  BY NextIs DEF Typed, Workspaces, Usual
<1>1. CASE JobAct
  <2>1. PICK j \in Jobs : Alone(j) /\ JobMoves(j)
    BY <1>1 DEF JobAct
  <2>2. /\ \A b \in Actors : b # j => at'[b] = at[b] /\ result'[b] = result[b]
        /\ \A i \in Jobs : i # j => tofu'[i] = tofu[i]
        /\ \A i \in Jobs : Applies(i)' => Applies(i)
        /\ recorded' = recorded
    BY <2>1, JobWorks DEF Alone, Applies
  <2>3. Clear => Clear'
    BY <2>2 DEF Clear
  <2>4. at'[j] \in {"leave", "delete workspace", "remove"} => Clear
    <3>1. at'[j] \in {"leave", "delete workspace", "remove"} =>
            \/ Vacates(j)
            \/ at[j] = "select deletion" /\ (~dir.initialised \/ "stack" \notin workspaces)
      BY <1>0, <2>1, WhoMoves DEF JobMoves, Errs, Makes, Inits, Begins, Turns, Creates, Finds, Launches,
       Saves, Succeeds, Selects, Skips, Destroyed, Leaves, NotLeft, Drops, NotDropped, Removes, To,
       Over, Vacates
    <3> QED BY <3>1, NoWorkspace DEF Emptied
  <2>5. at'[j] = "destroying" => tofu'[j].state = "starting" /\ at[j] = "destroy" /\ dir' = dir
    BY <2>1, WhoMoves DEF JobMoves, Errs, Makes, Inits, Begins, Turns, Creates, Finds, Launches,
       Saves, Succeeds, Selects, Skips, Destroyed, Leaves, NotLeft, Drops, NotDropped, Removes, To,
       Over
  <2>6. at'[j] = "destroy" => dir'.selected = "stack"
    BY <2>1, WhoMoves DEF JobMoves, Errs, Makes, Inits, Begins, Turns, Creates, Finds, Launches,
       Saves, Succeeds, Selects, Skips, Destroyed, Leaves, NotLeft, Drops, NotDropped, Removes, To,
       Over, Selected
  <2>7. at'[j] = "select deletion" => dir'.initialised
    BY <2>1, WhoMoves DEF JobMoves, Errs, Makes, Inits, Begins, Turns, Creates, Finds, Launches,
       Saves, Succeeds, Selects, Skips, Destroyed, Leaves, NotLeft, Drops, NotDropped, Removes, To,
       Over
  <2>8. j \in Cleanups /\ result'[j] = "done" => at[j] = "remove" \/ result[j] = "done"
    <3> SUFFICES ASSUME j \in Cleanups PROVE result'[j] = "done" => at[j] = "remove" \/ result[j] = "done"
      OBVIOUS
    <3>1. at[j] \in {"queued"} \union DeletionSteps /\ j \notin Builds
      BY <1>0, <2>1, WhoMoves
    <3> QED BY <2>1, <3>1 DEF JobMoves, Errs, Makes, Inits, Begins, Turns, Creates, Finds, Launches,
       Saves, Succeeds, Selects, Skips, Destroyed, Leaves, NotLeft, Drops, NotDropped, Removes, To,
       Over, DeletionSteps
  <2>9. /\ at[j] \in {"leave", "remove"} => Clear
        /\ dir.selected = "stack" => dir'.selected = "stack" \/ Clear
        /\ dir.initialised => dir'.initialised \/ Clear
    BY <2>1, JobFiles DEF Emptied, Vacates
  <2>10. (Vacates(j)' => Clear') /\ (Heads(j)' => dir'.selected = "stack" \/ Clear')
         /\ (at'[j] = "select deletion" => dir'.initialised \/ Clear')
    BY <2>3, <2>4, <2>5, <2>6, <2>7, <2>9 DEF Vacates, Heads, Emptied
  <2>11. ASSUME NEW i \in Jobs, i # j
         PROVE  /\ Vacates(i)' => Clear'
                /\ Heads(i)' => dir'.selected = "stack" \/ Clear'
                /\ at'[i] = "select deletion" => dir'.initialised \/ Clear'
    <3>1. at'[i] = at[i] /\ tofu'[i] = tofu[i]
      BY <2>2, <2>11
    <3>2. (Vacates(i)' <=> Vacates(i)) /\ (Heads(i)' <=> Heads(i))
      BY <3>1 DEF Vacates, Heads
    <3> QED BY <2>3, <2>9, <3>1, <3>2 DEF Emptied
  <2>12. \A c \in Cleanups : result'[c] = "done" => Clear'
    BY <2>2, <2>3, <2>8, <2>9 DEF Emptied
  <2> QED BY <2>10, <2>11, <2>12 DEF Emptied
<1>2. CASE ProcessAct
  <2>1. PICK j \in Jobs : SamePlaces /\ OthersRun(j)
                          /\ (Locks(j) \/ GivesUp(j) \/ Exits(j) \/ Changes(j))
    BY <1>2 DEF ProcessAct
  <2>2. UNCHANGED <<at, dir, result, build>> /\ \A i \in Jobs : i # j => tofu'[i] = tofu[i]
    BY <2>1 DEF SamePlaces, OthersRun
  <2>3. CASE Locks(j) /\ tofu[j].command = "apply"
    <3>1. j = build /\ cleanup = 0 /\ at[build] \in {"save", "applying"}
      BY <2>3, NewApply
    <3>2. \A i \in Jobs : ~Vacates(i)' /\ ~Heads(i)' /\ at'[i] # "select deletion"
      <4> SUFFICES ASSUME NEW i \in Jobs
                   PROVE  at[i] \in {"idle", "over", "save", "applying"}
        BY <2>2 DEF Vacates, Heads
      <4>1. CASE i \in Builds
        <5>1. i < build \/ i > build \/ i = build
          BY <1>0, <4>1
        <5> QED BY <3>1, <4>1, <5>1 DEF InTurn, Placed
      <4>2. CASE i \in Cleanups
        <5>1. i > cleanup
          BY <3>1, <4>2
        <5> QED BY <4>2, <5>1 DEF Placed
      <4> QED BY <4>1, <4>2 DEF Jobs
    <3>3. \A c \in Cleanups : result[c] # "done"
      <4>1. \A c \in Cleanups : at[c] = "idle" /\ c \in Actors
        BY <3>1 DEF Placed
      <4> QED BY <4>1 DEF Placed
    <3> QED BY <2>2, <3>2, <3>3 DEF Emptied
  <2>4. CASE ~(Locks(j) /\ tofu[j].command = "apply")
    <3>1. Clear => Clear'
      <4> SUFFICES ASSUME Clear PROVE Clear'
        OBVIOUS
      <4>1. \A i \in Jobs : Locks(i) => i = j
        BY <2>1, <2>2 DEF Locks
      <4> QED BY <2>4, <4>1, ClearStays
    <3>2. ASSUME NEW i \in Jobs, i # j
          PROVE  /\ Vacates(i)' => Clear'
                 /\ Heads(i)' => dir'.selected = "stack" \/ Clear'
                 /\ at'[i] = "select deletion" => dir'.initialised \/ Clear'
      <4>1. (Vacates(i)' <=> Vacates(i)) /\ (Heads(i)' <=> Heads(i)) /\ at'[i] = at[i]
        BY <2>2, <3>2 DEF Vacates, Heads
      <4> QED BY <2>2, <3>1, <4>1 DEF Emptied
    <3>3. /\ Heads(j)' => dir'.selected = "stack" \/ Clear'
          /\ at'[j] = "select deletion" => dir'.initialised \/ Clear'
      <4>1. Heads(j)' => Heads(j)
        BY <2>1, <2>2 DEF Heads, Locks, GivesUp, Exits, Changes
      <4> QED BY <2>2, <3>1, <4>1 DEF Emptied
    <3>4. Vacates(j)' => Vacates(j) \/ Clear'
      <4>1. CASE Locks(j)
        <5>1. CASE at[j] = "destroying" /\ dir.selected = "default"
          <6>1. Clear
            BY <4>1, <5>1 DEF Locks, Heads, Emptied
          <6> QED BY <3>1, <6>1
        <5>2. CASE ~(at[j] = "destroying" /\ dir.selected = "default")
          BY <2>2, <4>1, <5>2 DEF Locks, Vacates
        <5> QED BY <5>1, <5>2
      <4>2. CASE GivesUp(j)
        BY <2>2, <4>2 DEF GivesUp, Vacates, AtWork, Going
      <4>3. CASE Changes(j)
        BY <2>2, <4>3 DEF Changes, Vacates
      <4>4. CASE Exits(j)
        <5>1. CASE at[j] = "destroying" /\ tofu'[j].ok /\ tofu[j].in = "stack"
          <6>1. tofu[j].command = "destroy" /\ recorded["stack"] = {} /\ recorded' = recorded
            BY <4>4, <5>1 DEF Exits, AtWork
          <6>2. lock["stack"] = j /\ ~Applies(j)
            BY <4>4, <5>1, <6>1 DEF Exits, Locked, Applies
          <6>3. Clear
            BY <6>1, <6>2, NobodyApplies DEF Clear
          <6> QED BY <3>1, <6>3
        <5>2. CASE at[j] = "destroying" /\ tofu[j].in = "default"
          BY <4>4, <5>2 DEF Exits, Vacates
        <5>3. CASE at[j] # "destroying"
          BY <2>2, <5>3 DEF Vacates
        <5>4. CASE ~tofu'[j].ok
          BY <2>2, <4>4, <5>4 DEF Vacates, Exits
        <5>5. tofu[j].in \in {"stack", "default"}
          BY DEF Typed, Processes, Workspaces
        <5> QED BY <5>1, <5>2, <5>3, <5>4, <5>5
      <4> QED BY <2>1, <4>1, <4>2, <4>3, <4>4
    <3> QED BY <2>2, <3>1, <3>2, <3>3, <3>4 DEF Emptied
  <2> QED BY <2>3, <2>4
<1>3. CASE ReaderAct
  <2>1. PICK r \in Readers : Alone(r) /\ ReaderMoves(r)
    BY <1>3 DEF ReaderAct
  <2>2. UNCHANGED <<tofu, recorded>> /\ \A j \in Jobs : at'[j] = at[j] /\ result'[j] = result[j]
    BY <2>1, ReaderLeaves
  <2>3. /\ dir.selected = "stack" => dir'.selected = "stack"
        /\ dir.initialised => dir'.initialised
    BY <2>1 DEF ReaderMoves, Asks, Makes, Inits, Looks, Truncates, Pulls, Answers, Errs, SameFiles, Selected
  <2>4. Clear' <=> Clear
    BY <2>2 DEF Clear, Applies
  <2> QED BY <2>2, <2>3, <2>4 DEF Emptied, Vacates, Heads
<1>4. CASE Cancels
  <2>1. /\ \A i \in Jobs : /\ tofu'[i].state = tofu[i].state /\ tofu'[i].in = tofu[i].in
                           /\ tofu'[i].ok = tofu[i].ok /\ tofu'[i].command = tofu[i].command
        /\ \A i \in Jobs : at'[i] = at[i] \/ at'[i] = "over"
        /\ UNCHANGED <<recorded, dir, result>>
    BY <1>4 DEF Cancels
  <2>2. Clear' <=> Clear
    BY <2>1 DEF Clear, Applies
  <2> QED BY <2>1, <2>2 DEF Emptied, Vacates, Heads
<1>5. CASE Restarts \/ CleansUp
  <2>1. /\ \A i \in Jobs : at'[i] = at[i] \/ at'[i] = "queued"
        /\ UNCHANGED <<recorded, dir, result, tofu>>
    BY <1>5 DEF Restarts, CleansUp
  <2>2. Clear' <=> Clear
    BY <2>1 DEF Clear, Applies
  <2> QED BY <2>1, <2>2 DEF Emptied, Vacates, Heads
<1>6. CASE Loses
  <2>1. UNCHANGED <<recorded, at, result, tofu>> /\ \A i \in Jobs : at[i] \in Idle
    BY <1>6 DEF Loses
  <2>2. Clear' <=> Clear
    BY <2>1 DEF Clear, Applies
  <2> QED BY <2>1, <2>2 DEF Emptied, Vacates, Heads, Idle
<1>7. CASE UNCHANGED vars
  <2>1. (Clear' <=> Clear) /\ UNCHANGED <<at, result, tofu, dir>>
    BY <1>7 DEF vars, Clear, Applies
  <2> QED BY <2>1 DEF Emptied, Vacates, Heads
<1> QED BY <1>1, <1>2, <1>3, <1>4, <1>5, <1>6, <1>7, NextIs


LEMMA WholeStep ==
  ASSUME Usual, Typed, Placed, Locked, InTurn, AtWork, Emptied, Built, Whole, [Next]_vars
  PROVE  Whole'
<1> USE ActorsAre
<1>0. Typed' /\ build \in Builds /\ build \in Jobs /\ build \in Actors /\ "stack" \in Workspaces
  BY NextIs DEF Typed, Workspaces
<1>1. CASE JobAct
  <2>1. PICK j \in Jobs : Alone(j) /\ JobMoves(j)
    BY <1>1 DEF JobAct
  <2>2. UNCHANGED <<recorded, lock, build, cleanup>>
    BY <2>1 DEF Alone
  <2>3. CASE j # build
    BY <2>1, <2>2, <2>3, WhoMoves DEF Whole
  <2>4. CASE j = build
    <3>1. result[build] = "none" /\ ~Done
      BY <1>0, <2>1, <2>4, WhoMoves DEF Placed, InTurn
    <3>2. CASE Succeeds(build)
      BY <2>2, <3>1, <3>2 DEF Succeeds, Built, InHand, Building, Whole
    <3>3. CASE ~Succeeds(build)
      <4>1. \/ stage'.failed
            \/ stage'.finished = stage.finished /\ stage'.failed = stage.failed
        <5>1. build \notin Cleanups
          BY <1>0
        <5> QED BY <1>0, <2>1, <2>4, <3>3, <5>1 DEF JobMoves, Errs, Makes, Inits, Begins, Turns,
          Creates, Finds, Launches, Saves, Selects, Skips, Destroyed, Leaves, NotLeft, Drops,
          NotDropped, Removes, To, Over
      <4> QED BY <3>1, <4>1 DEF Done, Whole
    <3> QED BY <3>2, <3>3
  <2> QED BY <2>3, <2>4
<1>2. CASE ProcessAct
  <2>1. PICK j \in Jobs : SamePlaces /\ (Locks(j) \/ GivesUp(j) \/ Exits(j) \/ Changes(j))
    BY <1>2 DEF ProcessAct
  <2>2. SUFFICES ASSUME Done, cleanup = 0
                 PROVE  recorded'["stack"] = recorded["stack"] /\ lock'["stack"] = lock["stack"]
    BY <2>1 DEF SamePlaces, Whole, Done
  <2>3. lock["stack"] = 0
    BY <2>2 DEF Whole
  <2>4. at[j] \in {"idle", "over"}
    <3>1. at[build] = "over"
      BY <1>0, <2>2 DEF InTurn, Placed
    <3>2. CASE j \in Builds
      <4>1. j < build \/ j > build \/ j = build
        BY <1>0, <3>2
      <4> QED BY <3>1, <3>2, <4>1 DEF InTurn, Placed
    <3>3. CASE j \in Cleanups
      <4>1. j > cleanup
        BY <2>2, <3>3
      <4> QED BY <3>3, <4>1 DEF Placed
    <3> QED BY <3>2, <3>3 DEF Jobs
  <2>5. tofu[j].state # "starting"
    BY <2>4 DEF Locked, Going, AtWork
  <2>6. tofu[j].state = "working" => tofu[j].in # "stack"
    BY <2>3 DEF Locked
  <2> QED BY <1>0, <2>1, <2>5, <2>6 DEF Locks, GivesUp, Exits, Changes
<1>3. CASE ReaderAct
  <2>1. PICK r \in Readers : Alone(r) /\ ReaderMoves(r)
    BY <1>3 DEF ReaderAct
  <2> QED BY <2>1, ReaderLeaves DEF Whole, Done
<1>4. CASE Cancels \/ Restarts \/ CleansUp
  <2>1. \A c \in Cleanups : c # 0
    OBVIOUS
  <2> QED BY <1>4, <2>1 DEF Cancels, Restarts, CleansUp, Whole, Done
<1>5. CASE Loses \/ UNCHANGED vars
  BY <1>5 DEF Loses, vars, Whole, Done
<1> QED BY <1>1, <1>2, <1>3, <1>4, <1>5, NextIs

LEMMA ReadStep ==
  ASSUME Usual, Typed, Placed, Locked, InTurn, AtWork, Emptied, Built, Whole, Read, [Next]_vars
  PROVE  Read'
<1> USE ActorsAre
<1>0. Typed' /\ build \in Builds /\ build \in Jobs /\ build \in Actors /\ "stack" \in Workspaces
  BY NextIs DEF Typed, Workspaces
<1>1. CASE JobAct
  <2>1. PICK j \in Jobs : Alone(j) /\ JobMoves(j) /\ answer' = answer
    BY <1>1 DEF JobAct
  <2>2. /\ \A r \in Readers : at'[r] = at[r]
        /\ recorded' = recorded
    BY <2>1 DEF Alone
  <2>3. \A i \in Jobs : ~Applies(i) => ~Applies(i)'
    <3>1. \A i \in Jobs : tofu'[i] = tofu[i] \/ tofu'[i].state = "starting"
      BY <2>1, JobWorks
    <3> QED BY <3>1 DEF Applies
  <2>4. Clear => Clear'
    BY <2>2, <2>3 DEF Clear
  <2>5. dir.selected = "stack" => dir'.selected = "stack" \/ Clear
    BY <2>1, JobFiles DEF Emptied, Vacates
  <2>6. file' = file \/ file' = {}
    BY <2>1, JobFiles
  <2> QED BY <2>1, <2>2, <2>3, <2>4, <2>5, <2>6 DEF Read, ReadersTrue
<1>2. CASE ProcessAct
  <2>1. PICK j \in Jobs : SamePlaces /\ OthersRun(j)
                          /\ (Locks(j) \/ GivesUp(j) \/ Exits(j) \/ Changes(j))
    BY <1>2 DEF ProcessAct
  <2>2. UNCHANGED <<at, dir, file, answer>>
    BY <2>1 DEF SamePlaces
  <2>3. \A i \in Jobs : i # j => tofu'[i] = tofu[i]
    BY <2>1 DEF OthersRun
  <2>4. CASE Locks(j) /\ tofu[j].command = "apply"
    <3>1. \A r \in Readers : at[r] = "idle"
      BY <2>4, NewApply DEF InTurn, Done
    <3>2. file = {} /\ \A r \in Readers : answer[r] = {}
      BY <3>1 DEF Read
    <3> QED BY <2>2, <3>1, <3>2 DEF Read, ReadersTrue
  <2>5. CASE ~(Locks(j) /\ tofu[j].command = "apply")
    <3>1. Clear => Clear'
      <4> SUFFICES ASSUME Clear PROVE Clear'
        OBVIOUS
      <4>1. \A i \in Jobs : Locks(i) => i = j
        BY <2>1, <2>3 DEF Locks
      <4> QED BY <2>5, <4>1, ClearStays
    <3>2. \A i \in Jobs : ~Applies(i) => ~Applies(i)'
      <4>1. ~Applies(j) => ~Applies(j)'
        BY <2>1, <2>5 DEF Applies, Locks, GivesUp, Exits, Changes, OthersRun
      <4> QED BY <2>3, <4>1 DEF Applies
    <3>3. (\E r \in Readers : at[r] # "idle") => recorded'["stack"] \subseteq recorded["stack"]
      <4> SUFFICES ASSUME NEW r \in Readers, at[r] # "idle"
                   PROVE  recorded'["stack"] \subseteq recorded["stack"]
        OBVIOUS
      <4>1. ~Applies(j)
        BY DEF Read
      <4> QED BY <1>0, <2>1, <4>1 DEF Applies, Locks, GivesUp, Exits, Changes
    <3>4. \A r \in Readers : answer[r] # {} => at[r] # "idle"
      BY DEF Read
    <3>5. \A s \in file : recorded'["stack"] \subseteq s
      BY <3>3 DEF Read
    <3>6. \A r \in Readers : \A s \in answer[r] : recorded'["stack"] \subseteq s
      BY <3>3, <3>4 DEF Read, ReadersTrue
    <3> QED BY <2>2, <3>1, <3>2, <3>5, <3>6 DEF Read, ReadersTrue
  <2> QED BY <2>4, <2>5
<1>3. CASE ReaderAct
  <2>1. PICK r \in Readers : /\ Alone(r) /\ ReaderMoves(r)
                             /\ \A q \in Readers : q # r => answer'[q] = answer[q]
                             /\ answer' = answer \/ Answers(r)
    BY <1>3 DEF ReaderAct
  <2>2. /\ UNCHANGED <<tofu, recorded>>
        /\ \A q \in Actors : q # r => at'[q] = at[q]
        /\ at'[r] \in {"over"} \union ReadSteps /\ at[r] # "over"
    BY <2>1, ReaderLeaves
  <2>3. (Clear' <=> Clear) /\ \A j \in Jobs : Applies(j)' <=> Applies(j)
    BY <2>2 DEF Clear, Applies
  <2>4. at'[r] # "idle" /\ at[r] \in {"idle"} \union ReadSteps
    BY <2>2 DEF ReadSteps, Placed
  <2>5. \A j \in Jobs : ~Applies(j)
    <3>1. CASE at[r] = "idle"
      <4>1. Done /\ cleanup = 0
        BY <2>1, <3>1 DEF ReaderMoves, Asks, Makes, Inits, Looks, Truncates, Pulls, Answers, Errs,
           Done, ReadSteps
      <4> QED BY <4>1, NobodyApplies DEF Whole
    <3>2. CASE at[r] # "idle"
      BY <3>2 DEF Read
    <3> QED BY <3>1, <3>2
  <2>6. dir.selected = "stack" => dir'.selected = "stack"
    BY <2>1 DEF ReaderMoves, Asks, Makes, Inits, Looks, Truncates, Pulls, Answers, Errs, SameFiles, Selected
  <2>7. at'[r] \in {"pull", "write"} => dir'.selected = "stack" \/ Clear
    BY <2>1, <2>2, <2>6 DEF ReaderMoves, Asks, Makes, Inits, Looks, Truncates, Pulls, Answers, Errs,
       To, Over, Selected, Read
  <2>8. \A s \in file' : recorded["stack"] \subseteq s
    <3>1. file' = file \/ file' = {} \/ (at[r] = "write" /\ file' = {recorded[dir.selected]})
      BY <2>1 DEF ReaderMoves, Asks, Makes, Inits, Looks, Truncates, Pulls, Answers, Errs, SameFiles
    <3>2. at[r] = "write" => recorded["stack"] \subseteq recorded[dir.selected]
      BY DEF Read, Clear
    <3> QED BY <3>1, <3>2 DEF Read
  <2>9. /\ answer'[r] # {} => at'[r] = "over"
        /\ \A s \in answer'[r] : recorded["stack"] \subseteq s
    <3>1. answer[r] = {}
      BY <2>2 DEF Read
    <3>2. CASE Answers(r)
      BY <3>2 DEF Answers, Over, Read
    <3>3. CASE answer' = answer
      BY <3>1, <3>3
    <3> QED BY <2>1, <3>2, <3>3
  <2>10. ASSUME NEW q \in Readers
         PROVE  /\ at'[q] \in {"pull", "write"} => dir'.selected = "stack" \/ Clear
                /\ answer'[q] # {} => at'[q] = "over"
                /\ \A s \in answer'[q] : recorded["stack"] \subseteq s
    <3>1. CASE q = r
      BY <2>7, <2>9, <3>1
    <3>2. CASE q # r
      BY <2>1, <2>2, <2>6, <3>2 DEF Read, ReadersTrue
    <3> QED BY <3>1, <3>2
  <2>11. \E q \in Readers : at'[q] # "idle"
    BY <2>4
  <2> QED BY <2>2, <2>3, <2>5, <2>8, <2>10, <2>11 DEF Read, ReadersTrue
<1>4. CASE Cancels \/ (Restarts /\ build' \in Builds) \/ CleansUp
  <2>1. /\ \A i \in Jobs : tofu'[i].state = tofu[i].state /\ tofu'[i].command = tofu[i].command
        /\ \A r \in Readers : at'[r] = at[r]
        /\ UNCHANGED <<recorded, dir, file, answer>>
    <3>1. CASE Cancels
      BY <1>0, <3>1 DEF Cancels
    <3>2. CASE Restarts /\ build' \in Builds
      BY <3>2 DEF Restarts
    <3>3. CASE CleansUp
      BY <3>3 DEF CleansUp
    <3> QED BY <1>4, <3>1, <3>2, <3>3
  <2>2. (Clear' <=> Clear) /\ \A j \in Jobs : Applies(j)' <=> Applies(j)
    BY <2>1 DEF Clear, Applies
  <2> QED BY <2>1, <2>2 DEF Read, ReadersTrue
<1>5. CASE Loses
  <2>1. /\ UNCHANGED <<tofu, recorded, at, answer>> /\ file' = {}
        /\ \A r \in Readers : at[r] \notin {"pull", "write"}
    BY <1>5 DEF Loses, Idle
  <2> QED BY <2>1 DEF Read, ReadersTrue, Applies, Clear
<1>6. CASE UNCHANGED vars
  BY <1>6 DEF vars, Read, ReadersTrue, Applies, Clear
<1> QED BY <1>1, <1>2, <1>3, <1>4, <1>5, <1>6, NextIs


\* The current build goes on, alone with the directory.
LEMMA BuildInHand ==
  ASSUME Usual, Typed, Placed, Locked, InTurn, AtWork, Emptied, InHand, ~Done, build \in Jobs,
         Alone(build), JobMoves(build)
  PROVE  InHand' \/ Done'
<1> USE ActorsAre
<1>0. /\ build \in Builds /\ build \notin Cleanups
      /\ UNCHANGED <<recorded, lock, build>>
      /\ "init" \notin Faults /\ "workspace" \notin Faults
  <2>1. build \in Builds
    BY DEF Typed
  <2>2. build \notin Cleanups
    BY <2>1
  <2> QED BY <2>1, <2>2 DEF Alone, Usual
<1>r. result[build] = "none" /\ at[build] # "over"
  BY <1>0, WhoMoves DEF Placed
<1>1. CASE Errs(build)
  <2>1. at'[build] = "over" /\ result'[build] = "error"
    BY <1>1 DEF Errs, Over
  <2>2. UNCHANGED <<dir, workspaces>>
    BY <1>1 DEF Errs, SameFiles
  <2> QED BY <1>0, <2>1, <2>2 DEF InHand, Idle
<1>2. CASE Makes(build)
  BY <1>0, <1>r, <1>2 DEF Makes, To, InHand, Idle
<1>3. CASE Inits(build)
  BY <1>0, <1>r, <1>3 DEF Inits, To, InHand, Idle
<1>4. CASE Begins(build)
  BY <1>0, <1>r, <1>4 DEF Begins, SameFiles, InHand, Idle
<1>5. CASE Turns(build)
  BY <1>0, <1>r, <1>5 DEF Turns, To, SameFiles, InHand, Idle
<1>6. CASE Creates(build)
  BY <1>0, <1>r, <1>6 DEF Creates, Selected, To, InHand, Idle
<1>7. CASE Finds(build)
  BY <1>0, <1>r, <1>7 DEF Finds, To, SameFiles, InHand, Idle
<1>8. CASE Launches(build)
  BY <1>0, <1>r, <1>8 DEF Launches, To, InHand, Idle
<1>9. CASE Saves(build)
  BY <1>0, <1>r, <1>9 DEF Saves, SameFiles, InHand, Idle
<1>10. CASE Succeeds(build)
  BY <1>10 DEF Succeeds, Over, Done
<1>11. CASE Selects(build)
  BY <1>0, <1>r, <1>11 DEF Selects, Selected, To, InHand, Idle
<1>12. CASE Skips(build)
  <2>1. "stack" \notin workspaces
    BY <1>0, <1>12 DEF Skips, InHand
  <2>2. lock["stack"] = 0
    BY <2>1, NoWorkspace
  <2> QED BY <1>0, <1>r, <1>12, <2>1, <2>2 DEF Skips, To, SameFiles, InHand, Idle
<1>13. CASE Destroyed(build)
  BY <1>0, <1>r, <1>13 DEF Destroyed, To, SameFiles, InHand, Idle
<1>14. CASE Leaves(build)
  BY <1>0, <1>r, <1>14 DEF Leaves, Selected, To, InHand, Idle
<1>15. CASE NotLeft(build)
  BY <1>15 DEF NotLeft, InHand
<1>16. CASE Drops(build)
  BY <1>0, <1>r, <1>16 DEF Drops, To, InHand, Idle
<1>17. CASE NotDropped(build)
  <2>1. Deletable
    BY <1>17 DEF NotDropped, Deletable, InHand, Emptied, Vacates, Clear
  <2> QED BY <1>0, <1>17, <2>1 DEF NotDropped
<1>18. CASE Removes(build)
  <2>1. NoDirectory.there = FALSE
    BY DEF NoDirectory
  <2> QED BY <1>0, <1>18, <2>1 DEF Removes, Over, InHand, Idle
<1> QED BY <1>1, <1>2, <1>3, <1>4, <1>5, <1>6, <1>7, <1>8, <1>9, <1>10, <1>11, <1>12, <1>13,
       <1>14, <1>15, <1>16, <1>17, <1>18 DEF JobMoves

\* The processes of earlier builds do not disturb it.
LEMMA ProcessInHand ==
  ASSUME Typed, Placed, Locked, InTurn, AtWork, InHand, Building, build \in Jobs,
         NEW j \in Jobs, SamePlaces, OthersRun(j),
         Locks(j) \/ GivesUp(j) \/ Exits(j) \/ Changes(j)
  PROVE  InHand'
<1> USE ActorsAre
<1>0. /\ UNCHANGED <<at, dir, workspaces, result, build>>
      /\ \A i \in Jobs : i # j => tofu'[i] = tofu[i]
      /\ build \in Builds /\ "stack" \in Workspaces /\ cleanup = 0
  BY DEF SamePlaces, OthersRun, Typed, Building, Workspaces
<1>1. tofu[j].state = "starting" => j = build /\ at[build] \in {"save", "applying", "destroying"}
  <2>1. SUFFICES ASSUME tofu[j].state = "starting"
                 PROVE  j = build /\ at[build] \in {"save", "applying", "destroying"}
    OBVIOUS
  <2>2. at[j] \in {"save", "applying", "destroying"}
    BY <2>1 DEF Locked, Going, AtWork
  <2>3. j \notin Cleanups
    <3>1. \A c \in Cleanups : c > cleanup
      BY <1>0, ConstantsAssumption DEF Cleanups
    <3>2. \A c \in Cleanups : at[c] = "idle"
      BY <3>1 DEF Placed
    <3> QED BY <2>2, <3>2
  <2>4. j \in Builds
    BY <2>3 DEF Jobs
  <2>5. ~(j < build) /\ ~(j > build)
    BY <2>2, <2>4 DEF InTurn, Placed
  <2>6. j = build
    BY <1>0, <2>4, <2>5 DEF Builds
  <2> QED BY <2>2, <2>6
<1>2. CASE Locks(j)
  BY <1>0, <1>1, <1>2 DEF Locks, InHand, Idle
<1>3. CASE GivesUp(j)
  <2>1. ~tofu[j].ok
    BY <1>3 DEF GivesUp, AtWork, Going
  <2> QED BY <1>0, <1>3, <2>1 DEF GivesUp, InHand
<1>4. CASE Exits(j)
  <2>1. lock["stack"] = 0 => lock'["stack"] = 0
    BY <1>0, <1>4 DEF Exits
  <2>2. recorded' = recorded /\ tofu'[j].state = "exited" /\ tofu[j].state = "working"
    BY <1>4 DEF Exits
  <2>3. CASE j = build
    <3>1. at[build] = "destroying" => lock'["stack"] = 0
      BY <1>4, <2>2, <2>3 DEF Exits, InHand
    <3>2. at[build] \in {"save", "applying"} /\ tofu'[build].ok =>
            lock'["stack"] = 0 /\ recorded["stack"] = Resources
      BY <1>4, <2>2, <2>3 DEF Exits, AtWork, Applies
    <3> QED BY <1>0, <2>1, <2>2, <2>3, <3>1, <3>2 DEF InHand
  <2>4. CASE j # build
    BY <1>0, <2>1, <2>2, <2>4 DEF InHand
  <2> QED BY <2>3, <2>4
<1>5. CASE Changes(j)
  <2>1. UNCHANGED <<tofu, lock>>
    BY <1>5 DEF Changes
  <2>2. lock["stack"] = 0 => recorded'["stack"] = recorded["stack"]
    BY <1>0, <1>5 DEF Changes, Locked
  <2> QED BY <1>0, <2>1, <2>2 DEF InHand
<1> QED BY <1>2, <1>3, <1>4, <1>5

LEMMA BuiltStep ==
  ASSUME Usual, Typed, Placed, Locked, InTurn, AtWork, Emptied, Built, [Next]_vars
  PROVE  Built'
<1> USE ActorsAre
<1>0. Typed' /\ build \in Builds /\ build \in Jobs /\ build \in Actors
  BY NextIs DEF Typed
<1>1. CASE JobAct
  <2>1. PICK j \in Jobs : Alone(j) /\ JobMoves(j)
    BY <1>1 DEF JobAct
  <2>2. CASE j # build
    <3>1. cleanup' # 0
      BY <2>1, <2>2, WhoMoves DEF Alone
    <3> QED BY <3>1 DEF Built, Building
  <2>3. CASE j = build
    <3>1. ~Done
      BY <1>0, <2>1, <2>3, WhoMoves DEF InTurn, Placed
    <3>2. CASE cleanup = 0
      <4>1. InHand
        BY <3>1, <3>2 DEF Built, Building
      <4>2. InHand' \/ Done'
        BY <1>0, <2>1, <2>3, <3>1, <4>1, BuildInHand
      <4> QED BY <4>2 DEF Built, Building
    <3>3. CASE cleanup # 0
      BY <2>1, <3>3 DEF Alone, Built, Building
    <3> QED BY <3>2, <3>3
  <2> QED BY <2>2, <2>3
<1>2. CASE ProcessAct
  <2>1. PICK j \in Jobs : SamePlaces /\ OthersRun(j)
                          /\ (Locks(j) \/ GivesUp(j) \/ Exits(j) \/ Changes(j))
    BY <1>2 DEF ProcessAct
  <2>2. Building' <=> Building
    BY <2>1 DEF SamePlaces, Building, Done
  <2>3. Building => InHand'
    BY <1>0, <2>1, ProcessInHand DEF Built
  <2> QED BY <2>2, <2>3 DEF Built
<1>3. CASE ReaderAct
  <2>1. PICK r \in Readers : Alone(r) /\ ReaderMoves(r)
    BY <1>3 DEF ReaderAct
  <2>2. Done
    BY <2>1 DEF ReaderMoves, Asks, Makes, Inits, Looks, Truncates, Pulls, Answers, Errs, InTurn,
       Done, ReadSteps
  <2>3. Done'
    BY <2>1, <2>2, ReaderLeaves DEF Done
  <2> QED BY <2>3 DEF Built, Building
<1>4. CASE Cancels
  <2>1. /\ tofu'[build].state = tofu[build].state /\ tofu'[build].in = tofu[build].in
        /\ tofu'[build].ok = tofu[build].ok
        /\ at'[build] = at[build] \/ (at'[build] = "over" /\ at[build] = "queued")
        /\ UNCHANGED <<recorded, dir, workspaces, lock, result, build, cleanup>>
    BY <1>0, <1>4 DEF Cancels
  <2>2. InHand => InHand'
    BY <2>1 DEF InHand, Idle
  <2>3. Building' => Building
    BY <1>4, <2>1 DEF Cancels, Building, Done
  <2> QED BY <2>2, <2>3 DEF Built
<1>5. CASE Restarts /\ build' \in Builds
  <2>1. /\ at[build] = "over" /\ Building
        /\ UNCHANGED <<recorded, dir, workspaces, lock, result, tofu>>
        /\ at'[build'] = "queued" /\ build' = build + 1
    BY <1>5 DEF Restarts, Usual, Building, Done
  <2>2. result[build'] = "none"
    <3>1. at[build'] = "idle" /\ build' \in Actors
      BY <1>0, <1>5, <2>1 DEF Placed
    <3> QED BY <3>1 DEF Placed
  <2>3. InHand
    BY <2>1 DEF Built
  <2>4. "stack" \in workspaces => dir.selected = "stack"
    <3>1. ~Astray
      BY <1>5 DEF Restarts, Usual
    <3>2. "stack" \in workspaces => dir.there
      <4>1. NoDirectory.initialised = FALSE
        BY DEF NoDirectory
      <4> QED BY <2>3, <4>1 DEF InHand, Typed
    <3>3. dir.selected \in Workspaces
      BY DEF Typed, Directories
    <3> QED BY <3>1, <3>2, <3>3 DEF Astray, Workspaces
  <2>5. InHand'
    BY <2>1, <2>2, <2>3, <2>4 DEF InHand, Idle
  <2> QED BY <2>5 DEF Built
<1>6. CASE CleansUp
  <2>1. cleanup' # 0
    BY <1>6 DEF CleansUp
  <2> QED BY <2>1 DEF Built, Building
<1>7. CASE Loses
  <2>1. Done'
    BY <1>7 DEF Loses, Usual, Done
  <2> QED BY <2>1 DEF Built, Building
<1>8. CASE UNCHANGED vars
  BY <1>8 DEF vars, Built, InHand, Building, Done
<1> QED BY <1>1, <1>2, <1>3, <1>4, <1>5, <1>6, <1>7, <1>8, NextIs


-----------------------------------------------------------------------------
(* The theorems *)

Sound == /\ Typed /\ Placed /\ Locked
         /\ InTurn /\ AtWork /\ Emptied /\ Built /\ Whole /\ Read

LEMMA SoundAtFirst ==
  ASSUME Init PROVE Sound
<1> USE ActorsAre
<1>1. Typed /\ Placed /\ Locked
  BY AtFirst
<1>2. /\ build = 1 /\ cleanup = 0 /\ dir = NoDirectory /\ file = {} /\ workspaces = {"default"}
      /\ ~stage.finished /\ stage.pid = 0
      /\ at[1] = "queued" /\ \A a \in Actors : a # 1 => at[a] = "idle"
      /\ \A a \in Actors : result[a] = "none"
      /\ \A j \in Jobs : tofu[j].state = "none"
      /\ recorded["default"] = {} /\ recorded["stack"] = {}
      /\ \A r \in Readers : answer[r] = {}
  BY DEF Init, NewStage, NoProcess, Workspaces
<1>3. \A j \in Jobs : ~Applies(j) /\ at[j] \in {"idle", "queued"}
  BY <1>2 DEF Applies
<1>4. InTurn
  <2>1. \A b \in Builds : ~(b < 1)
    OBVIOUS
  <2>2. \A r \in Readers : at[r] = "idle"
    BY <1>2
  <2>3. ~Done
    BY <1>2 DEF Done
  <2> QED BY <1>2, <2>1, <2>2, <2>3 DEF InTurn
<1>5. AtWork
  BY <1>2, <1>3 DEF AtWork, Going
<1>6. Emptied
  <2>1. Clear
    BY <1>2, <1>3 DEF Clear
  <2> QED BY <2>1 DEF Emptied
<1>7. Built
  BY <1>2 DEF Built, InHand, Idle
<1>8. Whole
  BY <1>2 DEF Whole, Done
<1>9. Read
  <2>1. \A r \in Readers : at[r] = "idle"
    BY <1>2
  <2> QED BY <1>2, <2>1 DEF Read, ReadersTrue
<1> QED BY <1>1, <1>4, <1>5, <1>6, <1>7, <1>8, <1>9 DEF Sound

LEMMA SoundStep ==
  ASSUME Usual, Sound, [Next]_vars PROVE Sound'
<1> USE DEF Sound
<1>1. Typed' /\ Placed' /\ Locked'
  BY NextIs, PlacedStep, LockedStep
<1>2. InTurn' /\ AtWork'
  BY InTurnStep, AtWorkStep
<1>3. Emptied' /\ Built'
  BY EmptiedStep, BuiltStep
<1>4. Whole' /\ Read'
  BY WholeStep, ReadStep
<1> QED BY <1>1, <1>2, <1>3, <1>4

LEMMA AlwaysSound ==
  ASSUME Usual PROVE Spec => []Sound
<1>1. Init => Sound
  BY SoundAtFirst
<1>2. Sound /\ [Next]_vars => Sound'
  BY SoundStep
<1> QED BY <1>1, <1>2, PTL DEF Spec

\* Terraform makes nothing outside the workspace of the stack: create_terraform_workspace
\* takes that the workspace exists for no failure although terraform has then not selected
\* it, and yet whatever apply makes is where the other stages and the requests look.
THEOREM NothingMadeElsewhere ==
  ASSUME Usual PROVE Spec => []OwnWorkspace
<1>1. Sound => OwnWorkspace
  BY DEF Sound, AtWork, OwnWorkspace, Applies
<1> QED BY <1>1, AlwaysSound, PTL

\* A build that reports its own failure has deleted what it made and its workspace
\* (build_stack's handler calls _delete_stack before it raises again).
THEOREM FailedBuildsLeaveNothing ==
  ASSUME Usual PROVE Spec => []FailedBuildLeavesNothing
<1>1. Sound => FailedBuildLeavesNothing
  <2> SUFFICES ASSUME Sound, result[build] = "build failed", cleanup = 0
               PROVE  Cloud = {} /\ "stack" \notin workspaces /\ ~dir.there /\ lock["stack"] = 0
    BY DEF FailedBuildLeavesNothing
  <2>1. "stack" \notin workspaces /\ ~dir.there
    BY DEF Sound, InTurn, Built, InHand, Building
  <2>2. recorded["stack"] = {} /\ lock["stack"] = 0
    BY <2>1, NoWorkspace DEF Sound, Clear
  <2>3. recorded["default"] = {}
    BY DEF Sound, AtWork
  <2>4. Cloud = {}
    BY <2>2, <2>3 DEF Cloud, Workspaces
  <2> QED BY <2>1, <2>2, <2>4
<1> QED BY <1>1, AlwaysSound, PTL

\* What a request answers about the resources of a sandbox (list_stack_resources) names
\* every one that still exists, though a cleanup may run in the same directory.
THEOREM ReadersAnswerTrue ==
  ASSUME Usual PROVE Spec => []ReadersTrue
<1>1. Sound => ReadersTrue
  BY DEF Sound, Read
<1> QED BY <1>1, AlwaysSound, PTL


-----------------------------------------------------------------------------
(* The promise *)

Cleaned == \E c \in Cleanups : result[c] = "done"

Phase == CASE \E c \in Cleanups : result[c] = "done" -> "cleaned"
           [] cleanup # 0 /\ (\A c \in Cleanups : result[c] # "done") -> "cleaning"
           [] cleanup = 0 /\ result[build] = "done" /\ ~stage.failed -> "built"
           [] OTHER -> "building"

\* The phase, one after the other.
PhaseTold ==
  /\ Cleaned => Phase = "cleaned"
  /\ ~Cleaned /\ cleanup # 0 => Phase = "cleaning"
  /\ ~Cleaned /\ cleanup = 0 /\ Done => Phase = "built"
  /\ ~Cleaned /\ cleanup = 0 /\ ~Done => Phase = "building"
  /\ Cleaned => cleanup # 0

LEMMA PhaseIs == Sound => PhaseTold
<1> SUFFICES ASSUME Sound PROVE PhaseTold
  OBVIOUS
<1> USE ActorsAre
<1>1. Cleaned => cleanup # 0
  <2> SUFFICES ASSUME NEW c \in Cleanups, result[c] = "done" PROVE cleanup # 0
    BY DEF Cleaned
  <2>1. at[c] = "over"
    BY DEF Sound, Placed
  <2> QED BY <2>1 DEF Sound, Placed
<1>2. (result[build] = "done" <=> Done) /\ (Done => ~stage.failed)
  BY DEF Sound, InTurn, Done
<1>3. ASSUME Cleaned PROVE Phase = "cleaned"
  BY <1>1, <1>3 DEF Cleaned, Phase
<1>4. ASSUME ~Cleaned, cleanup # 0 PROVE Phase = "cleaning"
  BY <1>4 DEF Cleaned, Phase
<1>5. ASSUME ~Cleaned, cleanup = 0, Done PROVE Phase = "built"
  BY <1>2, <1>5 DEF Cleaned, Phase
<1>6. ASSUME ~Cleaned, cleanup = 0, ~Done PROVE Phase = "building"
  BY <1>2, <1>6 DEF Cleaned, Phase
<1> QED BY <1>1, <1>3, <1>4, <1>5, <1>6 DEF PhaseTold

LEMMA PhaseIsNext == Sound' => PhaseTold'
BY PhaseIs, PTL

\* A step of the promise, said of the phase and the resources that exist.
LEMMA PromiseStep ==
  ASSUME \/ UNCHANGED <<Phase, Cloud>>
         \/ /\ Phase \in {"building", "cleaning"} /\ Phase' = Phase
            /\ \E x \in Workspaces \X Resources : Cloud' = Cloud \union {x}
         \/ /\ Phase \in {"building", "cleaning"} /\ Phase' = Phase
            /\ \E x \in Cloud : Cloud' = Cloud \ {x}
         \/ Phase = "building" /\ Phase' = "built" /\ Cloud = {"stack"} \X Resources /\ Cloud' = Cloud
         \/ Phase \in {"building", "built"} /\ Phase' = "cleaning" /\ Cloud' = Cloud
         \/ Phase = "cleaning" /\ Phase' = "cleaned" /\ Cloud = {} /\ Cloud' = Cloud
  PROVE  [Promise!Next]_(Promise!vars)
BY DEF Phase, Promise!Next, Promise!Make, Promise!Remove, Promise!ReportBuilt,
   Promise!AskCleanup, Promise!ReportCleaned, Promise!vars


\* Only terraform's changes change what exists.
LEMMA OnlyChanges ==
  ASSUME Typed, Placed, [Next]_vars, ~\E j \in Jobs : Change(j)
  PROVE  recorded' = recorded
<1>1. CASE \E j \in Jobs : JobStep(j)
  BY <1>1, JobStepIs DEF Alone
<1>2. CASE \E j \in Jobs : TakeLock(j) \/ Exit(j)
  BY <1>2 DEF TakeLock, Exit
<1>3. CASE \E r \in Readers : ReaderStep(r)
  <2>1. PICK r \in Readers : ReaderStep(r)
    BY <1>3
  <2>2. at[r] \in {"idle", "over"} \union ReadSteps
    BY DEF Placed
  <2> QED BY <2>1, <2>2, ReaderStepIs DEF Alone
<1>4. CASE Cancel \/ Restart \/ AskCleanup \/ LoseDirectory \/ UNCHANGED vars
  BY <1>4 DEF Cancel, Restart, AskCleanup, LoseDirectory, NoState, vars
<1> QED BY <1>1, <1>2, <1>3, <1>4 DEF Next, Terraform

\* What a change makes or removes, it makes or removes in the workspace of the stack,
\* while a build or a cleanup is under way.
LEMMA ChangeKeepsPromise ==
  ASSUME Sound, Sound', NEW j \in Jobs, Change(j)
  PROVE  [Promise!Next]_(Promise!vars)
<1> USE ActorsAre
<1>1. /\ UNCHANGED <<result, stage, build, cleanup>> /\ tofu[j].state = "working"
      /\ "stack" \in Workspaces /\ "default" \in Workspaces
  BY DEF Change, NoRequests, Workspaces
<1>2. Phase' = Phase
  BY <1>1 DEF Phase
<1>3. tofu[j].in = "stack" /\ Phase \in {"building", "cleaning"}
  <2>1. tofu[j].in = "stack"
    <3>1. tofu[j].in \in {"stack", "default"} /\ recorded["default"] = {}
      BY DEF Sound, Typed, Processes, Workspaces, AtWork
    <3>2. tofu[j].command = "apply" => tofu[j].in = "stack"
      BY <1>1 DEF Sound, AtWork, Applies
    <3>3. tofu[j].command # "apply" => recorded[tofu[j].in] # {}
      BY DEF Change
    <3> QED BY <3>1, <3>2, <3>3
  <2>2. ~Clear
    <3>1. tofu[j].command = "apply" => ~Clear
      BY <1>1 DEF Clear, Applies
    <3>2. tofu[j].command # "apply" => recorded["stack"] # {}
      BY <2>1 DEF Change
    <3> QED BY <3>1, <3>2 DEF Clear
  <2>3. lock["stack"] # 0
    BY <1>1, <2>1 DEF Sound, Locked
  <2>4. ~Cleaned /\ ~(Done /\ cleanup = 0)
    BY <2>2, <2>3 DEF Cleaned, Sound, Emptied, Whole
  <2> QED BY <2>1, <2>4, PhaseIs DEF PhaseTold
<1>4. recorded \in [Workspaces -> SUBSET Resources]
  BY DEF Sound, Typed
<1>5. CASE tofu[j].command = "apply"
  <2>1. PICK r \in Resources :
          recorded' = [recorded EXCEPT !["stack"] = recorded["stack"] \union {r}]
    BY <1>3, <1>4, <1>5 DEF Change
  <2>2. /\ recorded'["stack"] = recorded["stack"] \union {r}
        /\ \A w \in Workspaces : w # "stack" => recorded'[w] = recorded[w]
    BY <1>1, <1>4, <2>1
  <2>3. Cloud' = Cloud \union {<<"stack", r>>} /\ <<"stack", r>> \in Workspaces \X Resources
    BY <1>1, <2>2 DEF Cloud
  <2> QED BY <1>2, <1>3, <2>3, PromiseStep
<1>6. CASE tofu[j].command # "apply"
  <2>1. PICK r \in recorded["stack"] :
          recorded' = [recorded EXCEPT !["stack"] = recorded["stack"] \ {r}]
    BY <1>3, <1>4, <1>6 DEF Change
  <2>2. /\ recorded'["stack"] = recorded["stack"] \ {r} /\ r \in Resources
        /\ \A w \in Workspaces : w # "stack" => recorded'[w] = recorded[w]
    BY <1>1, <1>4, <2>1
  <2>3. Cloud' = Cloud \ {<<"stack", r>>} /\ <<"stack", r>> \in Cloud
    BY <1>1, <2>1, <2>2 DEF Cloud
  <2> QED BY <1>2, <1>3, <2>3, PromiseStep
<1> QED BY <1>5, <1>6

\* All other steps leave what exists alone, and report only what is so.
LEMMA ReportsKeepPromise ==
  ASSUME Usual, Sound, Sound', [Next]_vars, recorded' = recorded
  PROVE  [Promise!Next]_(Promise!vars)
<1> USE ActorsAre
<1>0. /\ build \in Builds /\ build \in Jobs /\ build \in Actors /\ Cloud' = Cloud
      /\ Typed /\ Placed /\ InTurn
  BY DEF Sound, Typed, Cloud
<1>1. PhaseTold /\ PhaseTold'
  BY PhaseIs, PhaseIsNext
<1>2. CASE JobAct
  <2>1. PICK j \in Jobs : Alone(j) /\ JobMoves(j)
    BY <1>2 DEF JobAct
  <2>2. /\ \A b \in Actors : b # j => at'[b] = at[b] /\ result'[b] = result[b]
        /\ build' = build /\ cleanup' = cleanup
        /\ at[j] # "over" /\ result[j] = "none"
    BY <1>0, <2>1, WhoMoves DEF Alone, Placed
  <2>3. Cleaned => Cleaned'
    BY <2>2 DEF Cleaned
  <2>4. CASE j # build
    <3>1. cleanup # 0
      BY <1>0, <2>1, <2>4, WhoMoves
    <3>2. CASE Cleaned \/ ~Cleaned'
      BY <1>0, <1>1, <2>2, <2>3, <3>1, <3>2, PromiseStep DEF PhaseTold
    <3>3. CASE ~Cleaned /\ Cleaned'
      <4>1. Clear'
        BY <3>3 DEF Sound, Emptied, Cleaned
      <4>2. recorded["stack"] = {} /\ recorded["default"] = {}
        BY <4>1 DEF Clear, Sound, AtWork
      <4>3. Cloud = {}
        BY <4>2 DEF Cloud, Workspaces
      <4> QED BY <1>0, <1>1, <3>1, <3>3, <4>3, PromiseStep DEF PhaseTold
    <3> QED BY <3>2, <3>3
  <2>5. CASE j = build
    <3>1. ~Done /\ (Cleaned' <=> Cleaned)
      <4>1. \A c \in Cleanups : c # build /\ c \in Actors
        BY <1>0
      <4>2. ~Done
        BY <2>2, <2>5 DEF InTurn, Sound
      <4> QED BY <2>2, <2>5, <4>1, <4>2 DEF Cleaned
    <3>2. CASE cleanup # 0 \/ ~Done'
      BY <1>0, <1>1, <2>2, <3>1, <3>2, PromiseStep DEF PhaseTold
    <3>3. CASE cleanup = 0 /\ Done'
      <4>1. recorded["stack"] = Resources /\ recorded["default"] = {}
        BY <2>2, <3>3 DEF Sound, Whole, AtWork
      <4>2. Cloud = {"stack"} \X Resources
        BY <4>1 DEF Cloud, Workspaces
      <4>3. ~Cleaned
        BY <1>1, <3>3 DEF PhaseTold
      <4> QED BY <1>0, <1>1, <2>2, <3>1, <3>3, <4>2, <4>3, PromiseStep DEF PhaseTold
    <3> QED BY <3>2, <3>3
  <2> QED BY <2>4, <2>5
<1>3. CASE ProcessAct \/ Loses \/ UNCHANGED vars
  <2>1. UNCHANGED <<result, stage, build, cleanup>>
    BY <1>3 DEF ProcessAct, SamePlaces, Loses, vars
  <2>2. Phase' = Phase
    BY <2>1 DEF Phase
  <2> QED BY <1>0, <2>2, PromiseStep
<1>4. CASE ReaderAct
  <2>1. PICK r \in Readers : Alone(r) /\ ReaderMoves(r)
    BY <1>4 DEF ReaderAct
  <2>2. UNCHANGED <<stage, build, cleanup>> /\ \A j \in Jobs : result'[j] = result[j]
    BY <1>0, <2>1, ReaderLeaves
  <2>3. (Cleaned' <=> Cleaned) /\ (Done' <=> Done)
    BY <2>2 DEF Cleaned, Done
  <2> QED BY <1>0, <1>1, <2>2, <2>3, PromiseStep DEF PhaseTold
<1>5. CASE Cancels \/ (Restarts /\ build' \in Builds)
  <2>1. UNCHANGED <<result, cleanup>> /\ ~Done /\ ~Done' /\ cleanup = 0
    BY <1>5 DEF Cancels, Restarts, Done, Sound, InTurn
  <2>2. Cleaned' <=> Cleaned
    BY <2>1 DEF Cleaned
  <2> QED BY <1>0, <1>1, <2>1, <2>2, PromiseStep DEF PhaseTold
<1>6. CASE CleansUp
  <2>1. result' = result /\ cleanup' # 0
    BY <1>6 DEF CleansUp
  <2>2. Cleaned' <=> Cleaned
    BY <2>1 DEF Cleaned
  <2> QED BY <1>0, <1>1, <2>1, <2>2, PromiseStep DEF PhaseTold
<1> QED BY <1>0, <1>2, <1>3, <1>4, <1>5, <1>6, NextIs

LEMMA PromiseAtFirst ==
  ASSUME Init PROVE Promise!Init
<1> USE ActorsAre
<1>1. Sound /\ PhaseTold
  BY SoundAtFirst, PhaseIs
<1>2. cleanup = 0 /\ ~stage.finished /\ recorded = [w \in Workspaces |-> {}]
  BY DEF Init, NewStage
<1>3. Phase = "building"
  BY <1>1, <1>2 DEF PhaseTold, Done
<1>4. Cloud = {}
  BY <1>2 DEF Cloud
<1> QED BY <1>3, <1>4 DEF Promise!Init, Phase

\* The stages keep the promise: a stack that is reported built is complete and stays so
\* until a cleanup is asked for, a cleanup that is reported done has left nothing, and
\* nothing is made after it.  Every step of the directory, the commands, the requests
\* and the readers is a step of StackPromise or changes nothing that it speaks of.
THEOREM StackKeepsPromise ==
  ASSUME Usual PROVE Spec => ImplementsPromise
<1>1. Init => Promise!Init
  BY PromiseAtFirst
<1>2. Sound /\ Sound' /\ [Next]_vars => [Promise!Next]_(Promise!vars)
  <2> SUFFICES ASSUME Sound, Sound', [Next]_vars PROVE [Promise!Next]_(Promise!vars)
    OBVIOUS
  <2>1. CASE \E j \in Jobs : Change(j)
    BY <2>1, ChangeKeepsPromise
  <2>2. CASE ~\E j \in Jobs : Change(j)
    <3>1. recorded' = recorded
      BY <2>2, OnlyChanges DEF Sound
    <3> QED BY <3>1, ReportsKeepPromise
  <2> QED BY <2>1, <2>2
<1>3. Spec => []Sound
  BY AlwaysSound
<1> QED BY <1>1, <1>2, <1>3, PTL DEF Spec, ImplementsPromise, Promise!Spec

=============================================================================
