------------------------- MODULE RevisionReadsProofs -------------------------
(***************************************************************************)
(* What a sandbox is made from, for any number of commits, importers and   *)
(* previews, whatever is pushed, cached or expires between two reads.      *)
(*                                                                         *)
(* The argument: a commit never changes, so what is read or cached under   *)
(* the number of a commit is of that commit; a pool that names a commit    *)
(* keeps it as long as it has a sandbox, and its requests ask for nothing  *)
(* else.  What is validated is what is used, as each request reads and     *)
(* checks in a fixed order.                                                *)
(***************************************************************************)
EXTENDS RevisionReads, SequenceTheorems, TLAPS

Getting == {"look", "fetch", "store"}

\* A request has something to do as long as it is under way, and within
\* get_definition that is the task it is at.
UnderWay ==
  \A a \in Actors :
    /\ step[a] \in Getting => todo[a] # <<>> /\ Head(todo[a]) \in {"definition", "refresh"}
    /\ step[a] = "ready" => todo[a] # <<>>
    /\ step[a] \in {"idle", "done", "failed", "broken"} => todo[a] = <<>>

Steps == {"idle", "ready", "look", "fetch", "store", "done", "failed", "broken"}

Running == UnderWay /\ todo \in [Actors -> Seq(Tasks)] /\ step \in [Actors -> Steps]

-----------------------------------------------------------------------------
(* Lemmas about tasks *)

LEMMA TailOfTasks ==
  ASSUME NEW s \in Seq(Tasks), s # <<>>
  PROVE  /\ Tail(s) \in Seq(Tasks) /\ Head(s) = s[1] /\ Len(s) \in Nat /\ Len(s) >= 1
         /\ Len(Tail(s)) = Len(s) - 1
         /\ \A i \in 1..Len(Tail(s)) : Tail(s)[i] = s[i + 1]
OBVIOUS

LEMMA NotEmpty ==
  ASSUME NEW T, NEW s \in Seq(T), Len(s) >= 1
  PROVE  s # <<>>
OBVIOUS

LEMMA LaterStagesAre ==
  /\ LaterStages \in Seq(Tasks) /\ Len(LaterStages) = 5
  /\ LaterStages[1] = "definition" /\ LaterStages[2] = "containers" /\ LaterStages[3] = "instance"
  /\ LaterStages[4] = "dockerfile" /\ LaterStages[5] = "playbook"
BY DEF LaterStages, Tasks

\* A sequence that is made of two has the elements of the first and then those of the
\* second.
MadeOf(r, s, t) ==
  /\ Len(r) = Len(s) + Len(t)
  /\ \A i \in 1..Len(s) : r[i] = s[i]
  /\ \A i \in 1..Len(t) : r[Len(s) + i] = t[i]

LEMMA ConcatMadeOf ==
  ASSUME NEW T, NEW s \in Seq(T), NEW t \in Seq(T)
  PROVE  MadeOf(s \o t, s, t)
<1>2. Len(s \o t) = Len(s) + Len(t)
  BY ConcatProperties, Zenon
<1>3. \A i \in 1..Len(s) + Len(t) : (s \o t)[i] = IF i <= Len(s) THEN s[i] ELSE t[i - Len(s)]
  BY ConcatProperties, Zenon
<1>4. Len(s) \in Nat /\ Len(t) \in Nat
  OBVIOUS
<1>5. \A m, n \in Nat : \A i \in 1..n :
        m + i \in 1..(m + n) /\ ~(m + i <= m) /\ (m + i) - m = i
  OBVIOUS
<1>6. \A m, n \in Nat : \A i \in 1..m : i \in 1..(m + n) /\ i <= m
  OBVIOUS
<1>7. \A i \in 1..Len(s) : (s \o t)[i] = s[i]
  BY <1>3, <1>4, <1>6, Zenon
<1>8. \A i \in 1..Len(t) : (s \o t)[Len(s) + i] = t[i]
  BY <1>3, <1>4, <1>5, Zenon
<1> QED BY <1>2, <1>7, <1>8, Zenon DEF MadeOf

LEMMA BuildTasksAre ==
  /\ BuildTasks \in Seq(Tasks) /\ Len(BuildTasks) = 7
  /\ BuildTasks[1] = "definition" /\ BuildTasks[2] = "stack" /\ BuildTasks[3] = "definition"
  /\ BuildTasks[4] = "containers" /\ BuildTasks[5] = "instance"
  /\ BuildTasks[6] = "dockerfile" /\ BuildTasks[7] = "playbook"
<1> DEFINE first == << "definition", "stack" >>
<1>1. first \in Seq(Tasks) /\ Len(first) = 2 /\ first[1] = "definition" /\ first[2] = "stack"
  BY DEF Tasks
<1>2. LaterStages \in Seq(Tasks)
  BY LaterStagesAre
<1>3. BuildTasks = first \o LaterStages
  BY DEF BuildTasks
<1> HIDE DEF first
<1>4. BuildTasks \in Seq(Tasks)
  BY <1>1, <1>2, <1>3, ConcatProperties, Zenon
<1>5. MadeOf(BuildTasks, first, LaterStages)
  BY <1>1, <1>2, <1>3, ConcatMadeOf, Zenon
<1> QED BY <1>1, <1>4, <1>5, LaterStagesAre DEF MadeOf

LEMMA CreateTasksAre ==
  /\ CreateTasks \in Seq(Tasks) /\ Len(CreateTasks) = 7
  /\ CreateTasks[1] = "row" /\ CreateTasks[2] = "definition" /\ CreateTasks[3] = "probe"
  /\ CreateTasks[4] = "definition" /\ CreateTasks[5] = "containers"
  /\ CreateTasks[6] = "match" /\ CreateTasks[7] = "open"
BY DEF CreateTasks, Tasks

LEMMA TasksNotEmpty == LaterStages # <<>> /\ BuildTasks # <<>> /\ CreateTasks # <<>>
<1>1. LaterStages \in Seq(Tasks) /\ Len(LaterStages) >= 1
  BY LaterStagesAre
<1>2. BuildTasks \in Seq(Tasks) /\ Len(BuildTasks) >= 1
  BY BuildTasksAre
<1>3. CreateTasks \in Seq(Tasks) /\ Len(CreateTasks) >= 1
  BY CreateTasksAre
<1> QED BY <1>1, <1>2, <1>3, NotEmpty, Zenon

LEMMA PreviewTasksAre == PreviewTasks \in Seq(Tasks) /\ PreviewTasks # <<>>
BY DEF PreviewTasks, Tasks

LEMMA ImportTasksAre == ImportTasks \in Seq(Tasks) /\ ImportTasks # <<>>
<1> DEFINE first == << IF mode = "FRESH_IMPORT" THEN "refresh" ELSE "definition" >>
           rest == << "definition", "containers", "match", "save" >>
<1>1. first \in Seq(Tasks) /\ Len(first) = 1
  BY DEF Tasks
<1>2. rest \in Seq(Tasks) /\ Len(rest) = 4
  BY DEF Tasks
<1>3. ImportTasks = first \o rest
  BY DEF ImportTasks
<1> HIDE DEF first, rest
<1>4. ImportTasks \in Seq(Tasks)
  BY <1>1, <1>2, <1>3, ConcatProperties, Zenon
<1>5. MadeOf(ImportTasks, first, rest)
  BY <1>1, <1>2, <1>3, ConcatMadeOf, Zenon
<1> QED BY <1>1, <1>2, <1>4, <1>5 DEF MadeOf

-----------------------------------------------------------------------------
(* Lemmas about the ways a request goes on *)

LEMMA PopRuns ==
  ASSUME Running, NEW a \in Actors, todo[a] # <<>>, Next1(a)
  PROVE  /\ Running'
         /\ todo'[a] = Tail(todo[a]) /\ step'[a] \in {"ready", "done"}
         /\ \A b \in Actors : b # a => todo'[b] = todo[b] /\ step'[b] = step[b]
<1>1. todo[a] \in Seq(Tasks)
  BY DEF Running
<1>2. todo'[a] = Tail(todo[a]) /\ \A b \in Actors : b # a => todo'[b] = todo[b]
  BY DEF Next1, Running
<1>3. step'[a] = (IF Len(todo[a]) = 1 THEN "done" ELSE "ready")
      /\ \A b \in Actors : b # a => step'[b] = step[b]
  BY DEF Next1, Running
<1>4. todo' \in [Actors -> Seq(Tasks)] /\ step' \in [Actors -> Steps]
  BY <1>1, TailOfTasks DEF Next1, Running, Steps
<1>5. /\ step'[a] = "ready" => todo'[a] # <<>>
      /\ step'[a] = "done" => todo'[a] = <<>>
  <2>1. Len(todo[a]) = 1 => Len(Tail(todo[a])) = 0
    BY <1>1, TailOfTasks
  <2>2. Len(todo[a]) # 1 => Len(Tail(todo[a])) # 0
    BY <1>1, TailOfTasks
  <2>3. Tail(todo[a]) \in Seq(Tasks)
    BY <1>1, TailOfTasks
  <2>4. Tail(todo[a]) = <<>> <=> Len(Tail(todo[a])) = 0
    BY <2>3, EmptySeq
  <2> QED BY <1>2, <1>3, <2>1, <2>2, <2>4
<1>6. step'[a] \in {"ready", "done"}
  BY <1>3
<1>7. UnderWay'
  BY <1>2, <1>3, <1>5, <1>6 DEF Running, UnderWay, Getting
<1> QED BY <1>2, <1>3, <1>4, <1>6, <1>7 DEF Running

LEMMA FailRuns ==
  ASSUME Running, NEW a \in Actors, Fails(a)
  PROVE  /\ Running'
         /\ todo'[a] = <<>> /\ step'[a] \in {"failed", "broken"}
         /\ \A b \in Actors : b # a => todo'[b] = todo[b] /\ step'[b] = step[b]
<1>1. PICK how \in Failures(a) : /\ todo' = [todo EXCEPT ![a] = <<>>]
                                 /\ step' = [step EXCEPT ![a] = how]
  BY DEF Fails
<1>2. <<>> \in Seq(Tasks)
  OBVIOUS
<1>3. how \in {"failed", "broken"}
  BY DEF Failures
<1> QED BY <1>1, <1>2, <1>3 DEF Running, UnderWay, Getting, Steps

LEMMA GoRuns ==
  ASSUME Running, NEW a \in Actors, NEW s \in Getting, Goes(a, s),
         todo[a] # <<>>, Head(todo[a]) \in {"definition", "refresh"}
  PROVE  /\ Running'
         /\ todo' = todo /\ step'[a] = s
         /\ \A b \in Actors : b # a => step'[b] = step[b]
BY DEF Running, UnderWay, Goes, Getting, Steps

LEMMA BeginRuns ==
  ASSUME Running, NEW a \in Actors, NEW tasks \in Seq(Tasks), tasks # <<>>,
         todo' = [todo EXCEPT ![a] = tasks], step' = [step EXCEPT ![a] = "ready"]
  PROVE  /\ Running'
         /\ todo'[a] = tasks /\ step'[a] = "ready"
         /\ \A b \in Actors : b # a => todo'[b] = todo[b] /\ step'[b] = step[b]
BY DEF Running, UnderWay, Getting, Steps

-----------------------------------------------------------------------------
(* Types, and that every request that is under way has something to do *)

Typed == TypeOK /\ UnderWay

Reads == [key : Revisions, file : Revisions, topology : Revisions, containers : Revisions]

LEMMA TypedRuns == ASSUME Typed PROVE Running
BY DEF Typed, TypeOK, Running, Steps

LEMMA RevisionsAre ==
  /\ 0 \in Revisions /\ Commits \subseteq Revisions
  /\ \A r \in Revisions : r # 0 => r \in Commits
BY ConstantsAssumption DEF Revisions, Commits

LEMMA ReadTyped ==
  ASSUME Typed
  PROVE  /\ \A a \in Actors : Asked(a) \in Revisions
         /\ \A r \in Revisions : Resolved(r) \in Revisions /\ ReadAt(r) \in Commits
BY RevisionsAre DEF Typed, TypeOK, Asked, Resolved, ReadAt

LEMMA DoingRuns ==
  ASSUME NEW a, NEW task, Doing(a, task)
  PROVE  step[a] = "ready" /\ todo[a] # <<>> /\ Head(todo[a]) = task
BY DEF Doing

\* A request that fails may take the pool with it.
LEMMA FailsTyped ==
  ASSUME Typed, NEW a \in Actors, Fails(a)
  PROVE  /\ pool' = pool \/ pool' = [state |-> "refused", rev |-> 0]
         /\ a # "create" => pool' = pool
         /\ step["build"] # "idle" => pool' = pool
BY DEF Fails

LEMMA GetTyped ==
  ASSUME Typed, NEW a \in Actors, GetDefinition(a)
  PROVE  Typed'
<1> USE TypedRuns, RevisionsAre, ReadTyped
<1>1. CASE Resolve(a)
  <2>1. step[a] = "ready" /\ todo[a] # <<>> /\ Head(todo[a]) \in {"definition", "refresh"}
    BY <1>1 DEF Resolve, Doing
  <2>2. Running'
    <3>1. Head(todo[a]) = "refresh" => Running'
      BY <1>1, <2>1, GoRuns DEF Resolve, Getting
    <3>2. Head(todo[a]) # "refresh" => Running'
      BY <1>1, <2>1, GoRuns DEF Resolve, Getting
    <3> QED BY <3>1, <3>2
  <2>3. local' \in [Actors -> Reads]
    BY <1>1 DEF Resolve, Typed, TypeOK, Reads
  <2> QED BY <1>1, <2>2, <2>3 DEF Resolve, NoRows, NoGit, Typed, TypeOK, Running, Reads, Steps
<1>2. CASE LookUp(a)
  <2>1. todo[a] # <<>> /\ Head(todo[a]) \in {"definition", "refresh"}
    BY <1>2 DEF LookUp, Typed, UnderWay, Getting
  <2>2. cache[local[a].key] \in Revisions
    BY DEF Typed, TypeOK
  <2>3. CASE cache[local[a].key] # 0
    <3>1. local' = [local EXCEPT ![a].topology = cache[local[a].key]] /\ Next1(a)
      BY <1>2, <2>3 DEF LookUp
    <3>2. Running'
      BY <2>1, <3>1, PopRuns
    <3>3. local' \in [Actors -> Reads]
      BY <2>2, <3>1 DEF Typed, TypeOK, Reads
    <3> QED BY <1>2, <3>2, <3>3 DEF LookUp, NoRows, NoGit, Typed, TypeOK, Running, Reads, Steps
  <2>4. CASE cache[local[a].key] = 0
    <3>1. Goes(a, "fetch") /\ UNCHANGED local
      BY <1>2, <2>4 DEF LookUp
    <3>2. Running'
      BY <2>1, <3>1, GoRuns DEF Getting
    <3> QED BY <1>2, <3>1, <3>2 DEF LookUp, NoRows, NoGit, Typed, TypeOK, Running, Steps
  <2> QED BY <2>3, <2>4
<1>3. CASE Fetch(a)
  <2>1. todo[a] # <<>> /\ Head(todo[a]) \in {"definition", "refresh"}
    BY <1>3 DEF Fetch, Typed, UnderWay, Getting
  <2>2. Running'
    BY <1>3, <2>1, GoRuns DEF Fetch, Getting
  <2>3. ReadAt(local[a].key) \in Revisions
    BY DEF Typed, TypeOK
  <2>4. local' \in [Actors -> Reads]
    BY <1>3, <2>3 DEF Fetch, Typed, TypeOK, Reads
  <2> QED BY <1>3, <2>2, <2>4 DEF Fetch, NoRows, NoGit, Typed, TypeOK, Running, Reads, Steps
<1>4. CASE Store(a)
  <2>1. todo[a] # <<>>
    BY <1>4 DEF Store, Typed, UnderWay, Getting
  <2>2. CASE local[a].file \in Loads
    <3>1. /\ cache' = [cache EXCEPT ![local[a].key] = local[a].file]
          /\ local' = [local EXCEPT ![a].topology = local[a].file, ![a].file = 0]
          /\ Next1(a) /\ NoRows /\ NoGit
      BY <1>4, <2>2 DEF Store
    <3>2. Running'
      BY <2>1, <3>1, PopRuns
    <3>3. local[a] \in Reads
      BY DEF Typed, TypeOK, Reads
    <3>4. local' \in [Actors -> Reads] /\ cache' \in [Revisions -> Revisions]
      BY <3>1, <3>3 DEF Typed, TypeOK, Reads
    <3> QED BY <3>1, <3>2, <3>4 DEF NoRows, NoGit, Typed, TypeOK, Running, Reads, Steps
  <2>3. CASE local[a].file \notin Loads
    <3>1. Fails(a) /\ UNCHANGED <<cache, local>> /\ NotBuilt /\ NoGit
      BY <1>4, <2>3 DEF Store
    <3>2. Running'
      BY <3>1, FailRuns
    <3>3. pool' = pool \/ pool' = [state |-> "refused", rev |-> 0]
      BY <3>1, FailsTyped
    <3> QED BY <3>1, <3>2, <3>3 DEF NotBuilt, NoGit, Typed, TypeOK, Running, Steps
  <2> QED BY <2>2, <2>3
<1> QED BY <1>1, <1>2, <1>3, <1>4 DEF GetDefinition

LEMMA BeginTyped ==
  ASSUME Typed, NEW a \in Actors, NEW tasks \in Seq(Tasks), tasks # <<>>, Begin(a, tasks)
  PROVE  Typed'
<1>1. Running'
  BY TypedRuns, BeginRuns DEF Begin
<1> QED BY <1>1 DEF Begin, NoRows, NoGit, Typed, TypeOK, Running, Steps

LEMMA MadeTyped ==
  ASSUME Typed, NEW task, NEW parts \in [Parts -> Revisions], Made(task, parts)
  PROVE  Typed'
<1>1. "build" \in Actors /\ todo["build"] # <<>>
  BY DEF Made, Doing, Actors
<1>2. Running'
  BY <1>1, TypedRuns, PopRuns DEF Made
<1> QED BY <1>2 DEF Made, NoGit, Typed, TypeOK, Running, Steps

LEMMA RequestTyped ==
  ASSUME Typed, NEW a \in Actors, Request(a)
  PROVE  Typed'
<1> USE TypedRuns, RevisionsAre, ReadTyped
<1>1. CASE AskImport(a)
  BY <1>1, BeginTyped, ImportTasksAre DEF AskImport
<1>2. CASE AskPreview(a)
  BY <1>2, BeginTyped, PreviewTasksAre DEF AskPreview
<1>3. CASE GetDefinition(a)
  BY <1>3, GetTyped
<1>4. CASE ReadContainers(a)
  <2>1. Running'
    BY <1>4, PopRuns DEF ReadContainers, Doing
  <2>2. PICK r \in Revisions : local' = [local EXCEPT ![a].containers = r]
    BY <1>4 DEF ReadContainers
  <2>3. local' \in [Actors -> Reads]
    BY <2>2 DEF Typed, TypeOK, Reads
  <2> QED BY <1>4, <2>1, <2>3
        DEF ReadContainers, NoRows, NoGit, Typed, TypeOK, Running, Reads, Steps
<1>5. CASE Match(a)
  <2>1. CASE Next1(a) /\ NoRows
    <3>1. Running'
      BY <1>5, <2>1, PopRuns DEF Match, Doing
    <3> QED BY <1>5, <2>1, <3>1 DEF Match, NoRows, NoGit, Typed, TypeOK, Running, Steps
  <2>2. CASE Fails(a) /\ NotBuilt
    <3>1. Running' /\ (pool' = pool \/ pool' = [state |-> "refused", rev |-> 0])
      BY <2>2, FailRuns, FailsTyped
    <3> QED BY <1>5, <2>2, <3>1 DEF Match, NotBuilt, NoGit, Typed, TypeOK, Running, Steps
  <2> QED BY <1>5, <2>1, <2>2 DEF Match
<1>6. CASE GitFails(a)
  <2>1. Running' /\ (pool' = pool \/ pool' = [state |-> "refused", rev |-> 0])
    BY <1>6, FailRuns, FailsTyped DEF GitFails
  <2> QED BY <1>6, <2>1 DEF GitFails, NotBuilt, NoGit, Typed, TypeOK, Running, Steps
<1>7. CASE SaveDefinition(a)
  <2>1. Running' /\ (pool' = pool \/ pool' = [state |-> "refused", rev |-> 0])
    <3>1. CASE Fails(a)
      BY <3>1, FailRuns, FailsTyped
    <3>2. CASE Next1(a) /\ UNCHANGED pool
      BY <1>7, <3>2, PopRuns DEF SaveDefinition, Doing
    <3> QED BY <1>7, <3>1, <3>2 DEF SaveDefinition
  <2> QED BY <1>7, <2>1 DEF SaveDefinition, NoGit, Typed, TypeOK, Running, Steps
<1>8. CASE Show(a)
  <2>1. Running'
    BY <1>8, PopRuns DEF Show, Doing
  <2> QED BY <1>8, <2>1 DEF Show, NoRows, NoGit, Typed, TypeOK, Running, Steps
<1> QED BY <1>1, <1>2, <1>3, <1>4, <1>5, <1>6, <1>7, <1>8 DEF Request

\* Every step keeps the types.
LEMMA StepTyped == Typed /\ [Next]_vars => Typed'
<1> SUFFICES ASSUME Typed, [Next]_vars PROVE Typed'
  OBVIOUS
<1> USE TypedRuns, RevisionsAre, ReadTyped
<1>0. "create" \in Actors /\ "build" \in Actors
  BY DEF Actors
<1>1. CASE \E a \in Actors : Request(a)
  BY <1>1, RequestTyped
<1>2. CASE AskPool
  BY <1>0, <1>2, TasksNotEmpty, BeginTyped, CreateTasksAre DEF AskPool
<1>3. CASE SavePool
  <2>1. Running'
    BY <1>0, <1>3, PopRuns DEF SavePool, Doing
  <2>2. Resolved(0) \in Revisions /\ (Resolved(0) # 0 => mode = "FRESH")
    BY DEF Resolved
  <2> QED BY <1>3, <2>1, <2>2 DEF SavePool, NotBuilt, NoGit, Typed, TypeOK, Running, Steps
<1>4. CASE ProbeContainers
  <2>1. CASE Next1("create")
    <3>1. Running'
      BY <1>0, <1>4, <2>1, PopRuns DEF ProbeContainers, Doing
    <3> QED BY <1>4, <3>1 DEF ProbeContainers, NoRows, NoGit, Typed, TypeOK, Running, Steps
  <2>2. CASE todo' = [todo EXCEPT !["create"] = <<"open">>] /\ UNCHANGED step
    <3>1. <<"open">> \in Seq(Tasks) /\ <<"open">> # <<>>
      BY DEF Tasks
    <3>2. step["create"] = "ready"
      BY <1>4 DEF ProbeContainers, Doing
    <3>3. Running'
      BY <1>0, <2>2, <3>1, <3>2 DEF Running, UnderWay, Getting
    <3> QED BY <1>4, <3>3 DEF ProbeContainers, NoRows, NoGit, Typed, TypeOK, Running, Steps
  <2> QED BY <1>4, <2>1, <2>2 DEF ProbeContainers
<1>5. CASE OpenPool
  <2>1. Running'
    BY <1>0, <1>5, PopRuns DEF OpenPool, Doing
  <2>2. pool' \in [state : {"none", "new", "open", "refused"}, rev : Revisions]
        /\ pool'.state = "open" /\ pool'.rev = pool.rev
    BY <1>5 DEF OpenPool, Typed, TypeOK
  <2> QED BY <1>5, <2>1, <2>2 DEF OpenPool, NotBuilt, NoGit, Typed, TypeOK, Running, Steps
<1>6. CASE AskSandbox
  BY <1>0, <1>6, TasksNotEmpty, BeginTyped, BuildTasksAre DEF AskSandbox
<1>7. CASE Restart
  <2>1. PICK tasks \in Seq(Tasks) : tasks # <<>> /\ todo' = [todo EXCEPT !["build"] = tasks]
    <3>1. BuildTasks # <<>> /\ LaterStages # <<>>
      BY TasksNotEmpty
    <3> QED BY <1>7, <3>1, BuildTasksAre, LaterStagesAre DEF Restart
  <2>2. Running'
    BY <1>0, <1>7, <2>1, BeginRuns DEF Restart
  <2>3. sandbox' \in [Parts -> Revisions] /\ rebuilds' \in 0..MaxRebuilds
    BY <1>7, ConstantsAssumption DEF Restart, NoSandbox, Parts, Typed, TypeOK
  <2> QED BY <1>7, <2>2, <2>3 DEF Restart, NoGit, Typed, TypeOK, Running, Steps
<1>8. CASE BuildStack \/ MakeInstance \/ WriteDockerfile \/ RunPlaybook
  <2>1. /\ local["build"].topology \in Revisions /\ local["build"].containers \in Revisions
        /\ ReadAt(pool.rev) \in Revisions /\ sandbox \in [Parts -> Revisions]
    BY <1>0 DEF Typed, TypeOK
  <2>2. /\ [sandbox EXCEPT !["stack"] = local["build"].topology] \in [Parts -> Revisions]
        /\ [sandbox EXCEPT !["topology"] = local["build"].topology,
                           !["containers"] = local["build"].containers] \in [Parts -> Revisions]
        /\ [sandbox EXCEPT !["dockerfile"] = ReadAt(pool.rev)] \in [Parts -> Revisions]
        /\ [sandbox EXCEPT !["playbook"] = ReadAt(pool.rev)] \in [Parts -> Revisions]
    BY <2>1
  <2> QED BY <1>8, <2>2, MadeTyped
        DEF BuildStack, MakeInstance, WriteDockerfile, RunPlaybook
<1>9. CASE Push
  BY <1>9, ConstantsAssumption DEF Push, NoRows, Typed, TypeOK, UnderWay, Commits
<1>10. CASE Expire
  BY <1>10 DEF Expire, NoRows, Typed, TypeOK, UnderWay
<1>11. CASE UNCHANGED vars
  BY <1>11 DEF vars, Typed, TypeOK, UnderWay
<1> QED BY <1>1, <1>2, <1>3, <1>4, <1>5, <1>6, <1>7, <1>8, <1>9, <1>10, <1>11 DEF Next

LEMMA InitTyped == Init => Typed
<1>1. <<>> \in Seq(Tasks)
  OBVIOUS
<1>2. Init => UnderWay
  BY DEF Init, UnderWay, Getting
<1>3. Init => sandbox \in [Parts -> Revisions] /\ rebuilds \in 0..MaxRebuilds
  BY RevisionsAre, ConstantsAssumption DEF Init, NoSandbox
<1>4. Init => local \in [Actors -> Reads]
  BY RevisionsAre DEF Init, NoReads, Reads
<1>5. Init => todo \in [Actors -> Seq(Tasks)] /\ step \in [Actors -> Steps]
  BY <1>1 DEF Init, Steps
<1>6. Init => mode \in Modes /\ head \in Commits /\ cache \in [Revisions -> Revisions]
  BY RevisionsAre, ConstantsAssumption DEF Init, Commits
<1>7. Init => TypeOK
  BY <1>3, <1>4, <1>5, <1>6, RevisionsAre DEF Init, TypeOK, Reads, Steps
<1> QED BY <1>2, <1>7 DEF Typed

\* The types of the variables hold in every state, with any faults.
THEOREM ReadsTyped == Spec => []TypeOK
<1>1. Typed => TypeOK
  BY DEF Typed
<1> QED BY <1>1, InitTyped, StepTyped, PTL DEF Spec

-----------------------------------------------------------------------------
(* The cache *)

\* A file that was read under the number of a commit is of that commit.
Keyed ==
  \A a \in Actors : step[a] = "store" /\ local[a].key # 0 => local[a].file = local[a].key

Cached == Typed /\ Keyed /\ CacheTrue

\* A request that begins, goes on to its next task, or ends, has nothing to store.
LEMMA PopStep ==
  ASSUME Typed, NEW a \in Actors, todo[a] # <<>>, Next1(a)
  PROVE  /\ step'[a] \in {"ready", "done"} /\ todo'[a] = Tail(todo[a])
         /\ \A b \in Actors : b # a => todo'[b] = todo[b] /\ step'[b] = step[b]
BY TypedRuns, PopRuns

LEMMA FailStep ==
  ASSUME Typed, NEW a \in Actors, Fails(a)
  PROVE  /\ step'[a] \in {"failed", "broken"} /\ todo'[a] = <<>>
         /\ \A b \in Actors : b # a => todo'[b] = todo[b] /\ step'[b] = step[b]
BY TypedRuns, FailRuns

LEMMA BeginStep ==
  ASSUME Typed, NEW a \in Actors, NEW tasks, Begin(a, tasks)
  PROVE  /\ step[a] = "idle" /\ step'[a] = "ready" /\ todo'[a] = tasks
         /\ \A b \in Actors : b # a => todo'[b] = todo[b] /\ step'[b] = step[b]
         /\ UNCHANGED <<mode, head, cache, definition, pool, sandbox, rebuilds, local>>
BY DEF Begin, Typed, TypeOK, NoRows, NoGit

LEMMA MadeStep ==
  ASSUME Typed, NEW task, NEW parts, Made(task, parts)
  PROVE  /\ step["build"] = "ready" /\ todo["build"] # <<>> /\ Head(todo["build"]) = task
         /\ step'["build"] \in {"ready", "done"} /\ todo'["build"] = Tail(todo["build"])
         /\ \A b \in Actors : b # "build" => todo'[b] = todo[b] /\ step'[b] = step[b]
         /\ sandbox' = parts
         /\ UNCHANGED <<mode, head, cache, definition, pool, rebuilds, local>>
<1>1. "build" \in Actors
  BY DEF Actors
<1>2. step["build"] = "ready" /\ todo["build"] # <<>> /\ Head(todo["build"]) = task
  BY DEF Made, Doing
<1>3. Next1("build") /\ sandbox' = parts
      /\ UNCHANGED <<mode, head, cache, definition, pool, rebuilds, local>>
  BY DEF Made, NoGit
<1> QED BY <1>1, <1>2, <1>3, PopStep

LEMMA GetStep ==
  ASSUME Typed, NEW a \in Actors, GetDefinition(a)
  PROVE  /\ todo[a] # <<>> /\ step[a] \in {"ready", "look", "fetch", "store"}
         /\ Head(todo[a]) \in {"definition", "refresh"}
         /\ \A b \in Actors : b # a =>
              todo'[b] = todo[b] /\ step'[b] = step[b] /\ local'[b] = local[b]
         /\ UNCHANGED <<mode, head, definition, sandbox, rebuilds>>
<1>1. CASE Resolve(a)
  BY <1>1 DEF Resolve, Goes, Doing, NoRows, NoGit, Typed, TypeOK
<1>2. CASE LookUp(a)
  <2>1. todo[a] # <<>> /\ Head(todo[a]) \in {"definition", "refresh"}
    BY <1>2 DEF LookUp, Typed, UnderWay, Getting
  <2>2. CASE Next1(a)
    BY <1>2, <2>1, <2>2, PopStep DEF LookUp, NoRows, NoGit, Typed, TypeOK
  <2>3. CASE Goes(a, "fetch") /\ UNCHANGED local
    BY <1>2, <2>1, <2>3 DEF LookUp, Goes, NoRows, NoGit, Typed, TypeOK
  <2>4. Next1(a) \/ (Goes(a, "fetch") /\ UNCHANGED local)
    BY <1>2 DEF LookUp
  <2> QED BY <2>2, <2>3, <2>4
<1>3. CASE Fetch(a)
  <2>1. todo[a] # <<>> /\ Head(todo[a]) \in {"definition", "refresh"}
    BY <1>3 DEF Fetch, Typed, UnderWay, Getting
  <2> QED BY <1>3, <2>1 DEF Fetch, Goes, NoRows, NoGit, Typed, TypeOK
<1>4. CASE Store(a)
  <2>1. todo[a] # <<>> /\ Head(todo[a]) \in {"definition", "refresh"}
    BY <1>4 DEF Store, Typed, UnderWay, Getting
  <2>2. CASE Next1(a) /\ NoRows /\ local' = [local EXCEPT ![a].topology = local[a].file, ![a].file = 0]
    BY <1>4, <2>1, <2>2, PopStep DEF Store, NoRows, NoGit, Typed, TypeOK
  <2>3. CASE Fails(a) /\ UNCHANGED local /\ NotBuilt
    BY <1>4, <2>1, <2>3, FailStep DEF Store, NotBuilt, NoGit, Typed, TypeOK
  <2>4. \/ Next1(a) /\ NoRows /\ local' = [local EXCEPT ![a].topology = local[a].file, ![a].file = 0]
        \/ Fails(a) /\ UNCHANGED local /\ NotBuilt
    BY <1>4 DEF Store
  <2> QED BY <2>2, <2>3, <2>4
<1> QED BY <1>1, <1>2, <1>3, <1>4 DEF GetDefinition

\* Apart from get_definition, nothing is cached, and of what a request has read only
\* the containers change.
SameReads(a) ==
  /\ local'[a].topology = local[a].topology
  /\ local'[a].containers = local[a].containers \/ local'[a].containers \in {0, ReadAt(Asked(a))}
  /\ step'[a] \in Getting => step'[a] = step[a] /\ local'[a] = local[a]

LEMMA LocalSame ==
  ASSUME Typed, UNCHANGED local,
         \A a \in Actors : step'[a] \in Getting => step'[a] = step[a]
  PROVE  \A a \in Actors : SameReads(a)
BY DEF SameReads

LEMMA ElsewhereStep ==
  ASSUME Typed, [Next]_vars, \A a \in Actors : ~GetDefinition(a)
  PROVE  /\ \A k \in Revisions : cache'[k] \in {0, cache[k]}
         /\ \A a \in Actors : SameReads(a)
<1>0. "create" \in Actors /\ "build" \in Actors
  BY DEF Actors
<1>1. ASSUME NEW a \in Actors, Request(a) PROVE UNCHANGED cache /\ \A b \in Actors : SameReads(b)
  <2>1. CASE AskImport(a) \/ AskPreview(a)
    BY <2>1, BeginStep, LocalSame DEF AskImport, AskPreview, Getting
  <2>2. CASE ReadContainers(a)
    <3>1. todo[a] # <<>> /\ Next1(a) /\ UNCHANGED cache
      BY <2>2 DEF ReadContainers, Doing
    <3>2. PICK r \in {0, ReadAt(Asked(a))} : local' = [local EXCEPT ![a].containers = r]
      BY <2>2 DEF ReadContainers
    <3>3. \A b \in Actors : b # a => SameReads(b)
      BY <3>1, <3>2, PopStep DEF SameReads, Typed, TypeOK
    <3>4. SameReads(a)
      <4>1. local'[a].topology = local[a].topology /\ local'[a].containers = r
        BY <3>2 DEF Typed, TypeOK
      <4>2. step'[a] \notin Getting
        BY <3>1, PopStep DEF Getting
      <4> QED BY <4>1, <4>2 DEF SameReads
    <3> QED BY <3>1, <3>3, <3>4
  <2>3. CASE Match(a)
    <3>1. todo[a] # <<>> /\ (Next1(a) \/ Fails(a)) /\ UNCHANGED <<cache, local>>
      BY <2>3 DEF Match, Doing
    <3> QED BY <3>1, PopStep, FailStep, LocalSame DEF Getting
  <2>4. CASE GitFails(a)
    BY <2>4, FailStep, LocalSame DEF GitFails, Getting
  <2>5. CASE SaveDefinition(a)
    <3>1. todo[a] # <<>> /\ (Next1(a) \/ Fails(a)) /\ UNCHANGED <<cache, local>>
      BY <2>5 DEF SaveDefinition, Doing
    <3> QED BY <3>1, PopStep, FailStep, LocalSame DEF Getting
  <2>6. CASE Show(a)
    <3>1. todo[a] # <<>> /\ Next1(a) /\ UNCHANGED <<cache, local>>
      BY <2>6 DEF Show, Doing
    <3> QED BY <3>1, PopStep, LocalSame DEF Getting
  <2> QED BY <1>1, <2>1, <2>2, <2>3, <2>4, <2>5, <2>6 DEF Request
<1>2. ASSUME AskPool \/ AskSandbox
      PROVE  UNCHANGED cache /\ \A b \in Actors : SameReads(b)
  BY <1>0, <1>2, BeginStep, LocalSame DEF AskPool, AskSandbox, Getting
<1>3. ASSUME SavePool \/ OpenPool PROVE UNCHANGED cache /\ \A b \in Actors : SameReads(b)
  <2>1. todo["create"] # <<>> /\ Next1("create") /\ UNCHANGED <<cache, local>>
    BY <1>3 DEF SavePool, OpenPool, Doing
  <2> QED BY <1>0, <2>1, PopStep, LocalSame DEF Getting
<1>4. ASSUME ProbeContainers PROVE UNCHANGED cache /\ \A b \in Actors : SameReads(b)
  <2>1. todo["create"] # <<>> /\ (Next1("create") \/ UNCHANGED step) /\ UNCHANGED <<cache, local>>
    BY <1>4 DEF ProbeContainers, Doing
  <2>2. CASE Next1("create")
    BY <1>0, <2>1, <2>2, PopStep, LocalSame DEF Getting
  <2>3. CASE UNCHANGED step
    BY <2>1, <2>3, LocalSame
  <2> QED BY <2>1, <2>2, <2>3
<1>5. ASSUME BuildStack \/ MakeInstance \/ WriteDockerfile \/ RunPlaybook
      PROVE  UNCHANGED cache /\ \A b \in Actors : SameReads(b)
  <2>1. PICK task : \E parts : Made(task, parts)
    BY <1>5, Zenon DEF BuildStack, MakeInstance, WriteDockerfile, RunPlaybook
  <2> QED BY <1>0, <2>1, MadeStep, LocalSame DEF Getting
<1>6. ASSUME Restart PROVE UNCHANGED cache /\ \A b \in Actors : SameReads(b)
  <2>1. step' = [step EXCEPT !["build"] = "ready"] /\ UNCHANGED <<cache, local>>
    BY <1>6 DEF Restart
  <2>2. \A b \in Actors : step'[b] \in Getting => step'[b] = step[b]
    BY <2>1 DEF Getting, Typed, TypeOK
  <2> QED BY <2>1, <2>2, LocalSame
<1>7. ASSUME Push \/ UNCHANGED vars PROVE UNCHANGED cache /\ \A b \in Actors : SameReads(b)
  <2>1. UNCHANGED <<cache, step, local>>
    BY <1>7 DEF Push, vars
  <2> QED BY <2>1, LocalSame
<1>8. ASSUME Expire PROVE (\A k \in Revisions : cache'[k] \in {0, cache[k]}) /\ \A b \in Actors : SameReads(b)
  <2>1. UNCHANGED <<step, local>>
    BY <1>8 DEF Expire
  <2>2. \A k \in Revisions : cache'[k] \in {0, cache[k]}
    BY <1>8 DEF Expire, Typed, TypeOK
  <2> QED BY <2>1, <2>2, LocalSame
<1>9. CASE Expire
  BY <1>8, <1>9
<1>10. CASE UNCHANGED cache /\ \A b \in Actors : SameReads(b)
  BY <1>10
<1> QED BY <1>1, <1>2, <1>3, <1>4, <1>5, <1>6, <1>7, <1>9, <1>10, Zenon DEF Next

\* What get_definition stores was read under the key it stores it under.
LEMMA GetCached ==
  ASSUME Cached, NEW a \in Actors, GetDefinition(a)
  PROVE  Keyed' /\ CacheTrue'
<1>0. Typed /\ Keyed /\ CacheTrue
  BY DEF Cached
<1>1. \A b \in Actors : b # a => step'[b] = step[b] /\ local'[b] = local[b]
  BY <1>0, GetStep
<1>2. CASE Fetch(a)
  <2>1. /\ step' = [step EXCEPT ![a] = "store"] /\ UNCHANGED cache
        /\ local' = [local EXCEPT ![a].file = ReadAt(local[a].key)]
    BY <1>2 DEF Fetch, Goes
  <2>2. local'[a].file = ReadAt(local[a].key) /\ local'[a].key = local[a].key
    BY <1>0, <2>1 DEF Typed, TypeOK
  <2>3. local'[a].key # 0 => local'[a].file = local'[a].key
    BY <2>2 DEF ReadAt
  <2> QED BY <1>0, <1>1, <2>1, <2>3 DEF Keyed, CacheTrue
<1>3. CASE Store(a)
  <2>1. CASE local[a].file \in Loads
    <3>1. cache' = [cache EXCEPT ![local[a].key] = local[a].file] /\ Next1(a) /\ step[a] = "store"
      BY <1>3, <2>1 DEF Store
    <3>2. step'[a] # "store"
      BY <1>0, <1>3, <3>1, PopStep, GetStep DEF GetDefinition
    <3>3. local[a].key \in Revisions /\ local[a].key \in Commits => local[a].file = local[a].key
      BY <1>0, <3>1, ConstantsAssumption DEF Keyed, Typed, TypeOK, Commits
    <3>4. \A k \in Revisions : cache'[k] = IF k = local[a].key THEN local[a].file ELSE cache[k]
      BY <1>0, <3>1 DEF Typed, TypeOK
    <3>5. CacheTrue'
      BY <1>0, <2>1, <3>3, <3>4, RevisionsAre DEF CacheTrue
    <3> QED BY <1>0, <1>1, <3>2, <3>5 DEF Keyed
  <2>2. CASE local[a].file \notin Loads
    <3>1. Fails(a) /\ UNCHANGED cache
      BY <1>3, <2>2 DEF Store
    <3>2. step'[a] # "store"
      BY <1>0, <3>1, FailStep
    <3> QED BY <1>0, <1>1, <3>1, <3>2 DEF Keyed, CacheTrue
  <2> QED BY <2>1, <2>2
<1>4. CASE Resolve(a)
  <2>1. step'[a] # "store" /\ UNCHANGED cache
    BY <1>0, <1>4 DEF Resolve, Goes, Typed, TypeOK
  <2> QED BY <1>0, <1>1, <2>1 DEF Keyed, CacheTrue
<1>5. CASE LookUp(a)
  <2>1. (Next1(a) \/ Goes(a, "fetch")) /\ UNCHANGED cache
    BY <1>5 DEF LookUp
  <2>2. step'[a] # "store"
    <3>1. CASE Next1(a)
      BY <1>0, <1>5, <3>1, PopStep, GetStep DEF GetDefinition
    <3>2. CASE Goes(a, "fetch")
      BY <1>0, <3>2 DEF Goes, Typed, TypeOK
    <3> QED BY <2>1, <3>1, <3>2
  <2> QED BY <1>0, <1>1, <2>1, <2>2 DEF Keyed, CacheTrue
<1> QED BY <1>2, <1>3, <1>4, <1>5 DEF GetDefinition

LEMMA StepCached == Cached /\ [Next]_vars => Cached'
<1> SUFFICES ASSUME Cached, [Next]_vars PROVE Cached'
  OBVIOUS
<1>0. Typed /\ Keyed /\ CacheTrue /\ Typed'
  BY StepTyped DEF Cached
<1>1. CASE \E a \in Actors : GetDefinition(a)
  BY <1>0, <1>1, GetCached DEF Cached
<1>2. CASE \A a \in Actors : ~GetDefinition(a)
  <2>1. /\ \A k \in Revisions : cache'[k] \in {0, cache[k]}
        /\ \A a \in Actors : SameReads(a)
    BY <1>0, <1>2, ElsewhereStep
  <2>2. CacheTrue'
    BY <1>0, <2>1, RevisionsAre DEF CacheTrue
  <2>3. Keyed'
    BY <1>0, <2>1 DEF Keyed, SameReads, Getting
  <2> QED BY <1>0, <2>2, <2>3 DEF Cached
<1> QED BY <1>1, <1>2

\* Whatever fails, expires or is pushed between the reads of the requests, what is
\* cached under a commit is of that commit, and nothing is cached that was not
\* validated.
THEOREM CacheNeverLies == Spec => []CacheTrue
<1>1. Init => Cached
  <2>1. Init => Keyed /\ CacheTrue
    BY RevisionsAre DEF Init, Keyed, CacheTrue
  <2> QED BY <2>1, InitTyped DEF Cached
<1>2. Cached => CacheTrue
  BY DEF Cached
<1> QED BY <1>1, <1>2, StepCached, PTL DEF Spec

-----------------------------------------------------------------------------
(* The steps, as far as one request sees them *)

Popped(a) == /\ todo[a] # <<>> /\ todo'[a] = Tail(todo[a])
             /\ step[a] \notin {"idle", "done", "failed", "broken"} /\ step'[a] \in {"ready", "done"}
Failed(a) == todo'[a] = <<>> /\ step'[a] \in {"failed", "broken"}
Stays(a) == /\ todo[a] # <<>> /\ Head(todo[a]) \in {"definition", "refresh"} /\ todo'[a] = todo[a]
            /\ step[a] \notin {"idle", "done", "failed", "broken"} /\ step'[a] \in Getting

\* get_definition goes on looking, or finds a topology, or fails.
Looks(a) ==
  /\ Stays(a) /\ local'[a].topology = local[a].topology
  /\ \/ local'[a].key = Resolved(Asked(a))
     \/ step[a] \in Getting /\ local'[a].key = local[a].key
Finds(a) ==
  /\ Popped(a) /\ Head(todo[a]) \in {"definition", "refresh"}
  /\ local'[a].topology # 0 /\ local'[a].key = local[a].key
  /\ \/ step[a] = "look" /\ local'[a].topology = cache[local[a].key]
     \/ step[a] = "store" /\ local'[a].topology = local[a].file

LEMMA GetReads ==
  ASSUME Typed, NEW a \in Actors, GetDefinition(a)
  PROVE  /\ local'[a].containers = local[a].containers
         /\ \/ Looks(a) /\ UNCHANGED pool
            \/ Finds(a) /\ UNCHANGED pool
            \/ Fails(a) /\ Failed(a) /\ UNCHANGED local
<1>0. /\ todo[a] # <<>> /\ Head(todo[a]) \in {"definition", "refresh"}
      /\ local[a] \in Reads
  BY GetStep DEF Typed, TypeOK, Reads
<1>1. CASE Resolve(a)
  <2>0. local' = [local EXCEPT ![a].key = Resolved(Asked(a))]
    BY <1>1 DEF Resolve
  <2>1. step[a] = "ready" /\ UNCHANGED pool
    BY <1>1 DEF Resolve, Doing, NoRows
  <2>2. /\ local'[a].key = Resolved(Asked(a)) /\ local'[a].topology = local[a].topology
        /\ local'[a].containers = local[a].containers
    BY <2>0 DEF Typed, TypeOK
  <2>3. Stays(a)
    BY <1>0, <1>1, <2>1 DEF Resolve, Goes, Stays, Getting, Typed, TypeOK
  <2> QED BY <2>1, <2>2, <2>3 DEF Looks
<1>2. CASE LookUp(a)
  <2>1. step[a] = "look" /\ UNCHANGED pool
    BY <1>2 DEF LookUp, NoRows
  <2>2. CASE cache[local[a].key] # 0
    <3>1. local' = [local EXCEPT ![a].topology = cache[local[a].key]] /\ Next1(a)
      BY <1>2, <2>2 DEF LookUp
    <3>2. /\ local'[a].topology = cache[local[a].key] /\ local'[a].key = local[a].key
          /\ local'[a].containers = local[a].containers
      BY <3>1 DEF Typed, TypeOK
    <3>3. Popped(a)
      BY <1>0, <2>1, <3>1, PopStep DEF Popped
    <3> QED BY <1>0, <2>1, <2>2, <3>2, <3>3 DEF Finds
  <2>3. CASE cache[local[a].key] = 0
    <3>1. Goes(a, "fetch") /\ UNCHANGED local
      BY <1>2, <2>3 DEF LookUp
    <3> QED BY <1>0, <2>1, <3>1 DEF Goes, Stays, Looks, Getting, Typed, TypeOK
  <2> QED BY <2>2, <2>3
<1>3. CASE Fetch(a)
  <2>1. step[a] = "fetch" /\ UNCHANGED pool /\ Stays(a)
    BY <1>0, <1>3 DEF Fetch, Goes, Stays, NoRows, Getting, Typed, TypeOK
  <2>2. local' = [local EXCEPT ![a].file = ReadAt(local[a].key)]
    BY <1>3 DEF Fetch
  <2>3. /\ local'[a].topology = local[a].topology /\ local'[a].key = local[a].key
        /\ local'[a].containers = local[a].containers
    BY <2>2 DEF Typed, TypeOK
  <2> QED BY <2>1, <2>3 DEF Looks, Getting
<1>4. CASE Store(a)
  <2>1. step[a] = "store"
    BY <1>4 DEF Store
  <2>2. CASE local[a].file \in Loads
    <3>1. /\ local' = [local EXCEPT ![a].topology = local[a].file, ![a].file = 0]
          /\ Next1(a) /\ UNCHANGED pool
      BY <1>4, <2>2 DEF Store, NoRows
    <3>2. /\ local'[a].topology = local[a].file /\ local'[a].key = local[a].key
          /\ local'[a].containers = local[a].containers
      BY <3>1 DEF Typed, TypeOK
    <3>3. local[a].file # 0
      BY <2>2, ConstantsAssumption DEF Commits
    <3>4. Popped(a)
      BY <1>0, <2>1, <3>1, PopStep DEF Popped
    <3> QED BY <1>0, <2>1, <3>1, <3>2, <3>3, <3>4 DEF Finds
  <2>3. CASE local[a].file \notin Loads
    BY <1>4, <2>3, FailStep DEF Store, Failed
  <2> QED BY <2>2, <2>3
<1> QED BY <1>1, <1>2, <1>3, <1>4 DEF GetDefinition

\* A task of another kind is done, and nothing else of the request changes, except
\* what its pool or its sandbox gets by it.
Does(a) ==
  /\ Popped(a) /\ step[a] = "ready"
  /\ \/ /\ Head(todo[a]) = "containers"
        /\ local'[a].topology = local[a].topology /\ local'[a].key = local[a].key
        /\ \/ local'[a].containers = ReadAt(Asked(a))
           \/ local'[a].containers = 0 /\ "absent" \in Faults
     \/ /\ Head(todo[a]) = "match" /\ local'[a] = local[a]
        /\ \/ local[a].containers = 0
           \/ <<local[a].topology, local[a].containers>> \in Matches
     \/ /\ Head(todo[a]) \in {"probe", "save", "show"} /\ local'[a] = local[a]

LEMMA RequestStep ==
  ASSUME Typed, NEW a \in Actors, Request(a)
  PROVE  /\ \A b \in Actors : b # a =>
              todo'[b] = todo[b] /\ step'[b] = step[b] /\ local'[b] = local[b]
         /\ UNCHANGED <<mode, head, sandbox, rebuilds>>
         /\ \/ Looks(a) /\ local'[a].containers = local[a].containers /\ UNCHANGED pool
            \/ Finds(a) /\ local'[a].containers = local[a].containers /\ UNCHANGED pool
            \/ Does(a) /\ UNCHANGED pool
            \/ Fails(a) /\ Failed(a) /\ UNCHANGED local
            \/ /\ a \in Importers \union Previews /\ step[a] = "idle"
               /\ UNCHANGED <<pool, local>>
<1>1. CASE AskImport(a) \/ AskPreview(a)
  BY <1>1, BeginStep DEF AskImport, AskPreview
<1>2. CASE GetDefinition(a)
  BY <1>2, GetReads, GetStep
<1>3. CASE ReadContainers(a)
  <2>1. step[a] = "ready" /\ todo[a] # <<>> /\ Head(todo[a]) = "containers" /\ Next1(a)
        /\ UNCHANGED <<mode, head, sandbox, rebuilds, pool>>
    BY <1>3 DEF ReadContainers, Doing, NoRows, NoGit
  <2>2. PICK r \in Revisions : /\ local' = [local EXCEPT ![a].containers = r]
                               /\ r = ReadAt(Asked(a)) \/ (r = 0 /\ "absent" \in Faults)
    BY <1>3, ReadTyped, RevisionsAre DEF ReadContainers
  <2>3. /\ \A b \in Actors : b # a => local'[b] = local[b]
        /\ local'[a].topology = local[a].topology /\ local'[a].key = local[a].key
        /\ local'[a].containers = r
    BY <2>2 DEF Typed, TypeOK
  <2>4. Popped(a)
    BY <2>1, PopStep DEF Popped
  <2>5. Does(a)
    BY <2>1, <2>2, <2>3, <2>4 DEF Does
  <2> QED BY <2>1, <2>3, <2>5, PopStep
<1>4. CASE Match(a)
  <2>1. step[a] = "ready" /\ todo[a] # <<>> /\ Head(todo[a]) = "match" /\ UNCHANGED <<mode, head, local>>
    BY <1>4 DEF Match, Doing, NoGit
  <2>2. CASE /\ Next1(a) /\ NoRows
             /\ \/ local[a].containers = 0
                \/ <<local[a].topology, local[a].containers>> \in Matches
    <3>1. Popped(a)
      BY <2>1, <2>2, PopStep DEF Popped
    <3>2. Does(a)
      BY <2>1, <2>2, <3>1 DEF Does
    <3> QED BY <2>1, <2>2, <3>2, PopStep DEF NoRows
  <2>3. CASE Fails(a) /\ NotBuilt
    BY <2>1, <2>3, FailStep DEF NotBuilt, Failed
  <2> QED BY <1>4, <2>2, <2>3 DEF Match
<1>5. CASE GitFails(a)
  BY <1>5, FailStep DEF GitFails, NotBuilt, NoGit, Failed
<1>6. CASE SaveDefinition(a)
  <2>1. step[a] = "ready" /\ todo[a] # <<>> /\ Head(todo[a]) = "save"
        /\ UNCHANGED <<mode, head, local, sandbox, rebuilds>>
    BY <1>6 DEF SaveDefinition, Doing, NoGit
  <2>2. CASE Next1(a) /\ UNCHANGED pool
    <3>1. Popped(a)
      BY <2>1, <2>2, PopStep DEF Popped
    <3>2. Does(a)
      BY <2>1, <2>2, <3>1 DEF Does
    <3> QED BY <2>1, <2>2, <3>2, PopStep
  <2>3. CASE Fails(a)
    BY <2>1, <2>3, FailStep DEF Failed
  <2> QED BY <1>6, <2>2, <2>3 DEF SaveDefinition
<1>7. CASE Show(a)
  <2>1. step[a] = "ready" /\ todo[a] # <<>> /\ Head(todo[a]) = "show" /\ Next1(a)
        /\ UNCHANGED <<mode, head, local, sandbox, rebuilds, pool>>
    BY <1>7 DEF Show, Doing, NoRows, NoGit
  <2>2. Popped(a)
    BY <2>1, PopStep DEF Popped
  <2>3. Does(a)
    BY <2>1, <2>2 DEF Does
  <2> QED BY <2>1, <2>3, PopStep
<1> QED BY <1>1, <1>2, <1>3, <1>4, <1>5, <1>6, <1>7 DEF Request

-----------------------------------------------------------------------------
(* The commit of a pool *)

\* The row of the pool is what its creation makes first.
RowFirst ==
  /\ \A i \in 2..Len(todo["create"]) : todo["create"][i] # "row"
  /\ todo["create"] # <<>> => (Head(todo["create"]) = "row" <=> pool.state = "none")
  /\ step["create"] = "idle" => pool.state = "none"

\* No sandbox is built and nothing is read for it before its pool is there.
PoolFirst ==
  /\ pool.state \in {"none", "refused"} => step["build"] = "idle"
  /\ step["build"] = "idle" => sandbox = NoSandbox /\ local["build"] = NoReads
  /\ pool.state = "none" => local["create"] = NoReads

\* What is read for a pool, and for a sandbox of it, is of the commit of the pool.
PoolReads ==
  pool.rev # 0 =>
    \A a \in {"create", "build"} :
      /\ local[a].topology \in {0, pool.rev} /\ local[a].containers \in {0, pool.rev}
      /\ step[a] \in Getting => local[a].key = pool.rev

OfOneCommit == Cached /\ RowFirst /\ PoolFirst /\ PoolReads /\ OneCommit

LEMMA PopRow ==
  ASSUME Typed, RowFirst, Popped("create"), pool'.state # "none"
  PROVE  RowFirst'
<1>1. todo["create"] \in Seq(Tasks) /\ todo["create"] # <<>> /\ todo'["create"] = Tail(todo["create"])
  BY DEF Typed, TypeOK, Popped, Actors
<1>2. /\ Len(todo["create"]) \in Nat /\ Tail(todo["create"]) \in Seq(Tasks)
      /\ Len(Tail(todo["create"])) = Len(todo["create"]) - 1
      /\ \A i \in 1..Len(Tail(todo["create"])) : Tail(todo["create"])[i] = todo["create"][i + 1]
  BY <1>1, TailOfTasks
<1>3. \A i \in 1..Len(todo'["create"]) : todo'["create"][i] # "row"
  BY <1>1, <1>2 DEF RowFirst
<1>4. todo'["create"] # <<>> => Head(todo'["create"]) = todo'["create"][1] /\ Len(todo'["create"]) >= 1
  BY <1>1, <1>2, TailOfTasks
<1>5. \A i \in 2..Len(todo'["create"]) : todo'["create"][i] # "row"
  <2>1. \A n \in Nat : \A i \in 2..n : i \in 1..n
    OBVIOUS
  <2>2. Len(Tail(todo["create"])) \in Nat
    BY <1>2, LenProperties
  <2> QED BY <1>1, <1>3, <2>1, <2>2, Zenon
<1>6. todo'["create"] # <<>> => Head(todo'["create"]) # "row"
  <2> SUFFICES ASSUME todo'["create"] # <<>> PROVE Head(todo'["create"]) # "row"
    OBVIOUS
  <2>1. 1 \in 1..Len(todo'["create"])
    BY <1>1, <1>2, <1>4
  <2> QED BY <1>3, <1>4, <2>1
<1>7. step'["create"] # "idle"
  BY DEF Popped
<1> QED BY <1>5, <1>6, <1>7 DEF RowFirst

\* Steps of others.
LEMMA OthersOfOne ==
  ASSUME OfOneCommit, UNCHANGED <<pool, sandbox>>,
         \A b \in {"create", "build"} :
           todo'[b] = todo[b] /\ step'[b] = step[b] /\ local'[b] = local[b]
  PROVE  RowFirst' /\ PoolFirst' /\ PoolReads' /\ OneCommit'
BY DEF OfOneCommit, RowFirst, PoolFirst, PoolReads, OneCommit

LEMMA CreateOfOne ==
  ASSUME OfOneCommit, Request("create")
  PROVE  RowFirst' /\ PoolFirst' /\ PoolReads' /\ OneCommit'
<1>0. /\ Typed /\ RowFirst /\ PoolFirst /\ PoolReads /\ OneCommit /\ Keyed /\ CacheTrue
      /\ "create" \in Actors /\ "build" \in Actors /\ "create" \notin Importers \union Previews
  BY ConstantsAssumption DEF OfOneCommit, Cached, Actors
<1>1. /\ todo'["build"] = todo["build"] /\ step'["build"] = step["build"]
      /\ local'["build"] = local["build"] /\ UNCHANGED <<mode, head, sandbox>>
  BY <1>0, RequestStep
<1>2. pool.rev # 0 => Resolved(Asked("create")) = pool.rev /\ ReadAt(Asked("create")) = pool.rev
  BY DEF Resolved, Asked, ReadAt
<1>3. pool.rev # 0 => cache[pool.rev] \in {0, pool.rev}
  BY <1>0, RevisionsAre DEF CacheTrue, Typed, TypeOK
<1>4. CASE Looks("create") /\ local'["create"].containers = local["create"].containers /\ UNCHANGED pool
  <2>1. pool.state # "none"
    BY <1>0, <1>4 DEF RowFirst, Looks, Stays
  <2>2. RowFirst'
    BY <1>0, <1>4 DEF RowFirst, Looks, Stays, Getting
  <2>3. PoolReads'
    BY <1>0, <1>1, <1>2, <1>4 DEF PoolReads, Looks
  <2> QED BY <1>0, <1>1, <1>4, <2>1, <2>2, <2>3 DEF PoolFirst, OneCommit
<1>5. CASE Finds("create") /\ local'["create"].containers = local["create"].containers /\ UNCHANGED pool
  <2>1. pool.state # "none"
    BY <1>0, <1>5 DEF RowFirst, Finds, Popped
  <2>2. RowFirst'
    BY <1>0, <1>5, <2>1, PopRow DEF Finds
  <2>3. pool.rev # 0 => local'["create"].topology \in {0, pool.rev}
    BY <1>0, <1>3, <1>5 DEF Finds, Keyed, PoolReads, Getting
  <2>4. PoolReads'
    BY <1>0, <1>1, <1>5, <2>3 DEF PoolReads, Finds, Popped, Getting
  <2> QED BY <1>0, <1>1, <1>5, <2>1, <2>2, <2>4 DEF PoolFirst, OneCommit
<1>6. CASE Does("create") /\ UNCHANGED pool
  <2>1. pool.state # "none"
    BY <1>0, <1>6 DEF RowFirst, Does, Popped
  <2>2. RowFirst'
    BY <1>0, <1>6, <2>1, PopRow DEF Does
  <2>3. step'["create"] \notin Getting
    BY <1>6 DEF Does, Popped, Getting
  <2>4. /\ local'["create"].topology = local["create"].topology
        /\ local'["create"].containers \in {0, local["create"].containers, ReadAt(Asked("create"))}
    BY <1>6 DEF Does
  <2>5. PoolReads'
    BY <1>0, <1>1, <1>2, <1>6, <2>3, <2>4 DEF PoolReads
  <2> QED BY <1>0, <1>1, <1>6, <2>1, <2>2, <2>5 DEF PoolFirst, OneCommit
<1>7. CASE Fails("create") /\ Failed("create") /\ UNCHANGED local
  <2>1. pool' = pool \/ (pool'.state = "refused" /\ pool'.rev = 0 /\ step["build"] = "idle")
    BY <1>0, <1>7, FailsTyped
  <2>2. RowFirst'
    BY <1>7 DEF RowFirst, Failed
  <2>3. PoolReads'
    BY <1>0, <1>1, <1>7, <2>1 DEF PoolReads, Failed, Getting
  <2>4. PoolFirst'
    BY <1>0, <1>1, <1>7, <2>1 DEF PoolFirst
  <2> QED BY <1>0, <1>1, <2>1, <2>2, <2>3, <2>4 DEF OneCommit
<1> QED BY <1>0, <1>4, <1>5, <1>6, <1>7, RequestStep

LEMMA BuildOfOne ==
  ASSUME OfOneCommit, Request("build")
  PROVE  RowFirst' /\ PoolFirst' /\ PoolReads' /\ OneCommit'
<1>0. /\ Typed /\ RowFirst /\ PoolFirst /\ PoolReads /\ OneCommit /\ Keyed /\ CacheTrue
      /\ "create" \in Actors /\ "build" \in Actors /\ "build" \notin Importers \union Previews
  BY ConstantsAssumption DEF OfOneCommit, Cached, Actors
<1>1. /\ todo'["create"] = todo["create"] /\ step'["create"] = step["create"]
      /\ local'["create"] = local["create"] /\ UNCHANGED <<mode, head, sandbox>>
  BY <1>0, RequestStep
<1>2. pool.rev # 0 => Resolved(Asked("build")) = pool.rev /\ ReadAt(Asked("build")) = pool.rev
  BY DEF Resolved, Asked, ReadAt
<1>3. pool.rev # 0 => cache[pool.rev] \in {0, pool.rev}
  BY <1>0, RevisionsAre DEF CacheTrue, Typed, TypeOK
<1>4. CASE Looks("build") /\ local'["build"].containers = local["build"].containers /\ UNCHANGED pool
  <2>1. step["build"] # "idle" /\ step'["build"] # "idle"
    BY <1>4 DEF Looks, Stays, Getting
  <2>2. PoolReads'
    BY <1>0, <1>1, <1>2, <1>4 DEF PoolReads, Looks
  <2> QED BY <1>0, <1>1, <1>4, <2>1, <2>2 DEF PoolFirst, OneCommit, RowFirst
<1>5. CASE Finds("build") /\ local'["build"].containers = local["build"].containers /\ UNCHANGED pool
  <2>1. step["build"] # "idle" /\ step'["build"] # "idle" /\ step'["build"] \notin Getting
    BY <1>5 DEF Finds, Popped, Getting
  <2>2. pool.rev # 0 => local'["build"].topology \in {0, pool.rev}
    BY <1>0, <1>3, <1>5 DEF Finds, Keyed, PoolReads, Getting
  <2>3. PoolReads'
    BY <1>0, <1>1, <1>5, <2>1, <2>2 DEF PoolReads
  <2> QED BY <1>0, <1>1, <1>5, <2>1, <2>3 DEF PoolFirst, OneCommit, RowFirst
<1>6. CASE Does("build") /\ UNCHANGED pool
  <2>1. step["build"] # "idle" /\ step'["build"] # "idle" /\ step'["build"] \notin Getting
    BY <1>6 DEF Does, Popped, Getting
  <2>2. /\ local'["build"].topology = local["build"].topology
        /\ local'["build"].containers \in {0, local["build"].containers, ReadAt(Asked("build"))}
    BY <1>6 DEF Does
  <2>3. PoolReads'
    BY <1>0, <1>1, <1>2, <1>6, <2>1, <2>2 DEF PoolReads
  <2> QED BY <1>0, <1>1, <1>6, <2>1, <2>3 DEF PoolFirst, OneCommit, RowFirst
<1>7. CASE Fails("build") /\ Failed("build") /\ UNCHANGED local
  <2>1. UNCHANGED pool
    BY <1>0, <1>7, FailsTyped
  <2>2. step["build"] # "idle"
    BY <1>0 DEF Request, AskImport, AskPreview, GetDefinition, Resolve, LookUp, Fetch, Store,
       ReadContainers, Match, GitFails, SaveDefinition, Show, Doing, Unforeseen
  <2>3. PoolReads'
    BY <1>0, <1>1, <1>7, <2>1 DEF PoolReads, Failed, Getting
  <2> QED BY <1>0, <1>1, <1>7, <2>1, <2>2, <2>3 DEF PoolFirst, OneCommit, RowFirst, Failed
<1> QED BY <1>0, <1>4, <1>5, <1>6, <1>7, RequestStep

\* What a sandbox is given when one of its parts is made.
Making ==
  \E task \in {"stack", "instance", "dockerfile", "playbook"} :
    /\ step["build"] = "ready" /\ todo["build"] # <<>> /\ Head(todo["build"]) = task
    /\ step'["build"] \in {"ready", "done"} /\ todo'["build"] = Tail(todo["build"])
    /\ \A b \in Actors : b # "build" => todo'[b] = todo[b] /\ step'[b] = step[b]
    /\ UNCHANGED <<mode, head, cache, definition, pool, rebuilds, local>>
    /\ \/ task = "stack" /\ sandbox' = [sandbox EXCEPT !["stack"] = local["build"].topology]
       \/ /\ task = "instance"
          /\ sandbox' = [sandbox EXCEPT !["topology"] = local["build"].topology,
                                        !["containers"] = local["build"].containers]
       \/ task = "dockerfile" /\ sandbox' = [sandbox EXCEPT !["dockerfile"] = ReadAt(pool.rev)]
       \/ task = "playbook" /\ sandbox' = [sandbox EXCEPT !["playbook"] = ReadAt(pool.rev)]

LEMMA MakingStep ==
  ASSUME Typed, BuildStack \/ MakeInstance \/ WriteDockerfile \/ RunPlaybook
  PROVE  Making
<1>1. CASE BuildStack
  BY <1>1, MadeStep DEF BuildStack, Making
<1>2. CASE MakeInstance
  BY <1>2, MadeStep DEF MakeInstance, Making
<1>3. CASE WriteDockerfile
  BY <1>3, MadeStep DEF WriteDockerfile, Making
<1>4. CASE RunPlaybook
  BY <1>4, MadeStep DEF RunPlaybook, Making
<1> QED BY <1>1, <1>2, <1>3, <1>4

\* Steps of the creation of the pool alone.
PoolSteps == SavePool \/ ProbeContainers \/ OpenPool

LEMMA PoolStep ==
  ASSUME Typed, PoolSteps
  PROVE  /\ \A b \in Actors : b # "create" => todo'[b] = todo[b] /\ step'[b] = step[b]
         /\ UNCHANGED <<mode, head, cache, definition, sandbox, rebuilds, local>>
         /\ step["create"] = "ready" /\ todo["create"] # <<>>
         /\ \/ /\ Popped("create") /\ Head(todo["create"]) = "row"
               /\ pool' = [state |-> "new", rev |-> Resolved(0)]
            \/ Popped("create") /\ Head(todo["create"]) = "probe" /\ UNCHANGED pool
            \/ /\ Head(todo["create"]) = "probe" /\ UNCHANGED <<pool, step>>
               /\ todo'["create"] = <<"open">> /\ "absent" \in Faults
            \/ /\ Popped("create") /\ Head(todo["create"]) = "open"
               /\ pool'.state = "open" /\ pool'.rev = pool.rev
<1>0. "create" \in Actors
  BY DEF Actors
<1>1. CASE SavePool
  BY <1>0, <1>1, PopStep DEF SavePool, Doing, NotBuilt, NoGit, Popped
<1>2. CASE ProbeContainers
  <2>1. CASE Next1("create")
    BY <1>0, <1>2, <2>1, PopStep DEF ProbeContainers, Doing, NoRows, NoGit, Popped
  <2>2. CASE todo' = [todo EXCEPT !["create"] = <<"open">>] /\ UNCHANGED step /\ "absent" \in Faults
    <3>1. todo'["create"] = <<"open">> /\ \A b \in Actors : b # "create" => todo'[b] = todo[b]
      BY <1>0, <2>2 DEF Typed, TypeOK
    <3>2. /\ UNCHANGED <<mode, head, cache, definition, sandbox, rebuilds, local, pool, step>>
          /\ step["create"] = "ready" /\ todo["create"] # <<>> /\ Head(todo["create"]) = "probe"
      BY <1>2, <2>2 DEF ProbeContainers, Doing, NoRows, NoGit
    <3> QED BY <2>2, <3>1, <3>2
  <2> QED BY <1>2, <2>1, <2>2 DEF ProbeContainers
<1>3. CASE OpenPool
  <2>1. /\ Doing("create", "open") /\ Next1("create") /\ pool' = [pool EXCEPT !.state = "open"]
        /\ UNCHANGED <<mode, head, cache, definition, sandbox, rebuilds, local>>
    BY <1>3 DEF OpenPool, NotBuilt, NoGit
  <2>2. pool'.state = "open" /\ pool'.rev = pool.rev
    BY <2>1 DEF Typed, TypeOK
  <2>3. /\ step["create"] = "ready" /\ todo["create"] # <<>> /\ Head(todo["create"]) = "open"
        /\ Next1("create") /\ UNCHANGED <<mode, head, cache, definition, sandbox, rebuilds, local>>
    BY <2>1 DEF Doing
  <2> QED BY <1>0, <2>2, <2>3, PopStep DEF Popped
<1> QED BY <1>1, <1>2, <1>3 DEF PoolSteps

LEMMA RestartStep ==
  ASSUME Typed, Restart
  PROVE  /\ step["build"] = "failed" /\ step'["build"] = "ready"
         /\ todo'["build"] \in {BuildTasks, LaterStages}
         /\ \A b \in Actors : b # "build" => todo'[b] = todo[b] /\ step'[b] = step[b]
         /\ sandbox' = [NoSandbox EXCEPT !["stack"] = sandbox["stack"]]
         /\ UNCHANGED <<mode, head, cache, definition, pool, local>>
BY DEF Restart, NoGit, Typed, TypeOK, Actors

LEMMA StepOfOne == OfOneCommit /\ [Next]_vars => OfOneCommit'
<1> SUFFICES ASSUME OfOneCommit, [Next]_vars PROVE OfOneCommit'
  OBVIOUS
<1>0. /\ Typed /\ RowFirst /\ PoolFirst /\ PoolReads /\ OneCommit
      /\ "create" \in Actors /\ "build" \in Actors
  BY DEF OfOneCommit, Cached, Actors
<1>c. Cached'
  BY StepCached DEF OfOneCommit
<1> SUFFICES RowFirst' /\ PoolFirst' /\ PoolReads' /\ OneCommit'
  BY <1>c DEF OfOneCommit
<1>1. ASSUME NEW a \in Actors, Request(a)
      PROVE  RowFirst' /\ PoolFirst' /\ PoolReads' /\ OneCommit'
  <2>1. CASE a = "create"
    BY <1>1, <2>1, CreateOfOne
  <2>2. CASE a = "build"
    BY <1>1, <2>2, BuildOfOne
  <2>3. CASE a \notin {"create", "build"}
    <3>1. UNCHANGED <<pool, sandbox>>
      BY <1>0, <1>1, <2>3, RequestStep, FailsTyped
    <3>2. \A b \in {"create", "build"} :
            todo'[b] = todo[b] /\ step'[b] = step[b] /\ local'[b] = local[b]
      BY <1>0, <1>1, <2>3, RequestStep
    <3> QED BY <3>1, <3>2, OthersOfOne
  <2> QED BY <2>1, <2>2, <2>3
<1>2. CASE AskPool
  <2>1. /\ step["create"] = "idle" /\ step'["create"] = "ready" /\ todo'["create"] = CreateTasks
        /\ todo'["build"] = todo["build"] /\ step'["build"] = step["build"]
        /\ UNCHANGED <<pool, sandbox, local>>
    BY <1>0, <1>2, BeginStep DEF AskPool
  <2>2. pool.state = "none" /\ pool.rev = 0
    BY <1>0, <2>1 DEF RowFirst, Typed, TypeOK
  <2>3. /\ \A i \in 2..Len(CreateTasks) : CreateTasks[i] # "row"
        /\ CreateTasks # <<>> /\ Head(CreateTasks) = "row"
    BY TailOfTasks, TasksNotEmpty, CreateTasksAre
  <2>4. RowFirst'
    BY <2>1, <2>2, <2>3 DEF RowFirst
  <2> QED BY <1>0, <2>1, <2>2, <2>4 DEF PoolFirst, PoolReads, OneCommit
<1>3. CASE PoolSteps
  <2>1. /\ todo'["build"] = todo["build"] /\ step'["build"] = step["build"]
        /\ UNCHANGED <<mode, head, sandbox, local>>
        /\ step["create"] = "ready" /\ todo["create"] # <<>>
    BY <1>0, <1>3, PoolStep
  <2>2. CASE /\ Popped("create") /\ Head(todo["create"]) = "row"
             /\ pool' = [state |-> "new", rev |-> Resolved(0)]
    <3>1. pool'.state = "new" /\ pool.state = "none"
      BY <1>0, <2>1, <2>2 DEF RowFirst
    <3>2. RowFirst'
      BY <1>0, <2>2, <3>1, PopRow
    <3>3. /\ step["build"] = "idle" /\ sandbox = NoSandbox
          /\ local["build"] = NoReads /\ local["create"] = NoReads
      BY <1>0, <3>1 DEF PoolFirst
    <3>4. PoolReads'
      BY <2>1, <2>2, <3>3 DEF PoolReads, NoReads, Popped, Getting
    <3>5. OneCommit'
      BY <2>1, <3>3 DEF OneCommit, NoSandbox
    <3> QED BY <2>1, <3>1, <3>2, <3>3, <3>4, <3>5 DEF PoolFirst
  <2>3. CASE Popped("create") /\ Head(todo["create"]) = "probe" /\ UNCHANGED pool
    <3>1. pool.state # "none"
      BY <1>0, <2>1, <2>3 DEF RowFirst
    <3>2. RowFirst'
      BY <1>0, <2>3, <3>1, PopRow
    <3> QED BY <1>0, <2>1, <2>3, <3>1, <3>2 DEF PoolFirst, PoolReads, OneCommit, Popped, Getting
  <2>4. CASE /\ Head(todo["create"]) = "probe" /\ UNCHANGED <<pool, step>>
             /\ todo'["create"] = <<"open">>
    <3>1. pool.state # "none"
      BY <1>0, <2>1, <2>4 DEF RowFirst
    <3>2. RowFirst'
      BY <1>0, <2>1, <2>4, <3>1 DEF RowFirst
    <3> QED BY <1>0, <2>1, <2>4, <3>1, <3>2 DEF PoolFirst, PoolReads, OneCommit
  <2>5. CASE /\ Popped("create") /\ Head(todo["create"]) = "open"
             /\ pool'.state = "open" /\ pool'.rev = pool.rev
    <3>1. RowFirst'
      BY <1>0, <2>5, PopRow
    <3> QED BY <1>0, <2>1, <2>5, <3>1 DEF PoolFirst, PoolReads, OneCommit, Popped, Getting
  <2> QED BY <1>0, <1>3, <2>2, <2>3, <2>4, <2>5, PoolStep
<1>4. CASE AskSandbox
  <2>1. /\ pool.state \in {"open", "new"}
        /\ step["build"] = "idle" /\ step'["build"] = "ready"
        /\ todo'["create"] = todo["create"] /\ step'["create"] = step["create"]
        /\ UNCHANGED <<pool, sandbox, local>>
    BY <1>0, <1>4, BeginStep DEF AskSandbox
  <2> QED BY <1>0, <2>1 DEF RowFirst, PoolFirst, PoolReads, OneCommit, Getting
<1>5. CASE Restart
  <2>1. /\ step["build"] = "failed" /\ step'["build"] = "ready"
        /\ todo'["create"] = todo["create"] /\ step'["create"] = step["create"]
        /\ sandbox' = [NoSandbox EXCEPT !["stack"] = sandbox["stack"]]
        /\ UNCHANGED <<pool, local>>
    BY <1>0, <1>5, RestartStep
  <2>2. OneCommit'
    BY <1>0, <2>1 DEF OneCommit, NoSandbox, Parts
  <2> QED BY <1>0, <2>1, <2>2 DEF RowFirst, PoolFirst, PoolReads, Getting
<1>6. CASE BuildStack \/ MakeInstance \/ WriteDockerfile \/ RunPlaybook
  <2>1. PICK task \in {"stack", "instance", "dockerfile", "playbook"} :
          /\ step["build"] = "ready" /\ step'["build"] \in {"ready", "done"}
          /\ todo'["create"] = todo["create"] /\ step'["create"] = step["create"]
          /\ UNCHANGED <<pool, local>>
          /\ \/ sandbox' = [sandbox EXCEPT !["stack"] = local["build"].topology]
             \/ sandbox' = [sandbox EXCEPT !["topology"] = local["build"].topology,
                                           !["containers"] = local["build"].containers]
             \/ sandbox' = [sandbox EXCEPT !["dockerfile"] = ReadAt(pool.rev)]
             \/ sandbox' = [sandbox EXCEPT !["playbook"] = ReadAt(pool.rev)]
    BY <1>0, <1>6, MakingStep DEF Making
  <2>2. pool.rev # 0 =>
          /\ local["build"].topology \in {0, pool.rev} /\ local["build"].containers \in {0, pool.rev}
          /\ ReadAt(pool.rev) = pool.rev
    BY <1>0 DEF PoolReads, ReadAt
  <2>3. sandbox \in [Parts -> Revisions]
    BY <1>0 DEF Typed, TypeOK
  <2>4. OneCommit'
    BY <1>0, <2>1, <2>2, <2>3 DEF OneCommit
  <2> QED BY <1>0, <2>1, <2>4 DEF RowFirst, PoolFirst, PoolReads, Getting
<1>7. CASE Push \/ Expire \/ UNCHANGED vars
  <2>1. UNCHANGED <<pool, sandbox, todo, step, local>>
    BY <1>7 DEF Push, Expire, NoRows, vars
  <2> QED BY <2>1, OthersOfOne
<1> QED BY <1>1, <1>2, <1>3, <1>4, <1>5, <1>6, <1>7, Zenon DEF Next, PoolSteps

LEMMA InitOfOne == Init => OfOneCommit
<1>1. Init => RowFirst
  BY DEF Init, RowFirst, Actors
<1>2. Init => PoolFirst /\ PoolReads /\ OneCommit
  BY DEF Init, PoolFirst, PoolReads, OneCommit, Actors
<1>3. Init => Keyed /\ CacheTrue
  BY RevisionsAre DEF Init, Keyed, CacheTrue
<1> QED BY <1>1, <1>2, <1>3, InitTyped DEF OfOneCommit, Cached

\* A sandbox of a pool that names a commit is made from that commit: the templates of its
\* stack, its topology and containers, its Dockerfiles and its playbook, whatever is
\* pushed, imported, cached or expires between the stages and however often they are run.
THEOREM SandboxOfOneCommit == Spec => []OneCommit
<1>1. OfOneCommit => OneCommit
  BY DEF OfOneCommit
<1> QED BY <1>1, InitOfOne, StepOfOne, PTL DEF Spec

-----------------------------------------------------------------------------
(* What is validated is what is used *)

\* No task x comes up before a task y.
After(s, x, y) == \A i \in 1..Len(s) : s[i] = x => \E j \in 1..(i - 1) : s[j] = y

\* The pool names a commit whose topology and containers fit; GitLab and the other
\* modes of GitHub name the branch.
Fit == mode = "FRESH" => pool.rev # 0 /\ <<pool.rev, pool.rev>> \in Matches

\* A pool is opened after it was matched, which takes what was read for it.
CreateInOrder ==
  /\ local["create"].topology = 0 => After(todo["create"], "match", "definition")
  /\ local["create"].containers = 0 => After(todo["create"], "match", "containers")
  /\ ~Fit => After(todo["create"], "open", "match")
  /\ pool.state = "open" => Fit
  /\ pool.state = "refused" => todo["create"] = <<>>
  /\ pool.state = "new" /\ mode = "FRESH" => pool.rev # 0

\* A playbook is run after the topology instance was made, which takes what was read for
\* it.
BuildInOrder ==
  /\ local["build"].topology = 0 => After(todo["build"], "instance", "definition")
  /\ local["build"].containers = 0 => After(todo["build"], "instance", "containers")
  /\ sandbox["topology"] = 0 \/ sandbox["containers"] = 0 =>
       After(todo["build"], "playbook", "instance") /\ sandbox["playbook"] = 0

Validated == OfOneCommit /\ CreateInOrder /\ BuildInOrder

LEMMA AfterTail ==
  ASSUME NEW s \in Seq(Tasks), s # <<>>, NEW x, NEW y, After(s, x, y), Head(s) # y
  PROVE  After(Tail(s), x, y)
<1>1. /\ Head(s) = s[1] /\ Len(s) \in Nat /\ Len(Tail(s)) = Len(s) - 1
      /\ \A i \in 1..Len(Tail(s)) : Tail(s)[i] = s[i + 1]
  BY TailOfTasks
<1>2. SUFFICES ASSUME NEW i \in 1..Len(Tail(s)), Tail(s)[i] = x
               PROVE  \E j \in 1..(i - 1) : Tail(s)[j] = y
  BY DEF After
<1>3. i + 1 \in 1..Len(s) /\ s[i + 1] = x
  BY <1>1, <1>2
<1>4. PICK j \in 1..i : s[j] = y
  BY <1>3 DEF After
<1>5. j # 1
  BY <1>1, <1>4
<1>6. j - 1 \in 1..(i - 1) /\ j - 1 \in 1..Len(Tail(s)) /\ (j - 1) + 1 = j
  BY <1>1, <1>4, <1>5
<1>7. Tail(s)[j - 1] = y
  BY <1>1, <1>4, <1>6
<1> QED BY <1>6, <1>7

LEMMA AfterHead ==
  ASSUME NEW s \in Seq(Tasks), s # <<>>, NEW x, NEW y, After(s, x, y)
  PROVE  Head(s) # x
<1>1. Head(s) = s[1] /\ Len(s) \in Nat /\ Len(s) >= 1
  BY TailOfTasks
<1>2. 1 \in 1..Len(s) /\ ~(\E j \in 1..(1 - 1) : s[j] = y)
  BY <1>1
<1> QED BY <1>1, <1>2 DEF After

LEMMA AfterNone ==
  ASSUME NEW x, NEW y
  PROVE  After(<<>>, x, y)
BY DEF After

LEMMA BuildInOrderAre ==
  /\ After(BuildTasks, "instance", "definition") /\ After(BuildTasks, "instance", "containers")
  /\ After(BuildTasks, "playbook", "instance")
<1>1. \A i \in 1..7 : BuildTasks[i] = "instance" => i = 5
  BY BuildTasksAre
<1>2. \A i \in 1..7 : BuildTasks[i] = "playbook" => i = 7
  BY BuildTasksAre
<1>3. 1 \in 1..4 /\ 4 \in 1..4 /\ 5 \in 1..6 /\ 5 - 1 = 4 /\ 7 - 1 = 6
  OBVIOUS
<1> QED BY <1>1, <1>2, <1>3, BuildTasksAre DEF After

LEMMA LaterInOrderAre ==
  /\ After(LaterStages, "instance", "definition") /\ After(LaterStages, "instance", "containers")
  /\ After(LaterStages, "playbook", "instance")
<1>1. \A i \in 1..5 : LaterStages[i] = "instance" => i = 3
  BY LaterStagesAre
<1>2. \A i \in 1..5 : LaterStages[i] = "playbook" => i = 5
  BY LaterStagesAre
<1>3. 1 \in 1..2 /\ 2 \in 1..2 /\ 3 \in 1..4 /\ 3 - 1 = 2 /\ 5 - 1 = 4
  OBVIOUS
<1> QED BY <1>1, <1>2, <1>3, LaterStagesAre DEF After

LEMMA CreateInOrderAre ==
  /\ After(CreateTasks, "match", "definition") /\ After(CreateTasks, "match", "containers")
  /\ After(CreateTasks, "open", "match")
<1>1. \A i \in 1..7 : CreateTasks[i] = "match" => i = 6
  BY CreateTasksAre
<1>2. \A i \in 1..7 : CreateTasks[i] = "open" => i = 7
  BY CreateTasksAre
<1>3. 2 \in 1..5 /\ 5 \in 1..5 /\ 6 \in 1..6 /\ 6 - 1 = 5 /\ 7 - 1 = 6
  OBVIOUS
<1> QED BY <1>1, <1>2, <1>3, CreateTasksAre DEF After

\* Steps of others keep the order of a request.
LEMMA CreateSame ==
  ASSUME CreateInOrder, UNCHANGED <<mode, pool>>,
         todo'["create"] = todo["create"], local'["create"] = local["create"]
  PROVE  CreateInOrder'
BY DEF CreateInOrder, Fit

LEMMA BuildSame ==
  ASSUME BuildInOrder, UNCHANGED sandbox, pool'.state = pool.state \/ pool'.state = "open",
         todo'["build"] = todo["build"], local'["build"] = local["build"],
         step'["build"] = step["build"]
  PROVE  BuildInOrder'
BY DEF BuildInOrder

\* What the creation of a pool does with a task keeps the order of those that follow.
LEMMA CreatePops ==
  ASSUME Validated, Popped("create"),
         \/ local'["create"].topology # 0
         \/ /\ Head(todo["create"]) # "definition"
            /\ local'["create"].topology = local["create"].topology,
         \/ local'["create"].containers # 0
         \/ /\ Head(todo["create"]) # "containers"
            /\ local'["create"].containers = local["create"].containers,
         Head(todo["create"]) = "match" => Fit',
         Fit => Fit',
         pool'.state = "open" => Fit', pool'.state # "refused",
         pool'.state = "new" /\ mode' = "FRESH" => pool'.rev # 0
  PROVE  CreateInOrder'
<1>1. /\ CreateInOrder
      /\ todo["create"] \in Seq(Tasks) /\ todo["create"] # <<>>
      /\ todo'["create"] = Tail(todo["create"])
  BY DEF Validated, OfOneCommit, Cached, Typed, TypeOK, Popped, Actors
<1>2. local'["create"].topology = 0 => After(todo'["create"], "match", "definition")
  <2> SUFFICES ASSUME local'["create"].topology = 0
               PROVE  After(Tail(todo["create"]), "match", "definition")
    BY <1>1
  <2>1. Head(todo["create"]) # "definition" /\ After(todo["create"], "match", "definition")
    BY <1>1 DEF CreateInOrder
  <2> QED BY <1>1, <2>1, AfterTail
<1>3. local'["create"].containers = 0 => After(todo'["create"], "match", "containers")
  <2> SUFFICES ASSUME local'["create"].containers = 0
               PROVE  After(Tail(todo["create"]), "match", "containers")
    BY <1>1
  <2>1. Head(todo["create"]) # "containers" /\ After(todo["create"], "match", "containers")
    BY <1>1 DEF CreateInOrder
  <2> QED BY <1>1, <2>1, AfterTail
<1>4. ~Fit' => After(todo'["create"], "open", "match")
  <2> SUFFICES ASSUME ~Fit'
               PROVE  After(Tail(todo["create"]), "open", "match")
    BY <1>1
  <2>1. Head(todo["create"]) # "match" /\ After(todo["create"], "open", "match")
    BY <1>1 DEF CreateInOrder
  <2> QED BY <1>1, <2>1, AfterTail
<1> QED BY <1>2, <1>3, <1>4 DEF CreateInOrder

\* And so does what is done for a sandbox.
LEMMA BuildPops ==
  ASSUME Validated, Popped("build"), UNCHANGED pool,
         \/ local'["build"].topology # 0
         \/ /\ Head(todo["build"]) # "definition"
            /\ local'["build"].topology = local["build"].topology,
         \/ local'["build"].containers # 0
         \/ /\ Head(todo["build"]) # "containers"
            /\ local'["build"].containers = local["build"].containers,
         Head(todo["build"]) = "instance" =>
           sandbox'["topology"] # 0 /\ sandbox'["containers"] # 0,
         Head(todo["build"]) # "instance" =>
           /\ sandbox'["topology"] = sandbox["topology"]
           /\ sandbox'["containers"] = sandbox["containers"],
         Head(todo["build"]) # "playbook" => sandbox'["playbook"] = sandbox["playbook"]
  PROVE  BuildInOrder'
<1>1. /\ BuildInOrder
      /\ todo["build"] \in Seq(Tasks) /\ todo["build"] # <<>>
      /\ todo'["build"] = Tail(todo["build"])
  BY DEF Validated, OfOneCommit, Cached, Typed, TypeOK, Popped, Actors
<1>2. local'["build"].topology = 0 => After(todo'["build"], "instance", "definition")
  <2> SUFFICES ASSUME local'["build"].topology = 0
               PROVE  After(Tail(todo["build"]), "instance", "definition")
    BY <1>1
  <2>1. Head(todo["build"]) # "definition" /\ After(todo["build"], "instance", "definition")
    BY <1>1 DEF BuildInOrder
  <2> QED BY <1>1, <2>1, AfterTail
<1>3. local'["build"].containers = 0 => After(todo'["build"], "instance", "containers")
  <2> SUFFICES ASSUME local'["build"].containers = 0
               PROVE  After(Tail(todo["build"]), "instance", "containers")
    BY <1>1
  <2>1. Head(todo["build"]) # "containers" /\ After(todo["build"], "instance", "containers")
    BY <1>1 DEF BuildInOrder
  <2> QED BY <1>1, <2>1, AfterTail
<1>4. sandbox'["topology"] = 0 \/ sandbox'["containers"] = 0 =>
        After(todo'["build"], "playbook", "instance") /\ sandbox'["playbook"] = 0
  <2> SUFFICES ASSUME sandbox'["topology"] = 0 \/ sandbox'["containers"] = 0
               PROVE  After(Tail(todo["build"]), "playbook", "instance") /\ sandbox'["playbook"] = 0
    BY <1>1
  <2>1. /\ Head(todo["build"]) # "instance" /\ After(todo["build"], "playbook", "instance")
        /\ sandbox["playbook"] = 0
    BY <1>1 DEF BuildInOrder
  <2>2. Head(todo["build"]) # "playbook"
    BY <1>1, <2>1, AfterHead
  <2> QED BY <1>1, <2>1, <2>2, AfterTail
<1> QED BY <1>2, <1>3, <1>4 DEF BuildInOrder

LEMMA CreateValidated ==
  ASSUME Validated, Request("create"), "absent" \notin Faults
  PROVE  CreateInOrder' /\ BuildInOrder'
<1>0. /\ Typed /\ RowFirst /\ PoolFirst /\ PoolReads /\ CreateInOrder /\ BuildInOrder
      /\ "create" \in Actors /\ "build" \in Actors /\ "create" \notin Importers \union Previews
  BY ConstantsAssumption DEF Validated, OfOneCommit, Cached, Actors
<1>1. /\ todo'["build"] = todo["build"] /\ step'["build"] = step["build"]
      /\ local'["build"] = local["build"] /\ UNCHANGED <<mode, head, sandbox>>
  BY <1>0, RequestStep
<1>2. ReadAt(Asked("create")) # 0
  BY <1>0, ReadTyped, ConstantsAssumption DEF Commits
<1>3. todo["create"] # <<>> => pool.state # "refused"
  BY <1>0 DEF CreateInOrder
<1>4. CASE Looks("create") /\ local'["create"].containers = local["create"].containers /\ UNCHANGED pool
  <2>1. todo'["create"] = todo["create"] /\ local'["create"].topology = local["create"].topology
    BY <1>4 DEF Looks, Stays
  <2>2. CreateInOrder'
    BY <1>0, <1>1, <1>4, <2>1 DEF CreateInOrder, Fit
  <2> QED BY <1>0, <1>1, <1>4, <2>2, BuildSame
<1>5. CASE Finds("create") /\ local'["create"].containers = local["create"].containers /\ UNCHANGED pool
  <2>1. /\ Popped("create") /\ Head(todo["create"]) \in {"definition", "refresh"}
        /\ local'["create"].topology # 0 /\ todo["create"] # <<>>
    BY <1>5 DEF Finds, Popped
  <2>2. Fit' <=> Fit
    BY <1>1, <1>5 DEF Fit
  <2>3. CreateInOrder'
    BY <1>0, <1>1, <1>3, <1>5, <2>1, <2>2, CreatePops DEF CreateInOrder
  <2> QED BY <1>0, <1>1, <1>5, <2>3, BuildSame
<1>6. CASE Does("create") /\ UNCHANGED pool
  <2>1. Popped("create") /\ todo["create"] # <<>>
    BY <1>6 DEF Does, Popped
  <2>2. Fit' <=> Fit
    BY <1>1, <1>6 DEF Fit
  <2>3. Head(todo["create"]) = "match" => Fit
    <3> SUFFICES ASSUME Head(todo["create"]) = "match", mode = "FRESH"
                 PROVE  pool.rev # 0 /\ <<pool.rev, pool.rev>> \in Matches
      BY DEF Fit
    <3>1. todo["create"] \in Seq(Tasks)
      BY <1>0 DEF Typed, TypeOK
    <3>2. local["create"].topology # 0 /\ local["create"].containers # 0
      BY <1>0, <2>1, <3>1, AfterHead DEF CreateInOrder
    <3>3. <<local["create"].topology, local["create"].containers>> \in Matches
      BY <1>6, <3>2 DEF Does
    <3>4. pool.state # "none" /\ pool.state # "refused"
      BY <1>0, <1>3, <2>1 DEF RowFirst
    <3>5. pool.rev # 0
      BY <1>0, <3>4 DEF CreateInOrder, Fit, Typed, TypeOK
    <3>6. local["create"].topology = pool.rev /\ local["create"].containers = pool.rev
      BY <1>0, <3>2, <3>5 DEF PoolReads
    <3> QED BY <3>3, <3>5, <3>6
  <2>4. /\ local'["create"].topology = local["create"].topology
        /\ \/ Head(todo["create"]) = "containers" /\ local'["create"].containers # 0
           \/ /\ Head(todo["create"]) # "containers"
              /\ local'["create"].containers = local["create"].containers
        /\ Head(todo["create"]) # "definition"
    BY <1>2, <1>6 DEF Does
  <2>5. CreateInOrder'
    BY <1>0, <1>1, <1>3, <1>6, <2>1, <2>2, <2>3, <2>4, CreatePops DEF CreateInOrder
  <2> QED BY <1>0, <1>1, <1>6, <2>5, BuildSame
<1>7. CASE Fails("create") /\ Failed("create") /\ UNCHANGED local
  <2>1. \/ UNCHANGED pool
        \/ pool'.state = "refused" /\ pool'.rev = 0 /\ step["build"] = "idle"
    BY <1>0, <1>7, FailsTyped
  <2>2. CreateInOrder'
    BY <1>0, <1>1, <1>7, <2>1, AfterNone DEF CreateInOrder, Failed, Fit
  <2>3. BuildInOrder'
    BY <1>0, <1>1, <1>7, <2>1 DEF BuildInOrder
  <2> QED BY <2>2, <2>3
<1> QED BY <1>0, <1>4, <1>5, <1>6, <1>7, RequestStep

LEMMA BuildValidated ==
  ASSUME Validated, Request("build"), "absent" \notin Faults
  PROVE  CreateInOrder' /\ BuildInOrder'
<1>0. /\ Typed /\ CreateInOrder /\ BuildInOrder
      /\ "create" \in Actors /\ "build" \in Actors /\ "build" \notin Importers \union Previews
  BY ConstantsAssumption DEF Validated, OfOneCommit, Cached, Actors
<1>1. /\ todo'["create"] = todo["create"] /\ step'["create"] = step["create"]
      /\ local'["create"] = local["create"] /\ UNCHANGED <<mode, head, sandbox>>
  BY <1>0, RequestStep
<1>2. ReadAt(Asked("build")) # 0
  BY <1>0, ReadTyped, ConstantsAssumption DEF Commits
<1>3. UNCHANGED pool
  BY <1>0, RequestStep, FailsTyped
<1>4. CreateInOrder'
  BY <1>0, <1>1, <1>3, CreateSame
<1>5. CASE Looks("build") /\ local'["build"].containers = local["build"].containers
  BY <1>0, <1>1, <1>3, <1>4, <1>5 DEF Looks, Stays, BuildInOrder, Getting
<1>6. CASE Finds("build") /\ local'["build"].containers = local["build"].containers
  <2>1. /\ Popped("build") /\ Head(todo["build"]) \in {"definition", "refresh"}
        /\ local'["build"].topology # 0
    BY <1>6 DEF Finds
  <2> QED BY <1>1, <1>3, <1>4, <1>6, <2>1, BuildPops
<1>7. CASE Does("build")
  <2>1. /\ Popped("build") /\ Head(todo["build"]) \notin {"definition", "instance", "playbook"}
        /\ local'["build"].topology = local["build"].topology
        /\ \/ Head(todo["build"]) = "containers" /\ local'["build"].containers # 0
           \/ /\ Head(todo["build"]) # "containers"
              /\ local'["build"].containers = local["build"].containers
    BY <1>2, <1>7 DEF Does
  <2> QED BY <1>1, <1>3, <1>4, <2>1, BuildPops
<1>8. CASE Failed("build") /\ UNCHANGED local /\ step["build"] # "idle"
  BY <1>0, <1>1, <1>3, <1>4, <1>8, AfterNone DEF BuildInOrder, Failed
<1>9. step["build"] # "idle"
  BY <1>0 DEF Request, AskImport, AskPreview, GetDefinition, Resolve, LookUp, Fetch, Store,
     ReadContainers, Match, GitFails, SaveDefinition, Show, Doing, Unforeseen
<1> QED BY <1>0, <1>5, <1>6, <1>7, <1>8, <1>9, RequestStep

LEMMA StepValidated == "absent" \notin Faults /\ Validated /\ [Next]_vars => Validated'
<1> SUFFICES ASSUME "absent" \notin Faults, Validated, [Next]_vars PROVE CreateInOrder' /\ BuildInOrder'
  BY StepOfOne DEF Validated
<1>0. /\ Typed /\ RowFirst /\ PoolFirst /\ PoolReads /\ CreateInOrder /\ BuildInOrder
      /\ "create" \in Actors /\ "build" \in Actors /\ "absent" \notin Faults
  BY DEF Validated, OfOneCommit, Cached, Actors
<1>1. ASSUME NEW a \in Actors, Request(a) PROVE CreateInOrder' /\ BuildInOrder'
  <2>1. CASE a = "create"
    BY <1>0, <1>1, <2>1, CreateValidated
  <2>2. CASE a = "build"
    BY <1>0, <1>1, <2>2, BuildValidated
  <2>3. CASE a \notin {"create", "build"}
    <3>1. UNCHANGED <<mode, pool, sandbox>>
      BY <1>0, <1>1, <2>3, RequestStep, FailsTyped
    <3>2. \A b \in {"create", "build"} :
            todo'[b] = todo[b] /\ step'[b] = step[b] /\ local'[b] = local[b]
      BY <1>0, <1>1, <2>3, RequestStep
    <3> QED BY <1>0, <3>1, <3>2, CreateSame, BuildSame
  <2> QED BY <2>1, <2>2, <2>3
<1>2. CASE AskPool
  <2>1. /\ step["create"] = "idle" /\ todo'["create"] = CreateTasks
        /\ todo'["build"] = todo["build"] /\ step'["build"] = step["build"]
        /\ UNCHANGED <<mode, pool, sandbox, local>>
    BY <1>0, <1>2, BeginStep DEF AskPool
  <2>2. pool.state = "none"
    BY <1>0, <2>1 DEF RowFirst
  <2>3. CreateInOrder'
    BY <2>1, <2>2, CreateInOrderAre DEF CreateInOrder
  <2> QED BY <1>0, <2>1, <2>3, BuildSame
<1>3. CASE PoolSteps
  <2>1. /\ todo'["build"] = todo["build"] /\ step'["build"] = step["build"]
        /\ UNCHANGED <<mode, head, sandbox, local>>
        /\ step["create"] = "ready" /\ todo["create"] # <<>>
    BY <1>0, <1>3, PoolStep
  <2>2. CASE /\ Popped("create") /\ Head(todo["create"]) = "row"
             /\ pool' = [state |-> "new", rev |-> Resolved(0)]
    <3>1. pool'.state = "new" /\ pool'.rev = Resolved(0) /\ pool.state = "none" /\ pool.rev = 0
      BY <1>0, <2>1, <2>2 DEF RowFirst, Typed, TypeOK
    <3>2. mode = "FRESH" => Resolved(0) # 0
      BY <1>0, ConstantsAssumption DEF Resolved, Typed, TypeOK, Commits
    <3>3. Fit => Fit'
      BY <2>1, <3>1 DEF Fit
    <3>4. CreateInOrder'
      BY <1>0, <2>1, <2>2, <3>1, <3>2, <3>3, CreatePops
    <3>5. step["build"] = "idle"
      BY <1>0, <3>1 DEF PoolFirst
    <3> QED BY <1>0, <2>1, <3>4, <3>5 DEF BuildInOrder
  <2>3. CASE Popped("create") /\ Head(todo["create"]) = "probe" /\ UNCHANGED pool
    <3>1. Fit' <=> Fit
      BY <2>1, <2>3 DEF Fit
    <3>2. CreateInOrder'
      BY <1>0, <2>1, <2>3, <3>1, CreatePops DEF CreateInOrder
    <3> QED BY <1>0, <2>1, <2>3, <3>2, BuildSame
  <2>4. CASE /\ Popped("create") /\ Head(todo["create"]) = "open"
             /\ pool'.state = "open" /\ pool'.rev = pool.rev
    <3>1. todo["create"] \in Seq(Tasks)
      BY <1>0 DEF Typed, TypeOK
    <3>2. Fit
      BY <1>0, <2>1, <2>4, <3>1, AfterHead DEF CreateInOrder
    <3>3. Fit'
      BY <2>1, <2>4, <3>2 DEF Fit
    <3>4. CreateInOrder'
      BY <1>0, <2>1, <2>4, <3>3, CreatePops
    <3> QED BY <1>0, <2>1, <2>4, <3>4, BuildSame
  <2> QED BY <1>0, <1>3, <2>2, <2>3, <2>4, PoolStep
<1>4. CASE AskSandbox
  <2>1. /\ step["build"] = "idle" /\ todo'["build"] = BuildTasks
        /\ todo'["create"] = todo["create"] /\ step'["create"] = step["create"]
        /\ UNCHANGED <<mode, pool, sandbox, local>>
    BY <1>0, <1>4, BeginStep DEF AskSandbox
  <2>2. BuildInOrder'
    BY <1>0, <2>1, BuildInOrderAre DEF BuildInOrder, PoolFirst, NoSandbox, Parts
  <2> QED BY <1>0, <2>1, <2>2, CreateSame
<1>5. CASE Restart
  <2>1. /\ step["build"] = "failed" /\ todo'["build"] \in {BuildTasks, LaterStages}
        /\ todo'["create"] = todo["create"] /\ step'["create"] = step["create"]
        /\ sandbox' = [NoSandbox EXCEPT !["stack"] = sandbox["stack"]]
        /\ UNCHANGED <<mode, pool, local>>
    BY <1>0, <1>5, RestartStep
  <2>2. sandbox'["playbook"] = 0
    BY <2>1 DEF NoSandbox, Parts
  <2>3. BuildInOrder'
    BY <1>0, <2>1, <2>2, BuildInOrderAre, LaterInOrderAre DEF BuildInOrder
  <2> QED BY <1>0, <2>1, <2>3, CreateSame
<1>6. CASE BuildStack \/ MakeInstance \/ WriteDockerfile \/ RunPlaybook
  <2>1. PICK task \in {"stack", "instance", "dockerfile", "playbook"} :
          /\ step["build"] = "ready" /\ todo["build"] # <<>> /\ Head(todo["build"]) = task
          /\ step'["build"] \in {"ready", "done"} /\ todo'["build"] = Tail(todo["build"])
          /\ todo'["create"] = todo["create"]
          /\ UNCHANGED <<mode, pool, local>>
          /\ \/ task = "stack" /\ sandbox' = [sandbox EXCEPT !["stack"] = local["build"].topology]
             \/ /\ task = "instance"
                /\ sandbox' = [sandbox EXCEPT !["topology"] = local["build"].topology,
                                              !["containers"] = local["build"].containers]
             \/ task = "dockerfile" /\ sandbox' = [sandbox EXCEPT !["dockerfile"] = ReadAt(pool.rev)]
             \/ task = "playbook" /\ sandbox' = [sandbox EXCEPT !["playbook"] = ReadAt(pool.rev)]
    BY <1>0, <1>6, MakingStep DEF Making
  <2>2. Popped("build") /\ todo["build"] \in Seq(Tasks) /\ sandbox \in [Parts -> Revisions]
    BY <1>0, <2>1 DEF Popped, Typed, TypeOK
  <2>3. task = "instance" => local["build"].topology # 0 /\ local["build"].containers # 0
    BY <1>0, <2>1, <2>2, AfterHead DEF BuildInOrder
  <2>4. /\ task = "instance" => sandbox'["topology"] # 0 /\ sandbox'["containers"] # 0
        /\ task # "instance" => /\ sandbox'["topology"] = sandbox["topology"]
                                /\ sandbox'["containers"] = sandbox["containers"]
        /\ task # "playbook" => sandbox'["playbook"] = sandbox["playbook"]
    BY <2>1, <2>2, <2>3 DEF Parts
  <2>5. BuildInOrder'
    BY <2>1, <2>2, <2>4, BuildPops
  <2> QED BY <1>0, <2>1, <2>5, CreateSame
<1>7. CASE Push \/ Expire \/ UNCHANGED vars
  <2>1. UNCHANGED <<mode, pool, sandbox, todo, step, local>>
    BY <1>7 DEF Push, Expire, NoRows, vars
  <2> QED BY <1>0, <2>1, CreateSame, BuildSame
<1> QED BY <1>1, <1>2, <1>3, <1>4, <1>5, <1>6, <1>7, Zenon DEF Next, PoolSteps

\* As long as no read of the containers fails, a pool that names a commit is opened only
\* if topology and containers of that commit were validated against each other, and what
\* the playbook of a sandbox finds was validated too, even of a sandbox that was asked
\* for while its pool was being created.
THEOREM WhatIsUsedWasValidated ==
  ASSUME "absent" \notin Faults
  PROVE  Spec => []ValidatedIsUsed
<1>1. Init => Validated
  <2>1. Init => CreateInOrder
    BY AfterNone DEF Init, CreateInOrder, Actors
  <2>2. Init => BuildInOrder
    BY AfterNone DEF Init, BuildInOrder, Actors, NoSandbox, Parts
  <2> QED BY <2>1, <2>2, InitOfOne DEF Validated
<1>2. Validated /\ [Next]_vars => Validated'
  BY StepValidated
<1>3. Validated => ValidatedIsUsed
  <2> SUFFICES ASSUME Validated PROVE ValidatedIsUsed
    OBVIOUS
  <2>0. /\ Typed /\ PoolFirst /\ OneCommit /\ CreateInOrder /\ BuildInOrder
    BY DEF Validated, OfOneCommit, Cached
  <2>1. pool.state = "open" /\ mode = "FRESH" => pool.rev # 0 /\ <<pool.rev, pool.rev>> \in Matches
    BY <2>0 DEF CreateInOrder, Fit
  <2>2. ASSUME pool.state = "open", mode = "FRESH", sandbox["playbook"] # 0
        PROVE  <<sandbox["topology"], sandbox["containers"]>> \in Matches
    <3>1. sandbox["topology"] # 0 /\ sandbox["containers"] # 0
      BY <2>0, <2>2 DEF BuildInOrder
    <3>2. sandbox["topology"] = pool.rev /\ sandbox["containers"] = pool.rev
      BY <2>0, <2>1, <2>2, <3>1 DEF OneCommit, Parts
    <3> QED BY <2>1, <2>2, <3>2
  <2> QED BY <2>1, <2>2 DEF ValidatedIsUsed
<1> QED BY <1>1, <1>2, <1>3, PTL DEF Spec

-----------------------------------------------------------------------------
(* Pools that are refused *)

\* The creation of a pool ends by opening it.
Opens == todo["create"] # <<>> => todo["create"][Len(todo["create"])] = "open"

Settled == OfOneCommit /\ Opens /\ RefusedIsGone

LEMMA LastOfTail ==
  ASSUME NEW s \in Seq(Tasks), s # <<>>, s[Len(s)] = "open"
  PROVE  /\ Tail(s) # <<>> => Tail(s)[Len(Tail(s))] = "open"
         /\ Head(s) # "open" => Tail(s) # <<>>
<1>1. /\ Head(s) = s[1] /\ Len(s) \in Nat /\ Len(s) >= 1 /\ Len(Tail(s)) = Len(s) - 1
      /\ Tail(s) \in Seq(Tasks)
      /\ \A i \in 1..Len(Tail(s)) : Tail(s)[i] = s[i + 1]
  BY TailOfTasks
<1>2. ASSUME Tail(s) # <<>> PROVE Tail(s)[Len(Tail(s))] = "open"
  <2>1. Len(Tail(s)) # 0
    BY <1>1, <1>2, EmptySeq
  <2>2. Len(Tail(s)) \in 1..Len(Tail(s)) /\ Len(Tail(s)) + 1 = Len(s)
    BY <1>1, <2>1
  <2> QED BY <1>1, <2>2
<1>3. ASSUME Head(s) # "open" PROVE Tail(s) # <<>>
  <2>1. Len(s) # 1
    BY <1>1, <1>3
  <2>2. Len(Tail(s)) # 0
    BY <1>1, <2>1
  <2> QED BY <2>2, EmptySeq
<1> QED BY <1>2, <1>3

LEMMA CreatePopsOpen ==
  ASSUME Settled, Typed', Popped("create")
  PROVE  /\ Opens'
         /\ Head(todo["create"]) # "open" => step'["create"] = "ready"
<1>1. /\ todo["create"] \in Seq(Tasks) /\ todo["create"] # <<>>
      /\ todo["create"][Len(todo["create"])] = "open"
      /\ todo'["create"] = Tail(todo["create"])
  BY DEF Settled, OfOneCommit, Cached, Typed, TypeOK, Popped, Actors, Opens
<1>2. /\ todo'["create"] # <<>> => todo'["create"][Len(todo'["create"])] = "open"
      /\ Head(todo["create"]) # "open" => todo'["create"] # <<>>
  BY <1>1, LastOfTail
<1>3. step'["create"] = "done" => todo'["create"] = <<>>
  BY DEF Typed, UnderWay, Actors
<1> QED BY <1>2, <1>3 DEF Opens, Popped

LEMMA SettledSame ==
  ASSUME Settled, UNCHANGED pool,
         todo'["create"] = todo["create"],
         step'["create"] = step["create"] \/ step'["create"] \notin {"done", "failed"},
         step'["build"] = "idle" => step["build"] = "idle"
  PROVE  Opens' /\ RefusedIsGone'
BY DEF Settled, Opens, RefusedIsGone

LEMMA StepSettled == Settled /\ [Next]_vars => Settled'
<1> SUFFICES ASSUME Settled, [Next]_vars PROVE Opens' /\ RefusedIsGone'
  BY StepOfOne DEF Settled
<1>0. /\ Typed /\ Typed' /\ RowFirst /\ PoolFirst /\ Opens /\ RefusedIsGone
      /\ "create" \in Actors /\ "build" \in Actors
      /\ "create" \notin Importers \union Previews /\ "build" \notin Importers \union Previews
  BY StepTyped, ConstantsAssumption DEF Settled, OfOneCommit, Cached, Actors
<1>1. ASSUME NEW a \in Actors, Request(a) PROVE Opens' /\ RefusedIsGone'
  <2>1. CASE a = "create"
    <3>0. step'["build"] = step["build"]
      BY <1>0, <1>1, <2>1, RequestStep
    <3>1. CASE Looks("create") /\ UNCHANGED pool
      <4>1. todo'["create"] = todo["create"] /\ step'["create"] \notin {"done", "failed"}
        BY <3>1 DEF Looks, Stays, Getting
      <4> QED BY <3>0, <3>1, <4>1, SettledSame
    <3>2. CASE (Finds("create") \/ Does("create")) /\ UNCHANGED pool
      <4>1. Popped("create") /\ Head(todo["create"]) # "open"
        BY <3>2 DEF Finds, Does
      <4>2. Opens' /\ step'["create"] = "ready"
        BY <1>0, <4>1, CreatePopsOpen
      <4> QED BY <1>0, <3>0, <3>2, <4>2 DEF RefusedIsGone
    <3>3. CASE Fails("create") /\ Failed("create")
      <4>1. PICK how \in Failures("create") :
              /\ step' = [step EXCEPT !["create"] = how]
              /\ pool' = IF step["build"] = "idle" /\ how = "failed"
                         THEN [state |-> "refused", rev |-> 0] ELSE pool
        BY <3>3 DEF Fails
      <4>2. step'["create"] = how /\ how \in {"failed", "broken"}
        BY <1>0, <4>1 DEF Failures, Typed, TypeOK
      <4>3. pool'.state = "new" => (how = "failed" => step["build"] # "idle")
        BY <4>1
      <4> QED BY <3>0, <3>3, <4>2, <4>3 DEF Failed, Opens, RefusedIsGone
    <3> QED BY <1>0, <1>1, <2>1, <3>1, <3>2, <3>3, RequestStep
  <2>2. CASE a # "create"
    <3>1. /\ UNCHANGED pool /\ todo'["create"] = todo["create"] /\ step'["create"] = step["create"]
      BY <1>0, <1>1, <2>2, RequestStep, FailsTyped
    <3>2. step'["build"] = "idle" => step["build"] = "idle"
      <4>1. CASE a = "build"
        <5>1. Looks("build") \/ Finds("build") \/ Does("build") \/ Failed("build")
          BY <1>0, <1>1, <4>1, RequestStep
        <5>2. step'["build"] # "idle"
          BY <5>1 DEF Looks, Stays, Finds, Does, Popped, Failed, Getting
        <5> QED BY <5>2
      <4>2. CASE a # "build"
        BY <1>0, <1>1, <4>2, RequestStep
      <4> QED BY <4>1, <4>2
    <3> QED BY <3>1, <3>2, SettledSame
  <2> QED BY <2>1, <2>2
<1>2. CASE AskPool
  <2>1. /\ step'["create"] = "ready" /\ todo'["create"] = CreateTasks
        /\ step'["build"] = step["build"] /\ UNCHANGED pool
    <3>1. Begin("create", CreateTasks) /\ Typed /\ "create" \in Actors /\ "build" \in Actors
      BY <1>0, <1>2 DEF AskPool
    <3> QED BY <3>1, BeginStep
  <2>2. CreateTasks[Len(CreateTasks)] = "open"
    BY CreateTasksAre
  <2> QED BY <1>0, <2>1, <2>2 DEF Opens, RefusedIsGone
<1>3. CASE PoolSteps
  <2>1. step'["build"] = step["build"] /\ step["create"] = "ready"
    BY <1>0, <1>3, PoolStep
  <2>2. CASE /\ Popped("create") /\ Head(todo["create"]) = "row"
             /\ pool' = [state |-> "new", rev |-> Resolved(0)]
    <3>1. Opens' /\ step'["create"] = "ready"
      BY <1>0, <2>2, CreatePopsOpen
    <3>2. step["build"] = "idle"
      BY <1>0, <2>2 DEF RowFirst, PoolFirst, Popped
    <3> QED BY <2>1, <3>1, <3>2 DEF RefusedIsGone
  <2>3. CASE Popped("create") /\ Head(todo["create"]) = "probe" /\ UNCHANGED pool
    <3>1. Opens' /\ step'["create"] = "ready"
      BY <1>0, <2>3, CreatePopsOpen
    <3> QED BY <1>0, <2>1, <2>3, <3>1 DEF RefusedIsGone
  <2>4. CASE UNCHANGED <<pool, step>> /\ todo'["create"] = <<"open">>
    <3>1. <<"open">>[Len(<<"open">>)] = "open"
      OBVIOUS
    <3> QED BY <1>0, <2>4, <3>1 DEF Opens, RefusedIsGone
  <2>5. CASE Popped("create") /\ pool'.state = "open"
    <3>1. Opens'
      BY <1>0, <2>5, CreatePopsOpen
    <3> QED BY <2>1, <2>5, <3>1 DEF RefusedIsGone
  <2> QED BY <1>0, <1>3, <2>2, <2>3, <2>4, <2>5, PoolStep
<1>4. CASE AskSandbox
  <2>1. /\ step["build"] = "idle" /\ UNCHANGED pool
        /\ todo'["create"] = todo["create"] /\ step'["create"] = step["create"]
    BY <1>0, <1>4, BeginStep DEF AskSandbox
  <2> QED BY <2>1, SettledSame
<1>5. CASE Restart
  <2>1. /\ step'["build"] = "ready" /\ UNCHANGED pool
        /\ todo'["create"] = todo["create"] /\ step'["create"] = step["create"]
    BY <1>0, <1>5, RestartStep
  <2> QED BY <2>1, SettledSame
<1>6. CASE BuildStack \/ MakeInstance \/ WriteDockerfile \/ RunPlaybook
  <2>1. /\ step'["build"] \in {"ready", "done"} /\ UNCHANGED pool
        /\ todo'["create"] = todo["create"] /\ step'["create"] = step["create"]
    BY <1>0, <1>6, MakingStep DEF Making
  <2> QED BY <2>1, SettledSame
<1>7. CASE Push \/ Expire \/ UNCHANGED vars
  <2>1. UNCHANGED <<pool, todo, step>>
    BY <1>7 DEF Push, Expire, NoRows, vars
  <2> QED BY <2>1, SettledSame
<1> QED BY <1>1, <1>2, <1>3, <1>4, <1>5, <1>6, <1>7, Zenon DEF Next, PoolSteps

\* Whatever fails, a request that creates a pool leaves it open or deletes it, or else a
\* sandbox was asked of the pool meanwhile, or an exception ended the request that is
\* none of those create_pool expects.
THEOREM NoPoolLeftHalfMade == Spec => []RefusedIsGone
<1>1. Init => Settled
  <2>1. Init => Opens /\ RefusedIsGone
    BY DEF Init, Opens, RefusedIsGone, Actors
  <2> QED BY <2>1, InitOfOne DEF Settled
<1>2. Settled /\ [Next]_vars => Settled'
  BY StepSettled
<1>3. Settled => RefusedIsGone
  BY DEF Settled
<1> QED BY <1>1, <1>2, <1>3, PTL DEF Spec

=============================================================================
