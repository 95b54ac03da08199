---------------------------- MODULE RevisionReads ----------------------------
(***************************************************************************)
(* The files of a sandbox definition, read from a branch of a git          *)
(* repository that moves on: when a definition is imported or previewed,   *)
(* when a pool is created, and stage by stage when a sandbox is built.     *)
(* Each is a request or job of its own that reads file after file, and all *)
(* share a cache of topologies.                                            *)
(*                                                                         *)
(* A file is told apart by the commit it is read from.  Revision 0 is the  *)
(* branch; any other revision is the commit of that number.                *)
(***************************************************************************)
EXTENDS Naturals, Sequences

CONSTANTS
  MaxCommits,  \* the commits of the branch
  Loads,       \* those whose topology passes validation
  Matches,     \* the pairs of commits such that the containers of the second fit
               \* the topology of the first
  Modes,       \* topology_cache_mode of GitHub; GitLab is as mode FRESH
  Importers,   \* requests that import the definition
  Previews,    \* requests that show the topology of the definition
  MaxRebuilds, \* restarts of the allocation
  Faults       \* what may go wrong: see FaultKinds

(***************************************************************************)
(* "git":    a read fails, or the creation of a key pair.                  *)
(* "cloud":  the cloud does not answer when it is asked for its flavors    *)
(*           and images.                                                   *)
(* "expire": an entry of the cache reaches its time to live.               *)
(* "absent": the read of containers.yml fails, for whatever reason.        *)
(* "eager":  a sandbox is asked of a pool whose creation is under way.     *)
(***************************************************************************)
FaultKinds == {"git", "cloud", "expire", "absent", "eager"}

Commits == 1..MaxCommits
Revisions == 0..MaxCommits
Actors == Importers \union Previews \union {"create", "build"}

ASSUME ConstantsAssumption ==
  /\ MaxCommits \in Nat \ {0}
  /\ Loads \subseteq Commits
  /\ Matches \subseteq Commits \X Commits
  /\ Modes \subseteq {"FRESH", "FRESH_IMPORT", "AGGRESSIVE"}
  /\ MaxRebuilds \in Nat
  /\ Faults \subseteq FaultKinds
  /\ {"create", "build"} \intersect (Importers \union Previews) = {}

VARIABLES
  mode,        \* the provider, and topology_cache_mode
  head,        \* the commit the branch points to
  cache,       \* the topology cached under each key, 0 when there is none
  definition,  \* whether the definition is in the database
  pool,        \* the row of the pool: its state, and its rev_sha
  sandbox,     \* what each part of the sandbox was made from, 0 when it is not
  rebuilds,    \* the restarts so far
  todo,        \* what each actor has still to do
  step,        \* where it is within get_definition
  local        \* what it has read, and under which key it looks

vars == <<mode, head, cache, definition, pool, sandbox, rebuilds, todo, step, local>>

Tasks == {"definition", "refresh", "probe", "containers", "match", "save", "row", "open",
          "stack", "instance", "dockerfile", "playbook", "show"}
Parts == {"stack", "topology", "containers", "dockerfile", "playbook"}
NoSandbox == [p \in Parts |-> 0]
NoReads == [key |-> 0, file |-> 0, topology |-> 0, containers |-> 0]

TypeOK ==
  /\ mode \in Modes /\ head \in Commits
  /\ cache \in [Revisions -> Revisions]
  /\ definition \in BOOLEAN
  /\ pool \in [state : {"none", "new", "open", "refused"}, rev : Revisions]
  /\ pool.state \in {"none", "refused"} => pool.rev = 0
  /\ pool.rev # 0 => mode = "FRESH"
  /\ sandbox \in [Parts -> Revisions]
  /\ rebuilds \in 0..MaxRebuilds
  /\ todo \in [Actors -> Seq(Tasks)]
  /\ step \in [Actors -> {"idle", "ready", "look", "fetch", "store", "done", "failed", "broken"}]
  /\ local \in [Actors -> [key : Revisions, file : Revisions, topology : Revisions,
                           containers : Revisions]]

Init ==
  /\ mode \in Modes /\ head = 1
  /\ cache = [k \in Revisions |-> 0]
  /\ definition = FALSE
  /\ pool = [state |-> "none", rev |-> 0]
  /\ sandbox = NoSandbox /\ rebuilds = 0
  /\ todo = [a \in Actors |-> <<>>]
  /\ step = [a \in Actors |-> "idle"]
  /\ local = [a \in Actors |-> NoReads]

------------------------------------------------------------------------------
(* The requests and jobs, as sequences of reads and writes *)

\* create_definition.  Only GitHub's mode FRESH_IMPORT goes past the cache.
ImportTasks ==
  << IF mode = "FRESH_IMPORT" THEN "refresh" ELSE "definition" >>
    \o << "definition", "containers", "match", "save" >>

\* create_pool: the row is there before anything is validated.
CreateTasks ==
  << "row", "definition", "probe", "definition", "containers", "match", "open" >>

\* The stack stage, then the stages that need the topology instance.
LaterStages == << "definition", "containers", "instance", "dockerfile", "playbook" >>
BuildTasks == << "definition", "stack" >> \o LaterStages

\* DefinitionTopologyView
PreviewTasks == << "definition", "containers", "show" >>

------------------------------------------------------------------------------
(* The git providers *)

\* get_rev_sha: the commit of a branch, or the revision as it is.
Resolved(rev) == IF rev = 0 /\ mode = "FRESH" THEN head ELSE rev

\* get_file: what is read at a revision is of the commit it names now.
ReadAt(rev) == IF rev = 0 THEN head ELSE rev

\* Imports and previews ask for the branch, the others for what the pool has.
Asked(a) == IF a \in {"create", "build"} THEN pool.rev ELSE 0

------------------------------------------------------------------------------
(* Helpers *)

Doing(a, task) == step[a] = "ready" /\ todo[a] # <<>> /\ Head(todo[a]) = task

\* The task is done; the last one ends the request.
Next1(a) ==
  /\ todo' = [todo EXCEPT ![a] = Tail(@)]
  /\ step' = [step EXCEPT ![a] = IF Len(todo[a]) = 1 THEN "done" ELSE "ready"]

\* Mutant: a pool that does not pass is kept.
FailsKeepPool(a) ==
  /\ todo' = [todo EXCEPT ![a] = <<>>]
  /\ step' = [step EXCEPT ![a] = "failed"]
  /\ UNCHANGED pool

\* validate_topology_definition asks the cloud, and create_pool does not expect that
\* to fail.
Unforeseen(a) == "cloud" \in Faults /\ (step[a] = "store" \/ Doing(a, "match"))

\* How a request ends with an exception: one that create_pool does not expect is told
\* from the others.
Failures(a) ==
  {"failed"} \union (IF a = "create" /\ Unforeseen(a) THEN {"broken"} ELSE {})

\* An exception ends the request or fails the stage.  A pool that does not pass is
\* deleted, unless there is a unit in it already.
Fails(a) ==
  /\ todo' = [todo EXCEPT ![a] = <<>>]
  /\ \E how \in Failures(a) :
       /\ step' = [step EXCEPT ![a] = how]
       /\ pool' = IF a = "create" /\ step["build"] = "idle" /\ how = "failed"
                  THEN [state |-> "refused", rev |-> 0] ELSE pool

Goes(a, s) == step' = [step EXCEPT ![a] = s] /\ UNCHANGED todo

NoRows == UNCHANGED <<definition, pool, sandbox, rebuilds>>
NoGit == UNCHANGED <<mode, head>>
NotBuilt == UNCHANGED <<definition, sandbox, rebuilds>>

------------------------------------------------------------------------------
(* get_definition, in the order of its reads *)

\* The provider resolves the revision.  Only a refresh does not look into the cache.
Resolve(a) ==
  /\ Doing(a, "definition") \/ Doing(a, "refresh")
  /\ local' = [local EXCEPT ![a].key = Resolved(Asked(a))]
  /\ Goes(a, IF Head(todo[a]) = "refresh" THEN "fetch" ELSE "look")
  /\ UNCHANGED cache /\ NoRows /\ NoGit

LookUp(a) ==
  /\ step[a] = "look"
  /\ LET found == cache[local[a].key]
     IN IF found # 0
        THEN local' = [local EXCEPT ![a].topology = found] /\ Next1(a)
        ELSE Goes(a, "fetch") /\ UNCHANGED local
  /\ UNCHANGED cache /\ NoRows /\ NoGit

\* Mutant: the file is read at the revision that was asked for.
FetchAsked(a) ==
  /\ step[a] = "fetch"
  /\ local' = [local EXCEPT ![a].file = ReadAt(Asked(a))]
  /\ Goes(a, "store")
  /\ UNCHANGED cache /\ NoRows /\ NoGit

Fetch(a) ==
  /\ step[a] = "fetch"
  /\ local' = [local EXCEPT ![a].file = ReadAt(local[a].key)]
  /\ Goes(a, "store")
  /\ UNCHANGED cache /\ NoRows /\ NoGit

\* Loaded, validated, and only then cached.
Store(a) ==
  /\ step[a] = "store"
  /\ IF local[a].file \in Loads
     THEN /\ cache' = [cache EXCEPT ![local[a].key] = local[a].file]
          /\ local' = [local EXCEPT ![a].topology = local[a].file, ![a].file = 0]
          /\ Next1(a)
          /\ NoRows
     ELSE /\ Fails(a)
          /\ UNCHANGED <<cache, local>> /\ NotBuilt
  /\ NoGit

------------------------------------------------------------------------------
(* The other reads *)

\* get_containers: a failure of any kind is taken for a file that is not there.
ReadContainers(a) ==
  /\ Doing(a, "containers")
  /\ \E found \in {TRUE, "absent" \notin Faults} :
       local' = [local EXCEPT ![a].containers = IF found THEN ReadAt(Asked(a)) ELSE 0]
  /\ Next1(a)
  /\ UNCHANGED cache /\ NoRows /\ NoGit

\* create_pool looks whether there are containers to validate.
ProbeContainers ==
  /\ Doing("create", "probe")
  /\ \E found \in {TRUE, "absent" \notin Faults} :
       IF found THEN Next1("create")
       ELSE todo' = [todo EXCEPT !["create"] = <<"open">>] /\ UNCHANGED step
  /\ UNCHANGED <<cache, local>> /\ NoRows /\ NoGit

\* Mutant: a new pool is not validated once more.
MatchOnImport(a) ==
  /\ Doing(a, "match")
  /\ Next1(a)
  /\ UNCHANGED <<cache, local>> /\ NoRows /\ NoGit

\* validate_docker_containers: no containers are fine.
Match(a) ==
  /\ Doing(a, "match")
  /\ IF \/ local[a].containers = 0
        \/ <<local[a].topology, local[a].containers>> \in Matches
     THEN Next1(a) /\ NoRows
     ELSE Fails(a) /\ NotBuilt
  /\ UNCHANGED <<cache, local>> /\ NoGit

GitFails(a) ==
  /\ "git" \in Faults
  /\ \/ Unforeseen(a)
     \/ Doing(a, "definition") \/ Doing(a, "refresh")
     \/ Doing(a, "match") \/ Doing(a, "dockerfile") \/ Doing(a, "playbook")
     \/ Doing(a, "open")
     \/ step[a] = "fetch"
  /\ Fails(a)
  /\ UNCHANGED <<cache, local>> /\ NotBuilt /\ NoGit

------------------------------------------------------------------------------
(* Writes *)

\* A name, url and revision that is there already is refused.
SaveDefinition(a) ==
  /\ Doing(a, "save")
  /\ definition' = TRUE
  /\ IF definition THEN Fails(a) ELSE Next1(a) /\ UNCHANGED pool
  /\ UNCHANGED <<cache, local, sandbox, rebuilds>> /\ NoGit

SavePool ==
  /\ Doing("create", "row")
  /\ pool' = [state |-> "new", rev |-> Resolved(0)]
  /\ Next1("create")
  /\ UNCHANGED <<cache, local>> /\ NotBuilt /\ NoGit

\* Key pairs are made, and the request answered.
OpenPool ==
  /\ Doing("create", "open")
  /\ pool' = [pool EXCEPT !.state = "open"]
  /\ Next1("create")
  /\ UNCHANGED <<cache, local>> /\ NotBuilt /\ NoGit

Made(task, parts) ==
  /\ Doing("build", task)
  /\ sandbox' = parts
  /\ Next1("build")
  /\ UNCHANGED <<cache, local, definition, pool, rebuilds>> /\ NoGit

\* AllocationStackStageHandler._execute
BuildStack ==
  Made("stack", [sandbox EXCEPT !["stack"] = local["build"].topology])

\* get_topology_instance: made once for a sandbox, and kept for as long as it lives.
MakeInstance ==
  Made("instance", [sandbox EXCEPT !["topology"] = local["build"].topology,
                                   !["containers"] = local["build"].containers])

\* Mutant: the Dockerfile of the branch.
DockerfileOfBranch == Made("dockerfile", [sandbox EXCEPT !["dockerfile"] = head])

WriteDockerfile ==
  Made("dockerfile", [sandbox EXCEPT !["dockerfile"] = ReadAt(pool.rev)])

\* The ansible runner clones the repository, at the revision of the pool.
RunPlaybook == Made("playbook", [sandbox EXCEPT !["playbook"] = ReadAt(pool.rev)])

Show(a) ==
  /\ Doing(a, "show")
  /\ Next1(a)
  /\ UNCHANGED <<cache, local>> /\ NoRows /\ NoGit

------------------------------------------------------------------------------
(* What starts them, and what happens meanwhile *)

Begin(a, tasks) ==
  /\ step[a] = "idle"
  /\ todo' = [todo EXCEPT ![a] = tasks]
  /\ step' = [step EXCEPT ![a] = "ready"]
  /\ UNCHANGED <<cache, local>> /\ NoRows /\ NoGit

AskImport(a) == a \in Importers /\ Begin(a, ImportTasks)
AskPreview(a) == a \in Previews /\ definition /\ Begin(a, PreviewTasks)
AskPool == definition /\ Begin("create", CreateTasks)
AskSandbox ==
  /\ \/ pool.state = "open"
     \/ pool.state = "new" /\ ("eager" \in Faults \/ step["create"] = "broken")
  /\ Begin("build", BuildTasks)

\* restart_request: a new sandbox, with an instance of its own; a stack that is built
\* stays.
Restart ==
  /\ step["build"] = "failed" /\ rebuilds < MaxRebuilds
  /\ rebuilds' = rebuilds + 1
  /\ sandbox' = [NoSandbox EXCEPT !["stack"] = sandbox["stack"]]
  /\ todo' = [todo EXCEPT !["build"] =
                IF sandbox["stack"] = 0 THEN BuildTasks ELSE LaterStages]
  /\ step' = [step EXCEPT !["build"] = "ready"]
  /\ UNCHANGED <<cache, local, definition, pool>> /\ NoGit

Push ==
  /\ head < MaxCommits
  /\ head' = head + 1
  /\ UNCHANGED <<mode, cache, todo, step, local>> /\ NoRows

Expire ==
  /\ "expire" \in Faults
  /\ \E k \in Revisions : cache[k] # 0 /\ cache' = [cache EXCEPT ![k] = 0]
  /\ UNCHANGED <<mode, head, todo, step, local>> /\ NoRows

------------------------------------------------------------------------------
(* The specification *)

GetDefinition(a) == Resolve(a) \/ LookUp(a) \/ Fetch(a) \/ Store(a)

Request(a) ==
  \/ AskImport(a) \/ AskPreview(a)
  \/ GetDefinition(a) \/ ReadContainers(a) \/ Match(a) \/ GitFails(a)
  \/ SaveDefinition(a) \/ Show(a)

Next ==
  \/ \E a \in Actors : Request(a)
  \/ AskPool \/ SavePool \/ ProbeContainers \/ OpenPool
  \/ AskSandbox \/ Restart \/ BuildStack \/ MakeInstance \/ WriteDockerfile \/ RunPlaybook
  \/ Push \/ Expire

Spec == Init /\ [][Next]_vars

------------------------------------------------------------------------------
(* Properties *)

\* What is cached under a commit is of that commit, and whatever is cached has been
\* validated, though the branch may move between any two calls of a read.
CacheTrue ==
  /\ \A k \in Revisions : cache[k] # 0 => cache[k] \in Loads
  /\ \A k \in Commits : cache[k] \in {0, k}

\* A sandbox is made from one commit: the one its pool was created at, whatever is
\* pushed, imported or expires while it is built and built again.  (Of a pool that
\* names the branch, as those of two modes do, this is not so.)
OneCommit ==
  pool.rev # 0 => \A p \in Parts : sandbox[p] \in {0, pool.rev}

\* A pool with a commit is opened only if topology and containers of that commit fit,
\* and so do those of its sandboxes, also of one asked for before it was open; what the
\* import has validated may be older.  This does not hold when a failed read of the
\* containers is taken for a file that is not there.
ValidatedIsUsed ==
  pool.state = "open" /\ mode = "FRESH" =>
    /\ pool.rev # 0 /\ <<pool.rev, pool.rev>> \in Matches
    /\ sandbox["playbook"] # 0 => <<sandbox["topology"], sandbox["containers"]>> \in Matches

\* create_pool, whose row is there from its beginning, leaves it open or deletes it: it
\* stays half made only if a sandbox was asked of it meanwhile, or after an exception
\* that is none of the three it expects.
RefusedIsGone ==
  pool.state = "new" =>
    /\ step["create"] # "done"
    /\ step["create"] = "failed" => step["build"] # "idle"
==============================================================================
