# Verification of the sandbox service

This directory specifies and verifies the control logic of the CyberRangeCZ
sandbox service (`src/sandbox-service`, with its libraries in `src/libs`): a
Django application that builds cyber-range sandboxes in a cloud, keeps them in
pools, gives them out to trainees and tears them down. Modules are TLA+; TLC
checks them on small instances, TLAPS proves all but two of the invariants of the passing runs, one action
property and one refinement, for every value of the constants.

Paths below are relative to
`src/sandbox-service/crczp/sandbox_instance_app/` unless they begin with `src/`.

- [1 The system](#1-the-system)
- [2 Modules and how they correspond to the code](#2-modules-and-how-they-correspond-to-the-code)
- [3 Runs, bounds and what they show](#3-runs-bounds-and-what-they-show)
- [4 Fairness](#4-fairness)
- [5 Disagreements found](#5-disagreements-found)
- [6 Proofs](#6-proofs)
- [7 What is only model-checked, and what is not modelled](#7-what-is-only-model-checked-and-what-is-not-modelled)

## 1 The system

### Processes and what they share

| process | what it runs | how many at once |
|---|---|---|
| web workers (gunicorn) | the views: one transaction per request unless the code opens one, none around a whole request (`ATOMIC_REQUESTS` is off) | several |
| rq workers, queue `default` | orchestration jobs (creation of rows, enqueueing of stages), the NetBird job, the finalizing jobs | several |
| rq workers, queues `openstack` and `ansible` | the stages: terraform and Ansible | several |
| operators, trainees | ask for things, at any time, in any order | any number |

They share the PostgreSQL database, the Redis queues, the cloud and the NetBird
server. Nothing fixes the number of workers of a queue to one; the comment
"avoid race condition with decrementing pool size in DB"
(`lib/request_handlers.py:493`) takes concurrent finalizers for granted, and so do
the modules. A job carries pickled model objects: a worker acts on rows as they were
when the job was enqueued, and `save()` writes every column of such an object back,
or inserts the row again if it is gone.

### Components

| component | state | operations | interacts with | correct means |
|---|---|---|---|---|
| allocation unit lifecycle (`lib/requests.py`, `lib/request_handlers.py`, `lib/stage_handlers.py`) | the unit, its sandbox and its lock, its allocation and cleanup request, three stages each, `Pool.size` | create, restart, cancel, cleanup, forced cleanup, delete cleanup request; orchestration, stages, finalizers, exception handler | pools, rq, cloud, NetBird, request groups | stages in order; a unit goes only after its cloud resources; ready means built; a locked sandbox stays; the pool's size is right; nothing hangs |
| job queue (rq, external) | jobs, their status and dependencies | enqueue, finish, fail, delete with dependents | everything asynchronous | as its documentation |
| pools (`lib/pools.py`, `serializers.py`, `views.py`) | `size`, `max_size`, `PoolLock` | create, build, edit, delete, force delete, recount | unit lifecycle | never more units than `max_size`, size exact |
| assignment (`lib/pools.py`, `lib/sandboxes.py`, `views.py`) | `SandboxLock`, `PoolLock` with its token, row locks | get and lock any free sandbox, lock one, unlock, lock the pool | unit lifecycle (sandboxes come and go) | one holder per sandbox, one sandbox per trainee, the token is honoured, every request answered |
| request groups (`models.py` 625-703) | `failed_count`, `finished_count` | report success, report failure, mails | stages of all units of one request | a true summary, once; the first failure mailed |
| NetBird (`lib/netbird.py`, `../sandbox_common_lib/netbird_client.py`) | peers, groups, keys, policies, routes at NetBird; rows that name them | provision, tear down | unit lifecycle | everything named by a row, nothing left after a teardown, both within their time |
| terraform client (`src/libs/terraform-client`, `lib/stage_handlers.py`) | stack directory, workspaces, recorded state, state lock, processes | create, destroy, delete workspace and directory, cancel, read the state | stages, trainees' reads | a stack reported built is complete and in its own workspace; a cleanup reported done has left nothing |
| topology definition (`src/libs/topology-definition`), topology instance (`src/libs/python-commons/.../topology_instance.py`) | none (pure) | load and validate a document; links and queries | definitions, templates, inventories, views | what is accepted can be rendered, inventoried and shown consistently |
| views of a topology (`../sandbox_ansible_app/lib/inventory.py`, `group_builders.py`, `lib/topology.py`, `lib/sshconfig.py`, `lib/nodes.py`) | none | inventory with groups and routes, trainee topology, SSH configurations, address of a node | ansible runs, trainees | nothing hidden is shown, one gateway for all, what is shown as reachable is reachable |
| ansible runs (`../sandbox_ansible_app/lib/ansible.py`, `container.py`) | container or Kubernetes job, its row, working directory, log rows | prepare, run, copy the log, wait, remove, cancel | stages, NetBird job | one playbook at a time, done means ran, nothing left running, it ends |
| definitions (`../sandbox_definition_app`, `lib/sandboxes.py`) | rows with a revision, the cache of topologies, the cached topology of a sandbox | import, preview, create a pool, build | git providers, everything | one sandbox from one commit, what is used was validated |
| quotas, drivers (`src/libs/openstack-lib`, `aws-lib`), variable generator (`src/libs/automated-problem-generation-lib`), UAG, REST layer, configuration | none of their own | call the cloud, compute, parse, check permission, render | everything | not modelled: section 7 |

### What is hard

A unit's life is driven by objects that were pickled earlier, by jobs whose order
depends on what rq finds when they are enqueued, and by operators who act in
between. The list of hazards in `PROJECT.json` names each place; they fall into

- **stale objects**: a stage, a finalizer or a pool edit writes back what it read
  long before;
- **checks before transactions**: the views check a cleanup, a token or an existing
  lock on data that has changed when they act on it;
- **two steps of one**: decrement and delete, enqueue and remember the job's id, report
  and remove the container;
- **failure in the middle**: a failed stage leaves its dependents deferred for ever
  unless the exception handler finds the request; a killed worker calls no handler;
- **lock order**: a request locks the rows of all ready sandboxes of a pool;
- **names outside the database**: an object at NetBird, a terraform workspace or a
  container is made first and written down by a later step, while somebody else may
  be removing what is written down;
- **shared directories**: jobs and web requests use one directory and one selected
  workspace per stack, without a lock of their own;
- **things that move**: a branch is read file by file, in different jobs, through a cache;
- **several readers of one document**: the template, the inventory, the topology of
  the trainee and the SSH configurations each read the definition by queries of their own.

## 2 Modules and how they correspond to the code

`PROJECT.json` maps each definition to its lines. The granularity is: a transaction that
holds the row it decides on is one step; two queries of one request, two transactions,
a remote call and what follows it are different steps, with everybody else in
between.

### `JobQueue` - rq 1.13, external

Pure operators on the status of the jobs of one chain: `EnqueuedJob` (waits unless every
dependency is finished **or cannot be found**), `FinishedJob` (queues dependents that
nothing else holds), `DeletedJob` (deletes direct dependents that wait; does not
stop a worker). Written from the calls `Queue.enqueue(depends_on=...)`
and `Job.delete(delete_dependents=True)`.

### `SandboxLifecycle` - the core

| state | in the code |
|---|---|
| `units`, `size` | rows of `SandboxAllocationUnit`, `Pool.size` |
| `sandbox`, `ready`, `locked` | the unit's `Sandbox` row, its `ready`, whether it has a `SandboxLock`; the row is named by the operation that inserted it, so a pickled sandbox can be told from its successor |
| `creq`, `row` | the `CleanupRequest`; the six stages: which operation inserted them (0: no row), not started / running / done / failed, whether an `RQJob` row ties them to a job |
| `op` | the operations asked of the unit: the rest of the web request, then the orchestration job (`plan`: the stages it enqueues, `todo`: those left) |
| `job`, `work` | status of the jobs of an operation, and how far the worker running one is (`exc`: the exception handler is to be called) |
| `left` | stage objects a running cancel_request has read and has yet to cancel |
| `cloud` | the unit's stack may have resources |

Actions carry the names of the functions: the web requests
(`CreateAllocationsRequests`, `RestartRequest`, `CancelAllocationRequest`,
`CreateCleanupRequest`, `CreateCleanupRequestForce`, `DeleteCleanupRequest`,
`LockSandbox`, ...), the orchestration (`CreateAllocationJobs`, `ReplaceSandbox` then
`RestartStageHandlers`, `CreateCleanupJobs`, then `EnqueueStage`/`SetJobId` per stage and
`EnqueueFinalizer`), and the jobs (`TakeJob`, `ExecuteStart`, `ExecuteEnd`, `ExecuteFail`,
`RequestExceptionHandler`, `CancelStage`, `MarkSandboxAsReady`, `DecrementPoolSize`,
`DeleteAllocationUnit`, `CrashJob`, `CrashOrchestration`).

Abstractions, each of which makes one step of several rows nobody else can act on:
the rows of one orchestration transaction are inserted at once (they are committed together, and
the enqueueing is an on_commit hook); a stage row that is deleted and
inserted again during a restart changes at once; the creation of a cleanup request is
merged with that of its stages. A timeout of a job is a stage that fails, which may
happen at any moment. So are `_delete_job`, `_cancel` and the save of one stage in a cancellation (`CancelStage`), and the deletion of the
old sandbox and the save of the new one in a restart (`ReplaceSandbox`). Docker errors while a container is being stopped by a cancellation
and mails (see `RequestGroup`) are left out. A terraform child of a killed
worker is taken to die with it.

`Hasty` holds the kinds of operation that may be asked at any moment; the others are
asked only when the previous operation is over. `Faults` adds crashes, a slow loop (others act between two turns of the
enqueueing loop; without it nobody does, the workers included, although a worker may take up the first stage while the later ones are being enqueued)
and a terraform directory that cannot be initialised.
A `Hasty` of everything is the real system; the smaller values separate what holds
always from what holds for patient operators.

### `PoolCapacity`

The row of one pool (`live`, `size`, `max`), the phase of every unit (`unborn`, `live`,
`cleanup`, `counted`: decremented and not deleted, `last`: about to delete the pool,
`gone`), the finalizer's flag `delete_pool` and the size it has seen, and visitors that hold an
object read without a lock: a `GET` recounts a size that was read as 0
(`PoolSerializer.get_size`), a `PATCH` saves every column. `wrote` remembers of a visitor whether
it has recounted the size, or made an edit that is not `Harmless`: one that writes back a size which is no longer
true, lowers the maximum, or brings back a deleted pool. The properties are stated
for the behaviours before that, so that builds, finalizers and harmless edits are all
in one specification. The units are those of `SandboxLifecycle` with their stages forgotten: a
cleanup reaches its finalizer or fails.

### `SandboxAssignment`

Requests for a free sandbox (`SandboxGetAndLockView.get`, `get_unlocked_sandbox`), for
one sandbox (`lock_sandbox`), releases, `lock_pool` and its token. Row locks
are explicit (`rowlock`): `select_for_update` takes them one after the other in the order
of ids; each query sees what was committed when it began (read committed).
Sandboxes become ready and are deleted meanwhile, and a worker may die.

### `RequestGroup`

The worker of every unit reports to the group's row: `RefreshFromDb` reads it,
`SaveEnd`/`SaveFail` write it back whole, then the on_commit hooks send mails, and the
summary deletes the row. A hook that raises drops the hooks after it and makes the stage
fail, which is reported too; so does a container that cannot be removed after the success was
reported: such a unit is `stranded`, and the counts are then out of step, so the summary
is promised only while no unit is. `alerts` counts the attempts to send a failure mail.

### `NetbirdAccess`

What exists at NetBird (`cloud`, `peers`), and the rows and the ids saved in them (`rows`, `named`). For the two actors - the
provisioning job, and the request that tears down and then deletes the sandbox - the module keeps what each does next (`at`), to which kind
of object (`kind`) and of whom (`on`), the owners it has still to come to (`left`), the ids in the objects it holds (`mem`), and what the
job has just made (`made`). An owner is an entry of the vpn block or the sandbox's access.
One step is one call or one query, in the order of `provision_netbird_for_sandbox` and what it calls (`CreateRow`, `Make`, `Save`,
`Reread`, `NextEntrypoint`, `EndGuard`), and of `destroy_netbird_for_sandbox` (`ReadAccess`, `ReadHosts`, `Pick`, `CheckDeadline`, `Unmake`,
`ListPeers`, `DeletePeer`, `Forget`), after which `DeleteSandbox` removes the rows. `Proceed` and `AfterCall` say where each goes on.
The ids of a row are saved as in the code: when all objects of one kind are made. Entries that name the same node share a row (`Row`), as
the code gets it by the node's name. The guards before, between and after the steps of the job and the time budget of the
teardown (`late`, `overrun`) are in it. A call may be refused, or there is no client (`"refuse"`), the budget may run out (`"slow"`),
the worker may die between a call and the row (`"crash"`); peers register by themselves as long as a setup key is there.
HTTP retries of the client are a call that succeeds or is refused. Calls whose order changes nothing, such as those for several routes of
one entrypoint, come in any order.

### `StackDirectory` and `StackPromise`

The stack of one unit: the directory with its files and selected workspace (`dir`), the
workspaces of the remote backend, the state each records (`recorded`), the lock terraform holds on it,
and per job the command under way (`at`, `tofu`). The steps of a build, a deletion and a read are the terraform
commands in the order of `terraform_client_manager.py` and `stage_handlers.py`, with what each needs and leaves: a command acts on the workspace that
is selected **when it runs**. `StackPromise` is the abstract specification - building, built, cleaning, cleaned,
and the resources that exist - without directories, workspaces, processes or locks.
rq's alarm (`Timeout`) ends a job wherever it is, and leaves directory, selection and terraform as they are. A restart that then comes upon the default
workspace selected, with that of the stack still there, is told apart (`Astray`), because it is the one way in which an alarm breaks the promise (section 5).
The property `ImplementsPromise` is `Promise!Spec` under the mapping that reads the phase off the results of the stages
and the resources off the recorded states, each with its workspace.

### `AnsibleRun`

One row of an allocation stage that runs a playbook, with both container managers (`backend`): the files prepared, the container and its
row, the copies of the log line by line, the wait, the removal, the save, and a web request that cancels or
restarts. A deleted Kubernetes job leaves its pod for a while, as the code deletes it in the background (`deleted`, `PodGone`); Docker removes at once.
The watch of a pod or of a job sees what is the case when it begins, and each change after that: `WaitForPod` and `CheckStatus` are what it sees at any
later moment, `SeenInTime` what only one that began before the change has seen. `escaped` remembers the containers that a cancellation, or the alarm before the `try`, has missed or could not remove.
`key` tells whether the NetBird job has left a setup key, and which runs found it. The row of the stage is
saved whole at the end (as in `SandboxLifecycle`), so the last writer wins.

### `TopologyDefinition`, `TopologyInstance`, `SandboxViews`

`TopologyDefinition` loads a document attribute by attribute in the order of the class, each validated against
those before it. `TopologyInstance` has the links made of it, the queries, the ports of the template and what the enrichment looks up, and the further checks
of `create_definition`, the rendering of the template among them: what it raises decides on acceptance. `SandboxViews` has the
four readers: inventory (hosts, interfaces and routes, default and user groups), topology of the trainee, SSH configurations, address of a node.
Addresses are integers, a CIDR is the set of its addresses, an expression for names or URLs the set of what it accepts;
lists whose order matters (mappings: the last address of a network is the one compared, the first network of a host decides) are sequences.

### `RevisionReads`

A branch whose head moves (`head`), the cache of topologies, rows of definition and pool with their revision, and requests and
jobs (imports, previews, the creation of a pool, the stages of a build) that read file after
file at moments of their own. A file is told apart by the commit it was read from; whether a commit's topology loads (`Loads`) and whether containers fit a topology
(`Matches`) are constants. `create_pool` deletes the row of the pool for three kinds of exception only, so a request that fails is told from one that
breaks (`Failures`); a sandbox may be asked of a pool that is not open yet, or is left half made. `mode` is `topology_cache_mode`; the provider for GitLab behaves as mode `FRESH`.

### MC modules

A module `MC...` extends a component's module
with model values, sets and, where it is sound, symmetry for the configurations. Operators named in a
comment `Mutant:` are deliberately wrong variants of the definition below them, used to show that a
property notices.

## 3 Runs, bounds and what they show

| run | instance | properties | what it shows |
|---|---|---|---|
| `LifecyclePatient` | 1 unit with NetBird, 3 operations one after the other, crashes | `TypeOK`, `NothingLeftBehind`, `ReadyMeansAllocated`, `PoolSizeExact` | whatever stages fail, whichever worker dies and however often the unit is restarted or cleaned up, it is deleted only after its stack, a ready sandbox has its stages done, and the pool's size is exact at rest, but for a finalizer that died between its transactions |
| `LifecycleRaces` | 1 unit, 3 operations, restarts, cancellations and forced cleanups at any moment but within an enqueueing loop, fair workers | `StagesRunInOrder`, `PoolSizeNeverOvercounts`, `QuietUnitIsSettled`, `LockedSandboxKept`, `RequestsSettle` | what holds against operators and workers who race each other; every request in progress becomes finished |
| `PoolRaces` | 3 units, 2 visitors, maximum 2, edits to 1 or 3 | `CapacityRespected`, `SizeExact` | before a harmful edit the maximum is respected; before a harmful edit or a recount the size is exact at rest |
| `AssignmentRaces` | 2 requests of one trainee in turn, 1 of another, 1 organizer, 2 sandboxes, fair workers | `PickStaysFree`, `NoCircularWait`, `OneSandboxEach`, `Answered` | nobody is given a taken, deleted or unready sandbox, nobody waits in a circle, a trainee who waits for answers never has two sandboxes, every request is answered |
| `GroupReports` | 3 units, mail and container faults, cancellations | `SummaryTrue`, `GroupOutlivesUnits`, `FailureMailed` | a summary, if one is sent, is true; no unit finds its group gone before its first report; a failure is always mailed |
| `NetbirdRaces` | 1 entrypoint with 1 route, name servers, refused calls, spent budget, dying worker, fair actors | `EverythingNamed`, `NothingLeft`, `OverrunBounded`, `JobAndRequestEnd` | undisturbed, everything that exists is named by a row; a teardown that runs alone and is refused nothing leaves nothing; after the budget has run out a teardown makes two more calls at most; both end |
| `StackRaces` | 1 resource, 2 builds, 2 cleanups, 2 readers, failing cloud, alarms at any moment, a lost directory, fair jobs | `OwnWorkspace`, `FailedBuildLeavesNothing`, `ReadersTrue`, `ImplementsPromise`, `JobsEnd` | the commands and their failures implement the promise; nothing is made in a workspace where nobody looks; a failed build leaves nothing; a reader sees all or raises |
| `AnsibleRuns` | 2 runs, 1 line, both backends, all faults | `DoneMeansRan`, `OnePlaybook`, `NothingLeftRunning` | done means the playbook ran with all it is given and its log is whole; two playbooks work together only if one of them ran away; a job that is over has removed its container |
| `AnsibleEnds` | the same, alarms only, fair jobs | `RunEnds` | every job ends, though containers hang or print nothing |
| `TopologyViews` | every document of up to 2 hosts, routers, networks, 3 mappings of each kind, 1 extra | `NothingHiddenShown`, `RoutedThroughGateway`, `InventoryComplete`, `AccessConfigured` | what is accepted can be inventoried, and the readers of it agree |
| `RevisionRaces` | 3 commits, 1 import, 1 preview, 1 pool, 1 sandbox built twice, all cache modes, failing reads, a cloud that does not answer, expiring entries, sandboxes asked for too early | `CacheTrue`, `OneCommit`, `ValidatedIsUsed`, `RefusedIsGone` | the cache holds what it says; a pool with a commit is built from it; what the sandboxes of an open pool use was validated; a pool is open or gone, or half made in the two ways section 5 names |
| `FoundOrphans` | as `NetbirdRaces`, no faults | `RaceLeavesNothing` | refuted: section 5 |

**Bounds.** `MaxOps` bounds the operations of a unit, its creation included. An illegal interaction
needs the creation and one further operation, as the counterexamples of section 5 show; three operations cover failure, restart
and cleanup, or two requests that race each other. In `LifecycleRaces` a plain cleanup and the deletion of a cleanup request wait until the unit is at rest, which keeps its liveness within minutes; the theorems are for any haste. Units share nothing but their pool's row, on which
each acts by one atomic step: what several units do to it is the subject of `PoolRaces`, and of
the theorem `PoolSizeCorrect`, which holds for any number of units. In `PoolCapacity` three units against a maximum of two
are the least with a refused build, a rebuild in a freed place and two finalizers;
two visitors the least that can spoil each other's count; the maximum may be lowered and raised. Two sandboxes and three requests are the least for a
circle of waiting, for a trainee who finds the first sandbox taken, and for a third party;
the second request of one trainee is there for `OneSandboxEach`. Three units of a request group are the least
with two concurrent reports and a third still open.

In `NetbirdAccess` the entrypoints of a job are provisioned one after the other by the same steps, so one of them, with a route,
meets every call, guard and row; its access group and name servers are there besides. The theorems hold for any number of entrypoints and routes. `MaxBuilds` and `MaxCleanups` of 2 are the least with a restart
that finds what the build before has left and a cleanup repeated after a failed one; two readers are the least that pull the state
against each other; one resource distinguishes an empty and a complete stack: a part of a stack, which a failing cloud leaves, takes two, and is covered by the theorems only. `MaxRuns` of 2 has a run and the restart that replaces its row;
one line is the least that can be lost or saved twice. `AnsibleEnds` has alarms only, because liveness costs more than safety and an alarm is what ends a job that waits; the other faults end one by themselves. The documents of `TopologyViews` are drawn from pools (`HostPool`, ...) that have, for every check of the validators, an element that fails it;
`MaxNodes`, `MaxMappings` and `MaxExtras` bound how many are taken: two routers of a network, a host on two networks, two addresses of
one network, a hidden network behind a visible router all occur. `MaxCommits` of 3 lets the branch move before and after the pool is created, with a commit that does not load and two that do not match;
`MaxRebuilds` is the restart of an allocation. Each unit is built once (in `PoolCapacity`), each request, visitor, reader and import
comes once, and each unit reports at most twice: these are the only other bounds.
Symmetry is used only for safety and only over units and visitors.

**Faults.** Each module lists its kinds of fault. A run names those against which its properties hold; with any of
the others TLC refutes a property, as section 5 tells fault by fault. They are constants, not guards that the code has: the code
does not prevent the others.

`CHECK_DEADLOCK FALSE` stands in every configuration, because the bounded
systems really stop: when every operation has been used up and every job is over, nothing is left to do.
A job that waits for ever is caught by `QuietUnitIsSettled` and the
liveness properties instead.

**Types.** Every component has a `TypeOK` (`PoolTypeOK` in `PoolCapacity`). That of `SandboxLifecycle` is an invariant of `LifecyclePatient`;
all of them are proved (section 6); the abstract `StackPromise` has none. The other configurations leave theirs out:
adding `INVARIANT TypeOK` to one of them checks it.

## 4 Fairness

`SandboxLifecycle!FairSpec` is weak fairness of `Progress(u)` per unit: web requests
that have begun go on, rq workers take queued jobs, and stages end - by themselves or by the timeout their queue
gives them. `SandboxAssignment!FairSpec` is weak fairness of `Handle(r)` per request: PostgreSQL grants
a free row lock to a waiting query and a web worker goes on. `NetbirdAccess!FairSpec` is weak fairness of the job and of the request:
each HTTP call has a timeout, so each step ends. `StackDirectory!FairSpec` is weak fairness of each job's own steps, of which rq's timeout
of a job that waits for terraform is one, and of the grant of the state lock; terraform itself is not fair: a command may hang.
`AnsibleRun!FairSpec` is weak fairness of the job's steps, of rq's timeout, and of the NetBird job's end, on which the user's stage depends;
containers are not fair: they may hang, print nothing, or be removed.
Operators, visitors, readers, crashes and
failures are never fair: no property relies on anybody asking for anything, or on any
stage succeeding.

## 5 Disagreements found

`FoundOrphans` states a sentence of the repository, "if the sandbox was deleted while we were provisioning, tear down every cloud object we already created" (`lib/netbird.py:408`), and TLC refutes it: a teardown reads the rows of the sandbox while provisioning goes on; what the job creates after that is deleted by nobody, the job's guards still find the sandbox, and the cascade then forgets the ids.

The following configurations each state a sentence of the repository too, and TLC refutes it (`tlc -config <configuration> <module>`). They belong to no run of the
project; each takes seconds.

| configuration, module: property | sentence | what happens |
|---|---|---|
| `SizeForgotten.cfg`, `MCSandboxLifecycle`: `SizeAsDocumented` | `size` is the "current amount of Allocation Units associated with this pool" (`models.py:53`) | a cleanup accepted between the last stage and the finalizer of the allocation deletes the sandbox; the finalizer saves the one it was pickled with, which inserts it again (`lib/request_handlers.py:396`); the finalizer of the cleanup has then decremented `size` and cannot delete the unit |
| `DyingFinalizer.cfg`, `MCSandboxLifecycle`: `SizeAsDocumented` | the same | the decrement and the deletion of the unit are two transactions (`lib/request_handlers.py:493`), and the worker dies between them |
| `RestartRefused.cfg`, `MCSandboxLifecycle`: `ReadySandboxKept` | "Only failed stages can be restarted" (`lib/request_handlers.py:351`) | a restart of a unit whose stages have all succeeded is refused after its ready sandbox has been deleted and replaced by one that nothing will make ready |
| `StaleEdit.cfg`, `MCPoolCapacity`: `MaximumRespected` | `max_size` is the "maximum amount of Allocation Units associated with this pool" (`models.py:49`) | an edit of a pool writes back the size it read (`serializers.py:79`); a build in between is forgotten, and the next one exceeds `max_size` |
| `TwoSandboxes.cfg`, `MCSandboxAssignment`: `OneSandboxEach` | "You already have a sandbox assigned" (`lib/pools.py:220`) | the query for an existing sandbox locks nothing when there is none, and is not repeated: two simultaneous requests of one trainee are given a sandbox each |
| `AstrayRestart.cfg`, `MCStackDirectory`: `DeletionsDelete` | "Delete stack associated with the given allocation unit" (`lib/stage_handlers.py:200`) | the alarm ends the job of a failed build between `workspace select default` and `workspace delete`; the restart's `workspace new` finds the workspace in place and selects nothing, so the stack is made in the default workspace; its cleanup destroys an empty stack and is done |
| `SkippedDestroy.cfg`, `MCStackDirectory`: `SkippedHadNothing` | a directory that cannot be initialised is no problem, "because creation failed to initialize as well" (`lib/stage_handlers.py:219`) | `tofu init` failed at the cleanup of a complete stack; the destroy is left out, and the stage is done |
| `CancelledPlaybook.cfg`, `MCAnsibleRun`: `CancelStops` | `cancel` "stops the stage execution" (`lib/stage_handlers.py:114`) | a cancellation that finds no row of a container, because the job has not inserted it yet, stops nothing and marks the stage finished |
| `UnreadContainers.cfg`, `MCRevisionReads`: `ValidatedIsUsed` | `get_containers` answers `None` if there is no such file (`../sandbox_definition_app/lib/definitions.py:148`) | it does so for any `GitError`: a read that fails for a moment makes `create_pool` skip the match of topology and containers |

### Properties that hold only for patient operators, or without a fault

Each line gives the property and what to change in the configuration of a run (a copy of it) to see TLC refute it.

| property | configuration | what happens |
|---|---|---|
| `StagesRunInOrder` | `LifecyclePatient` with `Hasty = {"cancel"}`, `Faults = {"slow"}`, `MaxOps = 2` | a cancellation between two turns of the enqueueing loop deletes the job that the next stage is to depend on; rq runs that stage at once |
| `RequestsSettle` | `LifecycleRaces` with `Faults = {"slow"}`, `MaxOps = 2` | a stage that fails before its `RQJob` row is inserted is not found by the exception handler (`lib/stage_handlers.py:98`): the request stays unfinished |
| `NothingLeftBehind` | `LifecyclePatient` with `Hasty = {"force"}`, `Faults = {}`, `MaxOps = 2` | a forced cleanup cancels a stack stage that a worker has just taken up and not begun; the cleanup finds no stack and ends, the stage then builds one, and the unit is deleted |
| `ReadyMeansAllocated` | `LifecyclePatient` with `Hasty = {"cancel"}`, `Faults = {}`, `MaxOps = 2` | a cancellation that has read the last stage as unfinished marks it failed after it has succeeded and the sandbox has become ready |
| `NothingLeftBehind`, `ReadyMeansAllocated` | `LifecyclePatient` with `Faults = {"slow"}`, `MaxOps = 2` | a stage fails while the later ones are being enqueued; its handler deletes the waiting jobs, and the finalizer, enqueued to depend on a deleted job, runs at once |
| `NothingLeftBehind` | `LifecyclePatient` with `Faults = {"init"}`, `MaxOps = 2` | a terraform directory that cannot be initialised during a cleanup counts as a stack that never existed, and the unit is deleted |
| `AddressInNetwork` | `TopologyViews` with `MaxMappings = 2`, `MaxExtras = 0` | the addresses are put in a dictionary by network: of the mappings of one network only the last is compared with its CIDR |
| `TargetsNormalise` | `TopologyViews` with a target whose address is `"other"` in `MonitoringPool` | the address of a monitoring target is not validated: the inventory raises, in the first Ansible stage of every sandbox of an accepted definition |
| `OwnWorkspace`, `FailedBuildLeavesNothing`, `ImplementsPromise` | `StackRaces` with `"astray"` | as `AstrayRestart`: the restarted build makes the stack in the default workspace; if it fails, its own deletion leaves what it has made |
| `OwnWorkspace` | `StackRaces` with `"workspace"`, `"lost all"` or `"overlap"` | the creation of a workspace is reported as failed though it was made; the retry finds it in place, counts as done, and nothing has selected it: the stack is made in the default workspace. A lost directory of a failed build, and a restart beside a cancelled job whose deletion still runs, end alike |
| `ImplementsPromise` | `StackRaces` with `"early"` or `"init"` | a cancellation before the process id is saved stops nothing; a deletion that cannot initialise its directory reports success |

`OnePlaybook`, `NothingLeftRunning` and `RefusedIsGone` hold with all faults because they name their exceptions. Those are: a playbook runs away when a cancellation
finds no row or is refused the removal, when the job is refused it, and when an alarm rings after the container has been started and before the `try` that removes it;
the pod of a deleted Kubernetes job works until the cluster has removed it, beside that of a restart; a job whose worker died has removed nothing; a pool without keys stays when
the cloud does not answer, because `create_pool` removes the row for three kinds of exception only (`lib/pools.py:89`), and it stays when a build has been asked of it, which a
pool under creation does not refuse.

### Further consequences of the same causes

- cancelling marks a running stack stage finished without stopping its process; the cleanup that was
  refused a moment before is now accepted and runs beside it (`lib/stage_handlers.py:126`);
- a forced cleanup deletes the lock of the sandbox before it refuses (`lib/requests.py:84`), and a forced deletion
  of a pool skips the units whose cleanup is in progress (`lib/requests.py:79`);
- a recount between the two transactions of a finalizer counts a unit that is about to go; a negative `count`
  reduces the size (`lib/pools.py:190`); of two finalizers, the one that brings the size to 0 need not be the last to delete its unit,
  and the pool is then deleted by nobody (`lib/request_handlers.py:502`); `max_size` may be lowered below the size;
- the token of a pool lock is compared before the transaction that gives the sandbox out (`views.py:786`);
- two concurrent reports to a request group lose one another: the summary is never sent, because the sum has to
  equal the count of units (`models.py:661`), or the alert is sent
  twice; a unit whose container cannot be removed is counted twice, and the summary is early;
- a teardown checks its deadline before every call but the listing of peers: the overrun is two calls, not the one that
  `OverrunBounded` quotes;
- two entries of the vpn block may name one node (`src/libs/topology-definition/crczp/topology_definition/validators.py:382` only checks that the
  node exists). They then share a row (`models.py:618`), the ids of the second entry replace those of the first, and the teardown
  misses what the first made: TLC refutes `EverythingNamed` and `NothingLeft` in `NetbirdRaces` with `Entrypoints = {"e1", "e2"}` and one `Host`. Whether NetBird
  accepts a second group of the same name is not told by the code;
- two readers of one stack pull its state into one file and may fail one another; a job timed out while terraform runs
  leaves terraform running and skips the deletion of what it has made;
- the watch of a Kubernetes job that has been deleted ends by the queue's timeout only; the final save of a
  log deletes the lines it has before it reads them again;
- with the cache modes other than `FRESH` a pool's `rev_sha` is the name of a branch ("SHA of the
  Definition revision", `models.py:62`), and the parts of one sandbox may come from different commits; a refused
  import in mode `FRESH_IMPORT` still refreshes the cache, and so changes the topology of existing pools; a slow
  reader may overwrite a refreshed entry with an older one; an import may validate topology and containers of different commits;
- a host, router or network of the names `man` or `man-network` replaces, or is replaced by, the management node or its network
  (`src/libs/python-commons/crczp/cloud_commons/topology_instance.py:73`): no document of `TopologyViews` uses them; nor one of the
  form `link-3`, whose machine and port share a key of the stack's resources;
- if the WAN has another name, a user network `wan` is never shown; a container on a host that the trainee cannot reach
  has an SSH entry that jumps through an alias the configuration lacks; a host on two networks, the first of them out of reach, is shown
  as accessible while its address for access in the browser raises; a missing node is reported as "Unknown action" (`lib/nodes.py`).

## 6 Proofs

Each component with theorems has a module `...Proofs` beside it (`SandboxViewsProofs` is about all three modules of the topology, `PoolProofs` about `PoolCapacity` and `SandboxAssignment`). TLAPS checks all of it, for all values of the constants that satisfy
`ConstantsAssumption` of the module (`PoolConstants` for `PoolCapacity`, `PoolAssumption` and `AlphabetAssumption` for the topology): any number of units, requests, runs, commits, readers and operations, and documents of any size. What a theorem assumes besides
is a named assumption in its `ASSUME`, given here with it; each of them excludes only faults that refute the property (section 5),
and the run that checks the property has none of these either. The inductive invariants were checked by TLC on the runs' instances before they were proved.

- **`SandboxLifecycleProofs!TypeCorrect`** - `Spec => []TypeOK`: every variable keeps its type; `size` in particular
  stays a natural number although any number of finalizers may count the same unit out.
- **`SandboxLifecycleProofs!PoolSizeCorrect`** - `Spec => []PoolSizeNeverOvercounts`, for any number of units and operations, any
  interleaving, crashes and slow loops included. The bound alone is not inductive: a new unit must not be one a finalizer has already
  counted out. The strengthening adds that as long as operation 1 has not been asked, nothing of the unit has happened; a decrement then either takes the
  unit out of the counted set, or the unit was out already and the size only gets smaller. The cardinality facts (insertion, removal, subset) are lemmas.
- **`SandboxLifecycleProofs!LockProtects`** - `Spec => LockedSandboxKept`, with all faults and every haste. A deletion that was allowed before the lock was taken fails on the lock's protected
  reference; what has to be proved is that nobody *inserts* over a locked sandbox. An operation that creates the unit does so before there is one to lock (`SandboxAtFirst`), and the finalizer
  of an allocation, which saves a sandbox that it carries since it was enqueued, brings back only what is gone; a locked one is not gone, as a locked unit has a sandbox (`LockHasSandbox`).
- **`SandboxLifecycleProofs!StagesInOrder`** - `Spec => []StagesRunInOrder`, for every haste, crashes and lost handlers included, assuming `"slow" \notin Faults`: nobody acts between two turns of the loop of
  `_enqueue_request`. Without that the property is false (section 5). First every action is reduced to what it does to one chain (`ChainStep`) and to the rows and running
  cancellations of one unit (`UnitStep`). The invariant `InOrder` then is: a job that has been handed to a worker depends on jobs that have succeeded (`JobsInOrder`), which
  a deleted job would break, because rq runs what waits for one; so a job that waits never depends on a deleted one. That a cancellation deletes the later jobs first needs
  that it has read them all (`LeftInOrder`), which needs that the rows of a chain are made and replaced together (`RowsTogether`), agree with the jobs (`RowsMatch`) and are
  untouched while the chain is enqueued (`RowsFresh`), by one operation at a time (`OneAtATime`). The dependencies are only the stages directly before; that all
  earlier ones have succeeded follows because these ran on top of theirs.
- **`SandboxLifecycleProofs!QuietIsSettled`** - `Spec => []QuietUnitIsSettled`, for every haste and any failures of stages, assuming that `Faults` has neither `"crash"` (rq calls no exception
  handler for a worker that dies, so nobody takes the waiting stages along) nor `"slow"` (a stage that fails before its `RQJob` row is saved is not found by the handler). The invariant `Settling`, on top of
  `InOrder` and `FirstCreates`, says: the rows of a request come and go together (`RowsComplete`), and a chain that is begun is completed (`ChainWhole`); while a stage is under way
  no stage of its chain is replaced (`RowsShared`); an unfinished stage has a job that waits, a worker, or somebody about to cancel it (`Attended`); a job
  waits only for one that can still succeed or whose failure is about to be handled (`Awaited`), and a failure is handled once (`HandledOnce`); a cancellation
  works through stages of one chain (`LeftAlike`). In a quiet unit an unfinished stage could then only wait for another that waits, one rank lower each time, and there are three ranks.
- **`SandboxLifecycleProofs!ReadyIsAllocated`** and **`NothingIsLeftBehind`** - `[]ReadyMeansAllocated` and `[]NothingLeftBehind`, for any number of units and operations,
  any failures and dying workers, assuming `Hasty = {}` (operators ask nothing of a busy unit, as in `LifecyclePatient`) and `"slow" \notin Faults`; `NothingIsLeftBehind` also assumes `"init" \notin Faults`. Section 5
  has a counterexample for each assumption. The invariant, on top of `InOrder` and `Protected`, is `Patient`. At most one
  operation of a unit is under way (`Alone`): what rests changes only when something is asked, and something is asked only of a quiet unit. So every step is that of the operation under way, and that one owns the rows
  of its stages (`OwnRows`) and knows what has become of the sandbox (`OwnSandbox`): it built it and it is not ready yet, or it has deleted it. A stage that a cancellation has still to fail is not done (`LeftWaits`), because
  it waits for the stage whose failure is being handled, or has been left unfinished by an operation at rest; without that a cancellation fails a stage whose sandbox is ready. A unit that has a sandbox and whose stack stage is done has a stack, and
  a unit that is gone has none (`SandboxTrue`); the finalizer of a cleanup runs only after the stage that removes the stack (`CloudGoes`).
- **`PoolProofs!PoolTyped`** - `PoolSpec => []PoolTypeOK`, for any counts, stale edits included: the size is never negative.
- **`PoolProofs!CapacityCorrect`** - `PoolSpec => []CapacityRespected`, provided counts are not negative (a
  negative one reduces the size and builds nothing). Invariant: unless a harmful edit has been made, `size` is at least the number of held
  units (live, or being cleaned up and not counted out), and at most `max`. A decrement and the unit's leaving the held set happen together; a recount
  counts a superset of the held units; a harmless edit keeps the size and does not lower the maximum. That an edit was harmful is never forgotten. Without that
  condition the property is false (`MaximumRespected` in section 5).
- **`PoolProofs!SizeCorrect`** - `PoolSpec => []SizeExact`, for counts that are not negative. Invariant: unless a stale size has been written, `size` is the
  number of held units, at any moment and not only at rest; a build adds as many units as it adds to the size.
- **`PoolProofs!AssignmentCorrect`** and **`AssignmentTyped`** - `Spec => []PickStaysFree` and `Spec => []TypeOK`, for any number of
  requests and sandboxes. Invariant: a request between its choice and its insert holds the row lock of
  what it has chosen, holds no row lock of a sandbox that is gone, and a trainee's query has found ready sandboxes only, which never become unready.
- **`PoolProofs!AssignmentNeverDeadlocks`** - `Spec => []NoCircularWait`. Invariant: who holds a row is still locking or about to
  insert, and what a request has still to lock comes after all that it holds. In a circle of requests the one that holds the greatest row would wait for a greater one.
- **`RequestGroupProofs`**: **`GroupTyped`**, **`FailuresAreMailed`** (`[]FailureMailed`), **`SummariesAreTrue`** (`[]SummaryTrue`), **`GroupIsThere`**
  (`[]GroupOutlivesUnits`), for any number of units and all faults. The counts are subject to lost updates, so no invariant can say what they are. It says what they cannot exceed:
  a count, and a count somebody has read and will write back, is the cardinality of *some* set of units that have reported so (`CountsHeld`). When the sum is the number
  of units, the two sets can only be everybody. For the alert: a worker that has read a failure count above zero was preceded by one that has not, whose alert was tried or is pending.
- **`NetbirdAccessProofs!AccessTyped`** and **`TeardownKeepsDeadline`** - `[]TypeOK` and `[]OverrunBounded`, for any number of entrypoints and routes, with all faults. Invariant of the second:
  the calls made since the budget ran out and those that may still be made before it is looked at (`Unchecked`) are at most two together.
- **`NetbirdAccessProofs!EverythingIsNamed`** and **`NothingIsLeft`** - `[]EverythingNamed` and `[]NothingLeft`, with all faults, assuming `NamesDiffer`: no two entries of the vpn block name the same node
  (section 5). Invariant of the first, as long as nobody tears down and the worker lives (`Tracked`): the object in the hands of the job is as it is saved (`InStep`), its policy comes after its routes are saved and
  its turn comes once (`InTurn`), so what exists is saved or just made (`NamedOrMade`). Invariant of the second, as long as nothing has gone wrong (`Clean`): one of the two actors works at a time
  (`OneAtATime`); the teardown holds the id of all that exists and deletes nothing out of the order in which it is referred to (`AllInSight`, `AccessLast`), so NetBird rejects no deletion;
  and no group whose deletion is next has a peer, because the key was deleted before the peers were listed (`PeersGoFirst`). It starts from the first invariant: when provisioning is over, everything is named.
- **`StackDirectoryProofs!StackTyped`** - `Spec => []TypeOK` with all faults. The types say that resources are recorded only in a workspace that exists, and that needs who
  holds terraform's lock: only the process that works in a workspace.
- **`StackDirectoryProofs!NothingMadeElsewhere`**, **`FailedBuildsLeaveNothing`**, **`ReadersAnswerTrue`** (`[]OwnWorkspace`, `[]FailedBuildLeavesNothing`, `[]ReadersTrue`) and
  **`StackKeepsPromise`** (`Spec => ImplementsPromise`, the refinement of `StackPromise`), assuming `Usual`: clouds fail, jobs time out wherever they are and the directory of a built stack is lost, none of the other six faults; the first of these is
  `"astray"`, a restart upon what an alarm in the deletion of the workspace has left.
  These are exactly the faults of the run `StackRaces`. One invariant, `Sound`, carries all four. Until a build is done or a cleanup is asked for, the build is alone with the directory,
  and what it has found it can rely on (`InHand`). After that jobs, readers and processes disturb each other, but whoever leaves the workspace, deletes it or removes the
  directory has found the stack empty, and it stays so because nobody applies any more (`Emptied`, `Clear`). A step of the refinement is a step of `StackPromise`
  only where the row, the result or the resources change; everywhere else it is a stutter, which is proved action by action.
- **`AnsibleRunProofs!RunsTyped`** and **`DoneStagesRan`** - `[]TypeOK` and `[]DoneMeansRan`, with all faults. Invariant: what each step of the preparation has found prepared,
  what was copied of the log while the container printed, and that the save comes after the last line.
- **`AnsibleRunProofs!ContainersAreRemoved`** and **`OnePlaybookAtATime`** - `[]NothingLeftRunning` and `[]OnePlaybook`, with all faults: the ways in which a container is missed are in the
  properties. Invariant: every earlier run is settled (its container is deleted, or has escaped, or was refused its removal, or there was none and the job is over), and so is the current one once its stage is finished or about to be.
- **`RevisionReadsProofs!ReadsTyped`**, **`CacheNeverLies`** and **`SandboxOfOneCommit`** - `[]TypeOK`, `[]CacheTrue` and `[]OneCommit`, for any number of commits, importers, previews and
  rebuilds, with all faults. Invariant: what is about to be stored was read under the key it is stored under; nothing is read for a pool or a sandbox before the
  pool's revision is decided; what has been read is of that revision.
- **`RevisionReadsProofs!WhatIsUsedWasValidated`** - `[]ValidatedIsUsed`, assuming `"absent" \notin Faults` (no failed read is taken for a missing file, as in `UnreadContainers`), for sandboxes asked for before the pool
  is open as well. Invariant: as long as something has not been read, its reading comes before its use in what is left to do. That what is used is what was validated then is `OneCommit`: both are of the pool's revision.
- **`RevisionReadsProofs!NoPoolLeftHalfMade`** - `[]RefusedIsGone`, with all faults. Invariant: the opening of the pool is the last thing to do as long as anything is, so a request that
  is done has opened it.
- **`SandboxViewsProofs!TraineesSeeWhatIsVisible`**, **`NetworksAreRouted`**, **`InventoriesAreComplete`**, **`AddressesAreInReach`** (`[]NothingHiddenShown`, `[]RoutedThroughGateway`,
  `[]InventoryComplete`, `[]AccessConfigured`) and **`DocumentTyped`** (`[]TypeOK` of `TopologyDefinition`), for documents of any size and pools of any elements of the right types. `NetworksAreRouted` and
  `InventoriesAreComplete` assume `ManReserved`: no element is called `man` and no network `man-network`, because the nodes and networks are kept in a dictionary by name and one of these would
  replace the management node or its network (`topology_instance.py:73`). `TraineesSeeWhatIsVisible` assumes `WanRecognised`: a network called `wan`, in whatever letters, is the WAN, as `lib/topology.py:160` takes it to be.
  No validator checks either. `AddressesAreInReach` assumes nothing. The invariant, `Inv`, says that each attribute that has been loaded has passed its validator *with the attributes it was checked against*, which no later
  assignment changes. The accepted document (`AcceptedDocument`) then has everything the validators promise, and the rest is about one document: that names identify hosts, routers and networks is read off a comparison of
  cardinalities (`NamesIdentify`), for which the document must be finite; that a node and a network are joined by one port of an address, off the check that no address is used twice (`AddressIsOneLink`); and the default groups keep
  their nodes because no accepted group has one of their names. That the inventory's first router in the alphabet, the template's gateway and the trainee's topology choose the same router follows because an accepted network has
  a single one.

## 7 What is only model-checked, and what is not modelled

Liveness under fairness is out of TLAPS' reach and stays with TLC: `RequestsSettle`, `Answered`, `JobAndRequestEnd`, `JobsEnd`, `RunEnds`. The action property
`ReadySandboxKept` is refuted, not proved (section 5). `PoolSizeExact` and `OneSandboxEach` are only model-checked too: the first is about sequential operations
(a hasty cleanup and a dying finalizer refute the sentence it comes from), the second about a trainee who waits for an answer. Every other invariant that a passing run checks is also proved, under the assumptions that section 6 names.
What holds of the functions over the constants (the topology's queries, the cardinalities) is proved from their definitions; nothing is proved of rq, NetBird, terraform or the cloud beyond what the modules say of them.

Not modelled, and why:

- *the OpenStack and AWS drivers*: calls of a cloud's API and templates. The structure of the OpenStack template (which ports and
  machines it makes) is in `TopologyInstance`, its text is not. Builds of two pools check the quota against live usage that neither has changed yet
  (`lib/pools.py:199`): the usage is the cloud's, and no state of the program bounds it;
- *quotas and hardware* (`cloud_client_elements.py`): sums and comparisons;
- *the variable generator*: random and without state. Its fallbacks (`username`, `0`, `0.0.0.0`) ignore what is prohibited,
  a minimum above the maximum raises, and the loop that makes a password need not end: unit tests reach these;
- *users and groups (UAG)*: tokens and a cache of groups that expires by time; what it caches is a service outside the repository;
- *the REST layer*: permissions, serialisation, pagination. The handlers that change state are actions of the modules;
- *console URLs* (`lib/nodes.py`): a cache with a job that fills it, read by nothing else;
- *configuration* (read once at start-up), SSH to the jump proxy, the text of inventories, templates and mails.

Merged into one step, at the loss of the states between: the files of a stack directory are written in one step (`CreateFiles`), the key pairs of a pool with its last save (`OpenPool`),
the queries for the locks of the sandboxes that one request has locked (`Choose`). Two units whose cleanups race can count one of them out twice (`lib/request_handlers.py:430`): the size
is then too small, which takes two units of three operations to show and stays with no run.

Left out of modelled parts: a host called `proxy-jump`, whose entry in the inventory would replace that of the jump proxy (`CreateHosts` is a union); `hidden` of a container mapping, which nothing reads; the alias of a container in the SSH configuration; mails and container errors of a cancellation (in `SandboxLifecycle`), the list of refs and the deletion of a definition,
dry runs and the local backend of terraform, stages of a cleanup that start no container.
`PoolLock` does not protect a pool from a build or a cleanup in the code, and so is only in `SandboxAssignment`.
