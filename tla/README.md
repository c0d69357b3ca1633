# KubePhos in TLA+

KubePhos provisions Kubernetes test clusters, deploys applications in them and
runs experiments. What it does to the outside world is done by plugins; around
them is a concurrent program: several worker processes share one PostgreSQL
database, hold leases in it, crash, stall and come back, while users queue,
cancel, retry, edit and delete through the API. This project models that
bookkeeping, the records it keeps of things outside of its database, and what
the plugins do to those things; it checks them with TLC on small instances and
proves the safety properties with TLAPS for all instances.

Contents: [inventory](#inventory),
[modules](#modules-and-how-they-correspond-to-the-code), [runs](#runs),
[bounds](#bounds), [fairness](#fairness), [refinement](#refinement),
[proofs](#proofs), [what the checks found](#what-the-checks-found),
[not modelled](#not-modelled), [plan](#plan).

## Inventory

| Component | State | Operations | Talks to |
|---|---|---|---|
| Operation queue (`storage/operations.go`) | `operations`: status, lease, cancel flag; `operation_steps`: status per step | queue, claim, renew, set step and status, complete, fail, cancel, fail expired | API, workers, coordinator |
| Worker (`engine/worker.go`) | per slot: the job, the step it is at, its contexts | walk a plan: precheck, reserve, execute, verify, persist, roll back; monitor; sweeper; shutdown | queue, plugins, ledger, artifacts |
| Pipeline planning (`engine/pipeline_scheduling.go`, `pipelineCleanupOrder`) | none | which stages may start; in which order stages are cleaned up | coordinator |
| Pipeline coordinator (`engine/pipelines.go`) | per process: a copy of the claimed run for one tick | sync, start, gate, drain, clean up, recheck, settle, release | run store, operation queue |
| Run store (`storage/pipelines.go`, `experiment_initialization.go`, `experiment_cleanup.go`) | `pipeline_runs`: status, lease, decided outcome, cancel and start flags; `pipeline_run_stages` | one statement or transaction per coordinator call; cancel, manual start, cleanup retry | coordinator, API |
| Admission (claim query, triggers and index of migrations 036, 044, 053, 054) | `pipeline_runs`, `managed_resources`, `experiment_trials` | claim; triggers on every change of status | coordinators and every transaction that inserts or restarts a run |
| Experiments (`storage/pipelines.go`, `experiments.go`) | experiment and trial status | create, sync, cancel, retry cleanup, delete | runs, configurations |
| Managed resources (`storage/operations.go`, `application_deployment*.go`, `api/clusters.go`) | per cluster or deployment: its run, recreation run, deletion run | create, retry, recreate, delete, dismiss | runs, dependencies |
| Plugins (`plugins/*/runtime`) | remote objects: namespaces, workloads, releases, machines, nodes, files, images | Validate, Precheck, Execute, Verify, Cleanup of every plan step | worker, clusters, Proxmox, registries |
| Ledger (`storage/managed_resources.go`) | one row per external machine: owner operation, ownership, state | reserve, release, complete, give back, clean up, discover | worker, provider |
| Settings edits (`cluster_settings.go`, `application_deployment_settings.go`, `k3s/node_settings.go`, `application-deployer/live_placement.go`) | settings with a version; labels, taints, annotations and agent arguments of nodes; control object and workloads | edit node settings; edit a placement; follow a placement during a deployment | clusters, deployments |
| Files (`experiment_deletion.go`, `artifact_deletions.go`, `transfer.go`) | rows of operations and artifacts, files in the object store, outbox of keys | write outputs, delete experiments, purge, remove files, import an archive | workers, API |
| Connectivity monitor (`engine/connectivity.go`, `storage/connectivity.go`) | last report, failure count, lease per resource | claim a check, probe, save a report | managed resources |

What is hard here, and what has to hold:

* **Operations.** A lease lapses while its worker lives; a process dies between
  two statements; a cancellation meets a rollback. One runner per operation, no
  step executed twice, success only after every step was verified and none
  rolled back, a final status revised only when the sweeper was wrong, every
  claimed operation settles.
* **Runs.** A tick of up to a dozen statements works on a copy of the run, and
  another coordinator may take the run over in the middle. Stages start in order
  and within the limit, a final status only when every branch has stopped and
  every cleanup was tried, cleanups in the right order, the decided outcome is
  the reported one, nothing past the manual gate without its request, every run
  ends.
* **Admission.** The claim query judges other rows by a snapshot and updates
  later. One running run per user, exclusive runs alone on their cluster, one
  run per namespace and none in a deployed application's, none during
  maintenance, trials in sequence, no installation beside a removal; and every
  eligible run is followed.
* **Plugin steps.** Remote commands have no transactions: a call fails half way,
  the worker dies between two commands, objects go away by themselves, and names
  are shared with others. A verified cleanup leaves nothing behind, no partial
  state makes a cleanup impossible, what belongs to others stays, a success means
  that everything is in place, a rejected input has no effect, its rollback included.
* **Records of the outside.** The database and the outside change one after the
  other. Stored settings are in force; every machine an operation made is covered
  by a ledger row, beside workers that outlive their lease; every stored file belongs to a row or is queued for removal,
  and every row can read its files; queued files are removed; verdicts and
  placements become right in the end.

The hazards, each at the line where it bites, with the properties that would
catch it, are listed in `PROJECT.json`.

## Modules and how they correspond to the code

`PROJECT.json` maps every definition to its lines. A definition has the name of
the function it models wherever there is one.

### Queue, runs, admission

**`Operations`**: rows of `operations` and `operation_steps` (`status`,
`lease_owner`, `lease_until`, `cancel_requested`, `step`), and per slot its
program counter, job, position and the state of its two contexts. Each SQL
statement is one action; a plugin call is two, so that a lease may lapse or the
process die in between. Time is abstract: `lease_until` is null, valid or
lapsed. `effect` records what a plugin has done outside of the database: nothing,
started with unknown outcome, applied, undone, left behind. Every write may fail
the way a canceled context makes it fail. **`OperationContract`** is its abstract
specification, see [refinement](#refinement).

**`PipelinePlan`**: the two pure functions of the coordinator over stage
positions, and the order relation `CleanedBefore` that the comment above
`pipelineCleanupOrder` describes.

**`PipelineRuns`** (extends `PipelinePlan`): one run, its stages, and all
coordinators that may work on it. `tick` is the copy a coordinator read with its
claim, `pc` the store call that comes next. The loops of a tick walk through the
set of stages `left`. Operations of stages and of cleanups run by themselves. They
settle once unless the sweeper fails one whose worker goes on (`OperationExpires`,
`CleanupExpires`): that worker may later have another last word, or report that it is
at work (`OperationRevives`, `CleanupRevives`), before, during or after the coordinator
acts on the verdict. `expired` and `cleanup_expired` remember whom this happened to,
`late` and `cleanup_late` whose worker has not reported since. `ran` holds the stages
whose operation has reached a mutating step, the ones `CleanupPlan` finds something to
clean up for. A crash, a shutdown or an error returned by a call ends the tick
(`Crash`, `Abandon`, and `CleanupBreaks` for whatever ends the walk over cleanups, a stage
whose cleanup cannot be skipped included); `LeaseLapses` lets another coordinator in while
the first still works. Which run a claim picks is left to `Admission`: here a claim of
this run may happen or not.

**`Admission`**: many runs, users, clusters and deployments. A claim is two
steps: `SelectCandidate` evaluates the query of `ClaimPipelineRun` and locks the
row, `ClaimPipelineRun` or `ClaimRefused` is the update as the triggers and the
index decide it. What happens inside of a run is one step here
(`CompletePipelineRun`, `FailPipelineRun`, `ReleasePipelineRun`), followed by the
deferred `SyncExperimentPipelineRun` as a step of its own, because a process may
die in between. `due` holds the runs whose `scheduled_for` has passed, in its
order, which the query's `ORDER BY ... LIMIT 1` depends on. The delete handlers
check outside of the transaction that follows: `RequestDeletion` is the former,
`CreateManagedResourceDeletion` the latter.

### Plugins

A plugin call is a straight run of checks of its input and of remote commands,
with early returns. **`PluginScripts`** is the vocabulary for it: an instruction
names the remote objects it is about, the states of them it accepts, how it turns
them, and what the call does when it is refused or fails (return the error, return
without one, go on, collect the error, skip). An object is absent, the step's own
(it carries its marker), somebody else's with another marker (`other`) or with none
(`unmarked`), an original that was there before, or a changed original. Ownership checks
differ in what they ask: some for the step's own marker (`NotForeign`), some only that
there is no other one (`NotOther`), as `strategy_controller.go:347`,
`secondary_scheduler.go:780` and `managed_platform.go:1182` do. Checks of the input are sets of named flaws. **`PluginSteps`**
gives the scripts their meaning: the worker takes a step through `validate`,
`precheck`, `execute`, `verify`, rollback and cleanup; a command that fails may
have done any part of its work (`Break`), the worker may die between two commands
(`Crash`), an object may go away (`Drift`), a free name may be taken (`Intrude`),
and a cleanup that failed is repeated (`RequestCleanup`). A rollback after a failed
verification has the result of the execution (`undo`), one after a failed execution
has none, like a later cleanup.

The plugins are written in this vocabulary, one module for each or for a family:
`StrategyController` (descheduler and autoscaler), `SecondaryScheduler`,
`NetworkInjection`, `MonAgentProfile`, `LoadSession` (start and transition),
`ManagedPlatform`, `ManagedServices` (NFS, Harbor, OCI executor, NFS CSI),
`ManagedObservability`, `ApplicationInspector`, `ApplicationDeployer` (its five
uses), `Materializers` (Redis, muBench, LocalAI), `ImagePublishing` (OCI build and
strategy image), `RemoteAccess` (NFS and Harbor browsers, SSH command, Proxmox
discovery, external load target, reference), `TargetBinding`, `ClusterBootstrap`
(K3s, its maintenance, Cilium mesh), `MachineProvisioning` (machine, template,
topology and its maintenance) and `MetricsCollector`. `NodePools` is the
arithmetic by which K3s lays machines out in pools, under Cilium with the name of the
cluster in place of a zone (`ciliumPoolLabels`, `nodePlacementLabel`); `MetricsCollector` has, besides
its script, the functions that turn sampled counters into changes, sums and merged
summaries.

### Records of the outside

**`NodeSettings`**: edits of a pool's labels and taints. The row is locked, the
nodes are read once and patched one by one, each patch conditional on the version
that was read, then the registration arguments of the agent are rewritten, then the
row is stored. An edit may fail anywhere; the annotation on the node tells the next
one what to take back. The operator may change nodes by hand (`ByHand`).

**`Placement`**: edits of the placement of a deployment. Here the row is stored
first, under a session lock that is held until the edit was applied (and may be lost
with its database session, `LoseLock`), then the control object is written and
workloads are patched. An edit whose request found the deployment failed is only stored
(`StoreSettings`, `api/application_deployment_settings.go:115`). The deployment itself
applies its manifests with the settings it read and follows the control object until it is
verified, or fails and is rolled back: the control object goes, then the namespace
(`FailDeployment`, `RemoveControl`, `ClearNamespace`, `FailRollback`). Its run may fail at any
time by another stage or member (`FailRun`). A setting is identified with the version that
stored it.

**`Ledger`**: operations of one workspace, machines at the provider and their rows.
Precheck, reservation, creation, completion, rollback, give-back, cleanup operation,
discovery; the provider and the database change in separate steps and the worker may
die between any two (`Crash`), or go on after the sweeper has failed its operation
(`ExpireLease`). From then on cleanup operations of it may be made, and several of them:
nothing in `api/operations.go:166` or `api/clusters.go:1036` keeps two cleanups of one
operation apart. The behaviour of the plugin towards machines is that of
`MachineProvisioning`, in short.

**`Outbox`**: a pipeline is saved when the artifacts it takes from elsewhere exist
(`CreatePipeline`), its stages start when those of its own stages do (`CreateOperation`);
operations write a file, then its row; deletions remove rows and queue directories in one
transaction and keep what the plan of a remaining operation or the definition of a
remaining pipeline names (`Inputs`, `External`); the deletion loop of every worker locks a batch,
removes directories and forgets or postpones their keys; an import registers its
directories before it writes them.

**`Connectivity`**: one resource with several targets and the monitors of all worker
processes. `lease` names the newest claim; `older` and `late` only remember the order
of claims for the property.

### Compositions for TLC

`MCOperations`, `MCPipelineRuns` and `MCAdmission` give constants their values.
`MCPluginSteps` composes `PluginSteps` with all plugin modules: the plugin of a
behaviour is chosen in the initial state. The five modules of records share no
state, so that two runs can hold them, with one that moves in a behaviour: `MCRecords`
extends `Ledger` and has instances of `NodeSettings` and `Placement`; `MCUpkeep`
extends `Outbox` and has instances of `Connectivity` and `Placement`, under fairness.
Their constants are declared there and get values in `Upkeep_records.cfg` and
`Upkeep_live.cfg`, so that the theorems are about the compositions as well.
`MCDecisions` grows the inputs of the pure decisions (pipelines, layouts, counter
histories) step by step.

### Proofs

`OperationsProofs`, `AdmissionProofs`, `PipelineRunsProofs` and `PipelinePlanProofs` hold
the theorems about the module they are named after, `RecordsProofs` and `UpkeepProofs`
those about the modules of records and their two compositions, `DecisionsProofs` those
about `MCDecisions`, `NodePools` and the counters of `MetricsCollector`.
`PluginRules` states what a plugin has to look after as rules about its scripts, and
`PluginStepsProofs` shows what the worker makes of a plugin that keeps them.

## Runs

| Run | Question | States |
|---|---|---|
| `operations_slots` | One three-step provisioning operation, two slots, stalls, cancellation, shutdown, crashes and lost writes anywhere: all safety properties, the contract, and `ClaimedSettles` | 28 k |
| `operations_kinds` | A cleanup operation with warnings to confirm and a discovery operation, on one slot: an active row always has a lease | 571 k |
| `decisions` | Every pipeline of up to four stages and every row state; every cleanup order of up to seven stages; every layout of up to three pools and seven machines, with zones or in a group of clusters; every history of two counters with three events, three scrapes and a restart | 703 k |
| `pipelines_parallel` | Three stages, of which two may run at once, with cleanup, one retry, one crash, a missing result, and a verdict of the sweeper that a worker revises | 4.25 M |
| `pipelines_faults` | A manual gate, two coordinators, one of which wakes up with a stale copy, cleanups that cannot be loaded, a revised verdict | 3.36 M |
| `pipelines_live` | Every run that coordinators come to ends, or waits for its manual start, and termination completes; one crash, one retry, a revised verdict, pipelines and operations that cannot be loaded | 126 k |
| `admission` | Two coordinators; two trials of one user, two deployments, a retry and a removal of another, a recreation: all isolation properties | 344 k |
| `plugins` | The steps of 48 plugin uses, each with every flaw of its input and two troubles anywhere | 57 k |
| `upkeep_records` | Node settings, ledger and placement, with failures at every call and workers that outlive their lease | 5.46 M |
| `upkeep_live` | Files, connectivity and a placement with its follower, under fairness | 76 k |
| `admission_blocked` | *Violation*: deleting a cluster with an active run stops every claim | |
| `plugins_maintenance` | *Violation*: the rollback of a failed maintenance removes what was there before it | |

Deadlock checking is off everywhere: when every operation, run or step has settled
and every request has been made, the system has nothing to do.

What the larger properties say:

* `OutcomeIsSound`: stages started in order and behind their gate, all operations of a
  final run have stopped, all succeeded in a run that succeeded. `RowsTellTheTruth` adds
  that rows agree with operations and that every cleanup was tried. An operation counts
  as stopped when its status is final or the sweeper has declared it failed
  (`OperationOver`, `CleanupOver`): the coordinator drains, starts cleanups and ends the
  run on that word, while the worker, or its rollback of up to ten minutes, may still be
  at work and may revise the status later. The properties say exactly how far that
  reaches: only a stage whose own lease ran out can be at work in a run that is over, or
  have a row that says failed of an operation that has succeeded, been canceled or gone on
  since; a success is never taken back, no stage starts on a verdict that is revised, and
  no other stage's row or cleanup is affected. `RowsTellTheTruth` is
  checked without stalls: with one, a coordinator that lost its lease may write an older
  status over a newer one (`SyncPipelineRunStage` is guarded by the operation id alone).
  `pipelines_faults` shows that this is harmless for the outcome. `OutcomeIsSound` is
  checked without failures of `GetPipeline` (see below), `RunSettles` with them.
* `RunSettles` says of a run that coordinators keep coming to (`Attended`) that it comes to
  rest again and again: final, waiting for its manual start, or with a stage that could
  not be started. Whether they come depends on the other runs, since a claim takes the
  first of all candidates and a trigger may refuse that one for ever, which
  `admission_blocked` shows.
* `LayoutPassesItsChecks` speaks of every configuration with zones that `Validate` and
  `Precheck` accept, and of Cilium configurations with the name of the cluster as their
  only zone, which is what `createMultiCluster` makes of a member. What `Validate` lets
  pass beyond that is described below.
* `LifecyclesApart`: no installation, retry and removal of one deployment side by
  side, and while a cluster is being recreated, or after that failed, none of its runs is
  queued or running.
* `CleanedIsClean`, `CleanupIsNeverStuck`, `ForeignKept` and `FlawedHasNoEffect` exempt the
  plugins that `MCKnown` names, with the reason of each; what they do is described below.
  All other plugins satisfy them, and those plugins satisfy the other properties.
* `ForeignKept` has two parts: nothing with somebody else's marker is touched and nothing
  that was there before is removed (`Known.foreign`), and nothing without a marker is
  touched (`Known.unmarked`).
* `FlawedHasNoEffect`: with an input that some check rejects no command makes or changes
  anything, and until the step has come to rest, rollback included, none removes anything
  (but for `Known.removing`, the case of `plugins_maintenance`). A cleanup that is asked for
  later does remove what it takes for the step's.
* `LedgerCoversMachines`: a machine that an operation made is always in the ledger as
  managed. Its identity is not offered again while the machine exists, unless a cleanup
  has got into the work of another operation (`SetManagedResourceState` asks for the
  workspace and not for the operation) or of one whose worker has outlived its lease: that
  worker may create a machine after the cleanup was verified and recorded.
* `PlacementFollowsTheRow` speaks of an edit that was answered with success, with no
  deployment active or rolled back and no database session lost since it was stored, and
  whose request did not find the deployment failed.
* `NewestVerdictStands` is an action property (no report replaces that of a newer
  check); `VerdictSettles` joins the two liveness statements about checks.

## Bounds

* `NumSteps = 3`: a first, an inner and a last step. Two slots are enough for
  two to compete; the theorems cover any number.
* `MaxStages = 4`, `MaxParallel = 3`: a limit below, at and above the number of
  branches; `MaxOrdered = 7` has room for two applications, network stages around
  them and stages on top. Three pools of one or two machines each with one or three
  control planes put a pool boundary at every position of `MaxMachines = 7`.
  `MaxSamples = 3` is the least with a first, an inner and a last sample, and
  `MaxRestarts = 1` puts a restart before, between and after them.
* A chain of two stages (`pipelines_faults`, `_live`), or three stages, two of them
  dependent, with a limit of two (`_parallel`). `MaxRetries = 1`, `MaxInterrupts = 1`,
  `MaxStalls = 1` and `MaxExpiries = 1`: every hazard listed needs one retry, crash, stall or
  verdict of the sweeper on a worker that goes on; the retry, the crash and the verdict, or
  the stall, the verdict and the second coordinator, may fall anywhere.
* `Admission`: each run id is created at most once, which bounds every behaviour.
  The instance has one cluster, two users, two namespaces, two trials of which
  the first is exclusive, an installation, its retry and its removal, a second
  deployment that shares the cluster, and one recreation. Coordinators are
  symmetric. `due` orders all runs by `next_check_at`, those that are over too; the
  `VIEW` of the run leaves out the ones that can never be a candidate again, which no
  step looks at.
* `MaxTroubles = 2` failures per plugin step: one in the execution and one in the
  rollback or cleanup that follows, or one command that fails twice. Objects of one kind
  that a plugin handles in a loop are one object or, where their number matters, two.
* `NodeSettings`: two nodes, so that an edit can stop between them, one key, since keys
  do not influence each other, two requests. `Ledger`: two identities, one of which
  three operations and others share, two cleanups of one operation and one of another, one
  fault. `Outbox`: two experiments that share a
  run, three operations that read each other's artifacts in a chain, two loops, a batch
  of two, an import, two faults. `Connectivity`: two monitors, two targets, two faults.
  `Placement`: two workloads, two stored edits, two requests (one under fairness), one
  fault.

## Fairness

* `Operations`: every slot keeps working (its calls return: a plugin process and
  a rollback have deadlines), an unattended lease lapses, the sweeper keeps sweeping
  (`expireLeases` calls it every five seconds). No fairness for users, stalls, shutdowns or
  crashes.
* `PipelineRuns`: a coordinator in a tick goes on, and operations settle, which is what
  `ClaimedSettles` shows of `Operations`. There is no fairness of the claim: that
  coordinators keep coming to the run is the antecedent `Attended` of `RunSettles`.
* `Admission`: a coordinator keeps looping and its calls return, `scheduled_for`
  comes, leases lapse. Nobody has to cancel, retry or delete.
* `Outbox`: the deletion loop of a worker runs for ever (`Worker.Run`), `retry_after`
  passes, an import has a deadline. `Connectivity`: the monitor sweeps every thirty
  seconds and every probe has a deadline, `connectivity_next_check_at` passes.
  `Placement`: the follower ticks every two seconds while the deployment is active, an
  edit has sixty seconds, manifests are applied. Failures have none; they are bounded by
  `MaxFaults`.

All fairness is weak: nothing in the code makes a step happen that is enabled only
from time to time.

## Refinement

`OperationContract` states what the coordinator, the API and the user may rely on when
they look at the row of an operation: it leaves the queue once, has one runner at most,
begins every step once and in order, succeeds only after all of them, and keeps its
final status; a runner that is not heard of is presumed to have failed, and only this
verdict can be taken back, by the runner itself. `HonoursContract` of `Operations` is
its specification under the mapping that takes a row for finished when its status is
final, for taken when it has left `ready` and `queued`, an operation for running when a
slot has it as its job, and a step for begun when its effect is not `none` (`Taken`,
`Runner`, `Begun`, `Outcome`). TLC checks on the instance, and `ContractHonoured` proves
for every one, that every step of `Operations` is a step of the contract or leaves it
unchanged.
`PipelineRuns` uses the contract in the form of its actions: `OperationRuns`,
`OperationSettles`, and `OperationExpires` and `OperationRevives` for the contract's `Presume`
and `Resume`.

## Proofs

Every safety property of the runs that hold is also a theorem, for every value of the
constants that satisfies the assumption of its module: `ConstantsAssumption`,
`AdmissionAssumption`, `PipelineAssumption`, `BoundsAssumption` and `ScriptsAssumption`,
and the `ConstantsOK` of the five modules of records, which is a hypothesis of the theorems
about one of them and which `MCRecords` and `MCUpkeep` assume of their instances
(`InstancesOK`). They say that the placeholders are not members of the sets, that plans
have a step and pipelines a stage, that stages depend on earlier ones, which kinds of
runs name which resources, what a script is made of, and that bounds are numbers. TLC
evaluates all of them. None limits the number of actors, faults or retries. Where a
theorem needs more, the hypothesis is part of its statement and explained below. The
properties of state machines follow from an inductive invariant that TLC checked first on
the instances of the runs, as far as it can be evaluated.

What a loop or a recursive function computes is an induction over data, for which the
library's theorems cannot be used here. Those facts are proved by the first wrong step
instead: of the steps after which a loop would be wrong there were a least one
(`LeastOf`, `Upwards`), the loop was right before it, and so it is right after it. That a
recursive function has a value at all is shown in the same way (`LoopRuns`, `LoopOf`).

**`OperationsProofs`.** `TypeCorrectness`, `SingleRunnerAlways`, `AtMostOnce`,
`VerifiedSuccess`, `SweepableAlways`, and the action properties `OnlyExpiryRevised` and
`RolledBackFirst`. None of the properties is inductive by itself. A claim takes only a
queued row, so two runners are impossible if whatever is being processed is never queued
again: `Runs` says that its status is active, or failed by the sweeper. That a
step is not executed twice needs to know where each slot is: `Progress` says that
the steps before its position are done and those behind it untouched, and `Fresh`
that nothing was done for an unclaimed operation. `IndInv` is their conjunction
with `Busy` (a slot has a job exactly when it is not idle), the type invariant and
the properties. `Trail` adds what a slot that is about to report has left behind, from
which `RolledBackFirst` follows. For `ContractHonoured`, a step of a slot is quiet, begins
a step of the plan or lets go of the job (`WorkKinds`), and each kind, each request and
the sweeper is shown to be a step of the contract or a stutter.

**`AdmissionProofs`.** `OneRunPerUserAlways` and `ClusterIsolationAlways` need nothing of
the candidate query, whose snapshot may be out of date. `StepsAreGuarded` shows of every
action of `Next` that it brings a run to running only if the triggers accept that run in
the state the step starts from, and then changes no other run. `AdmissionTypes` rests on
`Picks`: a row that a claim has locked stays one that can be claimed. `NamespaceKeptAlways`,
`TrialsInOrderAlways` and `LifecyclesApartAlways` follow from `Admitted`, in which
`RowInv` says of every row of a resource which runs it points to and in which states
these can be, `Order` what the failure of a trial has done to the later ones before it
can be seen, and `DirtyFailed` that only failed runs are started again. `StatusMoves`,
how a run may change its status at all, is what the cases have in common.

**`PipelineRunsProofs`.** A tick works on copies of rows that others change meanwhile.
The invariant has two halves. What a copy says of operations that have started or ended
is true whoever owns the run (`Local`, stable by
`LocalStable`). It is said of the operations as the run has to take them (`Verdict`): one
whose lease ran out has failed, also when its worker reports that it goes on. So taken,
operations only advance, except that a failure declared by the sweeper may turn into
another final status once, and nothing that a tick has concluded depends on which; there is one clause per label of the tick for what has been established on
the way there. What a tick must know to act for the run, that it has seen every operation
and the decided outcome, holds for the coordinator that the lease names (`Own`), since a
claim is followed by a fresh copy. Every action of a tick is shown to land where its copy
is right (`Lands`). From this: `CopiesAreRight`, `PipelineTypes` (which bounds the number
of cleanups of a stage), `StartsAreSound` whichever calls fail, and `OutcomeAlwaysSound` and
`DecidedAlwaysStands` under the hypothesis that `GetPipeline` does not fail: when it does,
the code fails the run on the spot without stopping its operations, and whatever was
decided (`pipelines.go:59`), so both are false then.

`CleanupsStartInOrder` needs to know what the rows and the copies say of cleanups
(`CleanInv`, `CleanupsAreKnown`): an attempt that a row names is one that was made for that
stage, a copy is never ahead of it, and a stage that a copy takes for done is done, in the
same reading of operations (`CleanupVerdict`). It
holds with stalls, failing calls and verdicts that are revised. `RowsAlwaysTellTheTruth` is about runs in
which no tick outlives its lease (`MaxStalls = 0`) and only operations and results can fail
to load (`Failures \subseteq {"operation", "result"}`). Both hypotheses are those of the
code and not of the proof: a tick that lost its lease writes an older status over a newer
one, and a cleanup that cannot be loaded ends the run with earlier stages uncleaned
(`pipelines.go:80`); `pipelines_faults` has both and does not check the property.
Under them `TruthInv` says that only the coordinator that the lease names is at work
(`Alone`), that the cleanup of a stage begins only once its operation has ended, or was never
started by a run whose outcome is decided (`CleanupsLate`), and, step by step of a tick, what
the tick knows of the rows when it gets there (`Truthful`). A row is compared with what it
may say of an operation (`Words`): its status, or that it failed once its lease ran out.

**`PipelinePlanProofs`.** `CleanupOrderIsRight`: `pipelineCleanupOrder` visits every stage
once and follows the rule of its comment, for pipelines of any length. The rule
`CleanedBefore` is shown to be a strict order first, then each of the loops to list what it
goes through (`LastFirstLists`, `ListsAppend`), then the insertion of the network stages to
keep the order (`InsertionFollowsRule`). `ReadyFitsTheLimit`, `ReadyWastesNothing` and
`ReadySkipsNothing` say of `readyPipelineStages` that it never exceeds the limit, leaves a
stage out only when the limit is reached, and keeps a sequential pipeline in order.

**`DecisionsProofs`.** `PlanAlwaysFollowsItsRules` applies these to every state of
`MCDecisions`. `LayoutsPass` is about `NodePools`: the machines of a configuration that k3s
accepts, with zones or as the member of a group of clusters, are laid out so that the checks
of the running cluster pass. Its core is that pools
do not overlap (`BeforeOrdered`, `PoolOfMember`, `WorkerHasPool`), from which names differ and each
pool has its number of nodes in its zones. `CountersNeverLie` is about the
reconstruction of events from samples. Its invariant `Honest` has three cases for every
source: no sample counts yet; or the process still works since the last sample that
counts, and what it did since is neither reported nor forgotten; or it has restarted
since, and shows only what is not reported yet (`Behind`, `CounterBehind`). A restart
leads from the second to the third, a complete scrape back, whether or not the restart
shows. `Complete` is the equation that holds while nothing restarts.

**`RecordsProofs`.** *Ledger:* `LedgerCoversAlways`. `Owned` and `Covered` follow the row of
an identity: it passes to another operation only when it is on offer, and is put on offer
only by its owner when the machine is gone, or by a cleanup that names the same identity and
is that of another operation or of one whose lease has lapsed (`Disturbed`). `Staged` relates
the place of the worker in an operation to its rows and to what it has created, `Cleaned` that
of a cleanup to its target.
*Node settings:* `StoredIsInForceAlways`. An edit tells its own entries from those of an
operator by the annotation of the node or by the row, so `Traced` says that every entry
with a value of the settings is the one this record gives, also after an edit that failed
half way, and `Progress` what the edit under way has done on the nodes before the current
one. *Placement:* `PlacementFollowsAlways`. Whoever is at work has the session lock or has
lost it (`LockHeld`); an edit that started with no stray one about and no deployment or
rollback at work is alone until it ends (`Undisturbed`). `RecordsKept` puts the three invariants side by side, and
`RecordsCoverMachines`, `StoredSettingsAreInForce` and `StoredPlacementIsInForce` are the
properties of the run.

**`UpkeepProofs`.** *Outbox:* `FilesFollowAlways`. A key is queued only when its operation has
gone or its import has no rows (`OpSound`, `ImportSound`); what an operation was made from and
what a pipeline names stays (`InputsKept`); a loop holds only keys that are
due, no two the same, and what it has removed stays removed until it is forgotten
(`BatchSound`). *Connectivity:* `NewestVerdictAlways`. The lease in the row is never that of
a claim which a newer verdict has overtaken (`Overtaken`). `UpkeepFilesFollow` and
`UpkeepNewestVerdict` are the properties of the run.

The types of the five modules of records are proved (`NodeSettingsTypes`, `LedgerTypes`,
`OutboxTypes`, `PlacementTypes`, `ConnectivityTypes`) and no run repeats them.

**`PluginStepsProofs`.** A property of a step is one of its plugin's scripts. `PluginRules`
says which scripts have it, by looking at the commands of a call and their order and at no
behaviour; the theorems say that the worker, with any number of failing commands, crashes,
rollbacks and repeated cleanups and with objects that go away or appear by themselves, gives
a plugin that keeps a rule the property. `RulesAssumption` of `MCPluginSteps` has TLC
evaluate the rules on the scripts of the repository; the two together cover any number of
troubles, where the run has two.

| Rule | Property | Theorem | Kept by |
|---|---|---|---|
| `PutsInPlace`: a command without which `Execute` or `Verify` cannot end well leaves each promised object in place, and none after it undoes that | `VerifiedIsInPlace` | `VerifiedAlwaysInPlace` | all 48 |
| `RefusesFlaws`: a call that meets a flaw refuses it before it makes anything; `LeavesInPlace`: until the step has come to rest it refuses it before it does anything at all | `FlawedHasNoEffect` | `FlawedNeverHasEffect` | all 48, the second all but `MCKnown.removing` |
| `CleansUp`: the same as the first for what `Cleanup` takes back | `CleanedIsClean` | `CleanedAlwaysClean` | all but `MCKnown.unclean` and the five of `MCRelated` |
| `RespectsOthers`: a command that could hurt something with somebody else's marker is behind one that looks; `RespectsUnmarked`: the same for something without a marker | `ForeignKept` | `ForeignAlwaysSpared`, `ForeignAlwaysKept` | all but `MCKnown.foreign` and the six of `MCMarked`; all but `MCKnown.unmarked` |
| `Unobstructed`: an outline of the states in which each cleaning call may find an object is consistent, and no command refuses one of them | `CleanupIsNeverStuck` | `CleanupNeverStuck` | all but `MCKnown.stuck` and the three of `MCDependent` |

The plugins of `MCKnown` do not have the property (see below). Those of `MCRelated`,
`MCMarked` and `MCDependent` have it in the run, for a reason that no rule about single
objects expresses: they take the marker of one object for what is true of others. For these
the property is model-checked with two troubles and not proved.

Only model-checked:

* all liveness properties (`ClaimedSettles`, `RunSettles`, `QueueDrains`,
  `VerdictSettles`, `FollowerCatchesUp`): liveness under fairness is out of
  the reach of the prover;
* the three plugin properties with exceptions, for the plugins named in the last paragraph;
* the two violations, which are counterexamples.

## What the checks found

With a run that shows it:

1. *A refused run stops all others* (`admission_blocked`): deleting a cluster that
   still has a queued or running run makes every claim pick that run and be
   refused.
2. *The rollback of a maintenance destroys the cluster* (`plugins_maintenance`): the
   plugins of a maintenance answer the worker's rollback with the cleanup of an
   installation, which uninstalls every node (`k3s.go` `Cleanup`); likewise the topology.

Seen in the models, without a run of their own. In the worker and the coordinator:

* A canceled operation is declared failed while its rollback runs: the monitor ends with
  the cancellation, the lease is renewed no more (`worker.go:634`), although
  `docs/architecture.md:80` says that branches are stopped before a final status. The same
  goes for a worker that cannot renew its lease, which is only logged (`worker.go:623`): its
  run may clean up and end beside it, and the stage row keeps the failure when the operation
  later succeeds (`OperationOver`, `RowsTellTheTruth`). Such a worker may also make a machine
  after the cleanup of its operation has put the identity on offer (`LedgerCoversMachines`).
* A cleanup that cannot be loaded or planned ends the run and leaves the earlier stages
  uncleaned (`pipelines.go:80`); the retry reports a conflict, because nothing is marked
  failed.
* A crash between the two statements that record a stage that could not be started
  leaves a run that only a cancellation ends (`pipelines.go:316`; `StartFailed` in
  `RunSettles`).
* A single failure of `GetPipeline` makes a run final while its operations run
  (`pipelines.go:59`).
* A crash between the end of a run and the sync of its trial leaves the trial open and the
  later trials unclaimable (`pipelines.go:45`).
* The deletion of a cluster does not exclude a recreation that commits after the
  handler's checks (`operations.go:374`); `LifecyclesApart` leaves clusters that are being
  deleted out.

In plugins (the exemptions of `MCKnown`):

* Harbor, the OCI executor and NFS CSI write their ownership marker after the resource: a
  failure in between leaves something that the cleanup refuses for ever.
* The descheduler, both schedulers and the managed platform take an object without an
  ownership annotation for their own: their checks refuse only the annotation of another
  step, and their cleanup deletes what passes (`strategy_controller.go:347` and `402`,
  `secondary_scheduler.go:780` and `568`, `managed_platform.go:1182`). Nothing in the
  documentation of the repository says otherwise, so this is an exemption and not a finding.
* The maintenance of K3s refuses a wrong previous topology in `Execute` only, when the answer
  is a rollback that uninstalls (`MCKnown.removing`, finding 2).
* `Validate` of K3s does not tie the zones of a Cilium configuration to the name of the
  cluster, which is what is read back as the zone of its nodes: a handwritten configuration,
  or a maintenance that adds a pool with another zone, is accepted and refused by
  `validateInventoryPools` after the nodes were installed. A member of a group of clusters
  without application pools gets the default pool in `zone-a` (`api/clusters.go:149`) after
  its zones were set, with the same result.
* NFS CSI and managed observability take a failed query for absence, so that an outage
  lets them take over, or report as removed, what is there.
* K3s has no marker: a precheck that refuses a machine with a foreign K3s is followed, on
  request, by a cleanup that uninstalls it.
* The cleanup of a strategy image removes nothing from the registry although it is reported
  as removed; the cleanup of an OCI build is verified like a build and never succeeds.
* A load transition keeps the replica count an earlier transition noted, and its cleanup
  returns to that; the cleanup fails when the deployment has gone.
* Kept on purpose or by omission, listed as `keeps` of the plugin: host names and packages
  of NFS and Harbor machines, several objects of the Cilium mesh, a template image in the
  staging storage, the placement control object of a deployment in somebody else's
  namespace.

In records of the outside:

* After an edit of node settings, a failed edit back and a repeated save, a node may carry
  the right labels while its agent registers with others, although `node_settings.go:183`
  says that a retry can safely finish; `StoredIsInForce` speaks of the entries an edit
  changes.
* A follower that read the control object before an edit may patch workloads back after
  it, and be stopped before its next tick; `PlacementFollowsTheRow` leaves active
  deployments out, `FollowerCatchesUp` shows what holds while one stays active.
* An edit of a failed deployment is stored and answered like any other, and applied nowhere
  (`api/application_deployment_settings.go:115`), although members of a group of clusters may
  have been deployed and stay so until the retry (`docs/experiments.md:191`).
* A discovery that records an old listing brings rows of removed machines back as running,
  or imports a machine that has gone; an imported row can never be authorized for cleanup.
* An output that a stalled worker writes after its operation was deleted is a file that
  nobody removes; `Outbox` models workers that hold their lease.

## Not modelled

* In `Operations`: the contents of plans, artifacts and logs; a stall of the database
  itself.
* In `PipelineRuns`: the resolution of stage inputs and hashes (a stage start may
  fail for any reason); a run whose gate names no stage; the two reads of
  `GetPipelineRun` are one; a changed pipeline hash is treated like a pipeline that
  cannot be loaded, which the code handles the same way.
* In `Admission`: creation of clusters, services and configurations; the cancel
  flag of a running run, which only leads to `FailPipelineRun`, possible anyway
  (`failed` stands for the canceled outcome too, no query tells them apart); coordinators that outlive their lease, the subject of
  `PipelineRuns`; the manual gate (`initializing` and `initialized` count as
  running, as in every test of them here). The reads of the delete handlers and the
  reset of a failed deletion are one step. Locks are held for one step, except the
  row lock between the two halves of a claim; waiting and lock-order deadlocks,
  which PostgreSQL ends with an error, are not represented.
* In the plugins: the texts of manifests and values, wire formats, retries inside of one
  command, and timing (a wait either ends well or fails). Two steps of two operations on
  the same objects at once are represented by drift and intruders only.
* In `Ledger`: rows that a maintenance updates (`UpdateManagedResource`), several
  workspaces. In `Placement`: Jobs and restarts of pending pods of stateful sets, several
  member clusters, and the retry of a failed deployment, which is another run with a control
  object of its own. In `Outbox`: references by figures and catalogs are the constant
  `Pinned`, empty in the run; that a pipeline's artifacts exist is checked
  (`api/pipelines.go:103`) before the statement that saves it, and both are one step here, so
  that a deletion in between is not represented. In `Connectivity`: what a probe asks of its
  target. In `MetricsCollector`: counters that are not fresh, for which `counterChanges` tests
  the index of the point and not whether an earlier one was valid; no caller asks for them
  (`control_metrics.go:167`).
* Namespaces that a plugin only puts its objects in, like the control namespace of a strategy
  (`strategy_controller.go:225`), are not among the objects that go away by themselves.
* Not modelled at all: workflow validation and token resolution (sequential, stateless),
  the plugin registry and process runtime (to the worker a plugin is a call that succeeds,
  fails or is interrupted), capacity planning of new machines (one advisory lock around a
  computation), identity, access and sharing, credentials, catalog and comparisons
  (single-statement CRUD), the HTTP layer, the command line, the web interface, and the
  programs that are installed in the clusters. `PROJECT.json` lists each with the reason.

## Plan

The plan is done as far as it was meant to go: the core of the program is modelled and
checked, and its safety properties are proved. What could follow: relations between objects
in the rules of plugins, to prove the ones that go by the marker of another object;
capacity planning and workflow validation as further decisions; and the three hazards on the
list without a property: the lock order of PostgreSQL transactions, the deletion between
the check of a pipeline's artifacts and its insert, and the trial that stays open after a
crash, of which no liveness property holds.
