---------------------------- MODULE PipelineRuns ----------------------------
(***************************************************************************)
(* One pipeline run and the coordinators that reconcile it.  A coordinator *)
(* is the runPipelineCoordinator goroutine of a worker process: it claims  *)
(* the run for fifteen seconds, reads the run and its stage rows once, and *)
(* works through one tick on that copy, one store call at a time.  The     *)
(* variable tick holds the copy and the locals of the tick, pc the store   *)
(* call that comes next.  Every store call is one action.  Operations of   *)
(* the stages and of their cleanups run on their own, as module            *)
(* OperationContract says: an operation whose lease runs out is failed     *)
(* although its worker may go on, and that worker revises the verdict.     *)
(***************************************************************************)
EXTENDS PipelinePlan

CONSTANTS
    Coordinators, NoCoordinator,
    Kind,               \* per stage: the kind of its plugin
    DependsOn,          \* per stage: the stages it depends on or binds
    MaxParallelStages,
    CleanupAfterRun,
    HasResult,          \* the pipeline has a result artifact contract
    Gate,               \* position of pause_before_stage, 0 for none
    Mutating,           \* stages with a step that changes something
    Failures,           \* the calls that may fail, out of FailureKinds
    MaxRetries,         \* bound on RetryExperimentCleanup
    MaxInterrupts,      \* bound on crashes, shutdowns and returned errors
    MaxStalls,          \* bound on leases that lapse in the middle of a tick
    MaxExpiries         \* bound on operations that are failed while their worker goes on

Stages == DOMAIN Kind

(* Calls whose failure does more than end the tick: GetPipeline, the       *)
(* GetOperation of the sync loop, loading the result artifact, and loading *)
(* or planning a cleanup.                                                  *)
FailureKinds == {"pipeline", "operation", "result", "cleanup"}

ASSUME PipelineAssumption ==
    /\ NoCoordinator \notin Coordinators
    /\ Kind \in Seq(Kinds) /\ Kind # <<>>
    /\ DependsOn \in [Stages -> SUBSET Stages]
    /\ \A i \in Stages : \A j \in DependsOn[i] : j < i
    /\ MaxParallelStages \in 0..4
    /\ Gate \in Stages \union {0}
    /\ Mutating \subseteq Stages
    /\ {CleanupAfterRun, HasResult} \subseteq BOOLEAN
    /\ Failures \subseteq FailureKinds
    /\ {MaxRetries, MaxInterrupts, MaxStalls, MaxExpiries} \subseteq Nat

VARIABLES
    status, terminal_status, cancel_requested, execution_requested,
    initialized,          \* initialized_at is set
    lease_owner,
    lease_until,          \* "null", "valid" (in the future) or "lapsed"
    stage,                \* pipeline_run_stages.status
    cleanup_status,
    cleanup_operation,    \* cleanup_operation_id: an attempt number, 0 for NULL
    operation,            \* status of each stage's operation, "none" before
    ran,                  \* stages whose operation has a changing step on record as reached
    cleanup_op,           \* status of each stage's latest cleanup operation
    attempts,             \* cleanup operations created per stage
    expired,              \* stages whose operation the sweeper has failed while its worker went on
    late,                 \* those of them whose worker has not been heard of since
    cleanup_expired,      \* the same for cleanups, as pairs of a stage and an attempt
    cleanup_late,         \* and for the latest attempts
    pc, tick,
    retries, interrupts, stalls, expiries

run == <<status, terminal_status, cancel_requested, execution_requested, initialized>>
lease == <<lease_owner, lease_until>>
rows == <<stage, cleanup_status, cleanup_operation>>
swept == <<expired, late, cleanup_expired, cleanup_late>>
ops == <<operation, ran, cleanup_op, attempts, swept>>
bounds == <<retries, interrupts, stalls, expiries>>
vars == <<run, lease, rows, ops, pc, tick, bounds>>

CleanupComplete == Terminal \union {"skipped"}

Started == {i \in Stages : operation[i] # "none"}

(* The locals of a tick: the copy of the run (t.terminal .. t.attempt) and *)
(* of its stage rows, the stages a loop has still to visit, the operation  *)
(* status just read, whether every operation was seen stopped, what the    *)
(* tick does when the loop ends, the stage and status it terminates with,  *)
(* and the cleanups a recheck recovered.                                   *)
NoTick == [terminal |-> "", cancel |-> FALSE, execution |-> FALSE, initialized |-> FALSE,
           stage |-> [i \in Stages |-> "pending"], started |-> {},
           cleanup |-> [i \in Stages |-> "pending"], attempt |-> [i \in Stages |-> 0],
           left |-> {}, seen |-> "none", stopped |-> TRUE, then |-> "",
           position |-> 0, outcome |-> "failed", recovered |-> {}]

Init ==
    /\ status = "queued" /\ terminal_status = ""
    /\ cancel_requested = FALSE /\ execution_requested = FALSE /\ initialized = FALSE
    /\ lease_owner = NoCoordinator /\ lease_until = "null"
    /\ stage = [i \in Stages |-> "pending"]
    /\ cleanup_status = [i \in Stages |-> "pending"]
    /\ cleanup_operation = [i \in Stages |-> 0]
    /\ operation = [i \in Stages |-> "none"]
    /\ ran = {}
    /\ cleanup_op = [i \in Stages |-> "none"]
    /\ attempts = [i \in Stages |-> 0]
    /\ expired = {} /\ late = {} /\ cleanup_expired = {} /\ cleanup_late = {}
    /\ pc = [c \in Coordinators |-> "idle"]
    /\ tick = [c \in Coordinators |-> NoTick]
    /\ retries = 0 /\ interrupts = 0 /\ stalls = 0 /\ expiries = 0

-----------------------------------------------------------------------------
(* Local control flow: where a tick goes next, given its locals t.         *)

Go(c, to, t) ==
    /\ pc' = [pc EXCEPT ![c] = to]
    /\ tick' = [tick EXCEPT ![c] = t]

Release(c) == Go(c, "release", NoTick)

Stop(c) == Go(c, "idle", NoTick)

(* The end of reconcilePipelineCleanup: failures that no recheck recovered *)
(* are an error.                                                           *)
RecheckNext(c, t) ==
    LET failures == {i \in Stages : t.cleanup[i] \in {"failed", "canceled"}} \ t.recovered IN
    IF t.left # {} THEN Go(c, "recheck", t)
    ELSE IF t.then = "complete" /\ failures = {} THEN Go(c, "complete", t)
    ELSE Go(c, "fail", t)

(* reconcilePipelineCleanup skips the stages whose cleanup is over.        *)
CleanupNext(c, t) ==
    LET open == {i \in t.left : t.cleanup[i] \notin CleanupComplete} IN
    IF open # {} THEN Go(c, "clean", [t EXCEPT !.left = open])
    ELSE RecheckNext(c, [t EXCEPT !.left = {i \in Stages : t.cleanup[i] = "failed" /\ Kind[i] = "deploy"}])

(* The end of stopPipelineOperations, in its three call sites: the         *)
(* terminal branch of reconcilePipelineRun, and the two of                 *)
(* deferPipelineTermination.                                               *)
AfterDrain(c, t) ==
    \/ /\ t.then = "terminal"
       /\ IF ~t.stopped THEN Release(c)
          ELSE IF ~CleanupAfterRun THEN Go(c, "fail", t)
          ELSE CleanupNext(c, [t EXCEPT !.left = Stages])
    \/ /\ t.then = "sequential"
       /\ IF t.stopped THEN Go(c, "fail", t)
          ELSE Go(c, "stop get", [t EXCEPT !.left = t.started, !.stopped = TRUE, !.then = "begin"])
    \/ /\ t.then = "begin"
       /\ Go(c, "begin", t)

DrainNext(c, t) ==
    IF t.left # {} THEN Go(c, "stop get", t) ELSE AfterDrain(c, t)

(* Mutant: stages without an operation are visited too.                    *)
DrainAll(c, t, then) ==
    DrainNext(c, [t EXCEPT !.left = Stages, !.stopped = TRUE, !.then = then])

Drain(c, t, then) ==
    DrainNext(c, [t EXCEPT !.left = t.started, !.stopped = TRUE, !.then = then])

DeferDrain(c, t) ==
    Drain(c, t, IF ~CleanupAfterRun /\ MaxParallelStages <= 1 THEN "sequential" ELSE "begin")

(* deferPipelineTermination; position 0 stands for -1.                     *)
DeferTermination(c, t, position, outcome) ==
    LET u == [t EXCEPT !.position = position, !.outcome = outcome] IN
    IF position # 0 THEN Go(c, "fail stage", u) ELSE DeferDrain(c, u)

(* After the ready stages are started: a run whose stages have all         *)
(* succeeded is completed, through its cleanup when it has a result.       *)
Conclude(c, t) ==
    IF \E i \in Stages : t.stage[i] # "succeeded" THEN Release(c)
    ELSE IF ~HasResult THEN Go(c, "complete", t)
    ELSE \/ "result" \in Failures /\ DeferTermination(c, t, Len(Kind), "failed")
         \/ IF CleanupAfterRun
            THEN CleanupNext(c, [t EXCEPT !.left = Stages, !.then = "complete", !.outcome = "failed"])
            ELSE Go(c, "complete", t)

StartNext(c, t) == IF t.left # {} THEN Go(c, "start", t) ELSE Conclude(c, t)

(* With every operation synced: stop on cancellation, wait at the gate,    *)
(* or start what is ready.                                                 *)
Decide(c, t) ==
    LET ready == readyPipelineStages(DependsOn, MaxParallelStages, t.stage, t.started) IN
    IF t.cancel THEN DeferTermination(c, t, 0, "canceled")
    ELSE IF Gate = 0 \/ t.execution THEN StartNext(c, [t EXCEPT !.left = ready])
    ELSE IF \A i \in 1..(Gate - 1) : t.stage[i] = "succeeded"
    THEN IF t.initialized THEN Release(c) ELSE Go(c, "initialize", t)
    ELSE StartNext(c, [t EXCEPT !.left = {i \in ready : i < Gate}])

SyncNext(c, t) == IF t.left # {} THEN Go(c, "sync get", t) ELSE Decide(c, t)

-----------------------------------------------------------------------------
(* Claiming and reading the run.                                           *)

(* What the claim asks of the run itself.  Which of the runs is claimed,   *)
(* and whether one is, is the matter of module Admission.                  *)
ClaimPipelineRun(c) ==
    /\ pc[c] = "idle"
    /\ status \in {"queued", "running"}
    /\ lease_until # "valid"
    /\ status' = "running"
    /\ lease_owner' = c /\ lease_until' = "valid"
    /\ Go(c, "read", NoTick)
    /\ UNCHANGED <<terminal_status, cancel_requested, execution_requested, initialized, rows, ops, bounds>>

(* The two SELECTs of GetPipelineRun, and GetPipeline, whose row never     *)
(* changes.  A pipeline that cannot be loaded fails the run on the spot.   *)
GetPipelineRun(c) ==
    LET t == [NoTick EXCEPT
                !.terminal = terminal_status, !.cancel = cancel_requested,
                !.execution = execution_requested, !.initialized = initialized,
                !.stage = stage, !.started = Started,
                !.cleanup = cleanup_status, !.attempt = cleanup_operation]
    IN
    /\ pc[c] = "read"
    /\ \/ t.terminal # "" /\ Drain(c, [t EXCEPT !.outcome = t.terminal], "terminal")
       \/ t.terminal = "" /\ SyncNext(c, [t EXCEPT !.left = t.started])
       \/ "pipeline" \in Failures /\ Go(c, "fail", [t EXCEPT !.outcome = "failed"])
    /\ UNCHANGED <<run, lease, rows, ops, bounds>>

-----------------------------------------------------------------------------
(* The sync loop over the stages that have an operation.                   *)

Current(t) == CHOOSE i \in t.left : \A j \in t.left : i <= j

Visited(t) == [t EXCEPT !.left = @ \ {Current(t)}]

(* GetOperation; a failure terminates the run at this stage.               *)
SyncGet(c) ==
    LET t == tick[c] IN
    /\ pc[c] = "sync get"
    /\ \/ Go(c, "sync set", [t EXCEPT !.seen = operation[Current(t)]])
       \/ "operation" \in Failures /\ DeferTermination(c, t, Current(t), "failed")
    /\ UNCHANGED <<run, lease, rows, ops, bounds>>

(* SyncPipelineRunStage is not guarded by the lease.                       *)
SyncSet(c) ==
    LET t == tick[c]
        i == Current(t)
        u == [Visited(t) EXCEPT !.stage[i] = t.seen, !.seen = "none"]
    IN
    /\ pc[c] = "sync set"
    /\ stage' = [stage EXCEPT ![i] = t.seen]
    /\ IF t.seen \in {"failed", "canceled"} THEN DeferTermination(c, u, i, t.seen) ELSE SyncNext(c, u)
    /\ UNCHANGED <<run, lease, cleanup_status, cleanup_operation, ops, bounds>>

MarkPipelineInitialized(c) ==
    /\ pc[c] = "initialize"
    /\ initialized' = (initialized \/ (/\ lease_owner = c /\ status = "running"
                                       /\ terminal_status = "" /\ ~cancel_requested
                                       /\ ~execution_requested))
    /\ Release(c)
    /\ UNCHANGED <<status, terminal_status, cancel_requested, execution_requested, lease, rows, ops, bounds>>

-----------------------------------------------------------------------------
(* Starting stages.                                                        *)

Owns(c) == status = "running" /\ lease_owner = c /\ lease_until = "valid"

(* Mutant: the stage is created without checking the lease.                *)
MayCreateUnleased(c, i) == status = "running" /\ stage[i] = "pending"

MayCreate(c, i) == Owns(c) /\ stage[i] = "pending"

(* A stage that cannot be started, its plugin changed, its configuration   *)
(* no longer valid, or its row taken or lease lost (ErrConflict), fails    *)
(* the run.                                                                *)
startPipelineStage(c) ==
    LET t == tick[c]
        i == Current(t)
    IN
    /\ pc[c] = "start"
    /\ \/ /\ MayCreate(c, i)
          /\ operation' = [operation EXCEPT ![i] = "queued"]
          /\ stage' = [stage EXCEPT ![i] = "queued"]
          /\ StartNext(c, [Visited(t) EXCEPT !.stage[i] = "queued", !.started = @ \union {i}])
       \/ /\ DeferTermination(c, t, i, "failed")
          /\ UNCHANGED <<operation, stage>>
    /\ UNCHANGED <<run, lease, cleanup_status, cleanup_operation, ran, cleanup_op, attempts, swept, bounds>>

-----------------------------------------------------------------------------
(* Terminating a run.                                                      *)

(* FailPipelineRunStage is not guarded by the lease either.                *)
FailPipelineRunStage(c) ==
    LET t == tick[c] IN
    /\ pc[c] = "fail stage"
    /\ stage' = [stage EXCEPT ![t.position] =
                    IF @ \in Terminal THEN @
                    ELSE IF t.outcome = "canceled" THEN "canceled" ELSE "failed"]
    /\ DeferDrain(c, t)
    /\ UNCHANGED <<run, lease, cleanup_status, cleanup_operation, ops, bounds>>

(* stopPipelineOperations: read, sync, ask to cancel.                      *)
StopGet(c) ==
    LET t == tick[c] IN
    /\ pc[c] = "stop get"
    /\ Go(c, "stop sync", [t EXCEPT !.seen = operation[Current(t)]])
    /\ UNCHANGED <<run, lease, rows, ops, bounds>>

(* Mutant: an operation seen running does not hold the drain back.         *)
StopSyncForgets(c) ==
    LET t == tick[c] IN
    /\ pc[c] = "stop sync"
    /\ stage' = [stage EXCEPT ![Current(t)] = t.seen]
    /\ IF t.seen \in Terminal
       THEN DrainNext(c, [Visited(t) EXCEPT !.seen = "none"])
       ELSE Go(c, "stop cancel", [t EXCEPT !.seen = "none"])
    /\ UNCHANGED <<run, lease, cleanup_status, cleanup_operation, ops, bounds>>

(* Mutant: an operation that has stopped is not synced any more.           *)
StopSyncSilent(c) ==
    LET t == tick[c] IN
    /\ pc[c] = "stop sync"
    /\ IF t.seen \in Terminal
       THEN DrainNext(c, [Visited(t) EXCEPT !.seen = "none"])
       ELSE Go(c, "stop cancel", [t EXCEPT !.seen = "none", !.stopped = FALSE])
    /\ UNCHANGED <<run, lease, rows, ops, bounds>>

StopSync(c) ==
    LET t == tick[c] IN
    /\ pc[c] = "stop sync"
    /\ stage' = [stage EXCEPT ![Current(t)] = t.seen]
    /\ IF t.seen \in Terminal
       THEN DrainNext(c, [Visited(t) EXCEPT !.seen = "none"])
       ELSE Go(c, "stop cancel", [t EXCEPT !.seen = "none", !.stopped = FALSE])
    /\ UNCHANGED <<run, lease, cleanup_status, cleanup_operation, ops, bounds>>

(* RequestCancel settles a queued operation and only flags a running one.  *)
StopCancel(c) ==
    LET t == tick[c] IN
    /\ pc[c] = "stop cancel"
    /\ operation' = [operation EXCEPT ![Current(t)] = IF @ = "queued" THEN "canceled" ELSE @]
    /\ DrainNext(c, Visited(t))
    /\ UNCHANGED <<run, lease, rows, ran, cleanup_op, attempts, swept, bounds>>

BeginPipelineRunTermination(c) ==
    /\ pc[c] = "begin"
    /\ terminal_status' = IF lease_owner = c /\ status = "running" THEN tick[c].outcome ELSE terminal_status
    /\ Release(c)
    /\ UNCHANGED <<status, cancel_requested, execution_requested, initialized, lease, rows, ops, bounds>>

(* FailPipelineRun checks the owner, not whether its lease still holds.    *)
FailPipelineRun(c) ==
    /\ pc[c] = "fail"
    /\ IF lease_owner = c /\ status = "running"
       THEN /\ status' = tick[c].outcome
            /\ lease_owner' = NoCoordinator /\ lease_until' = "null"
            /\ Stop(c)
       ELSE UNCHANGED <<status, lease>> /\ Release(c)
    /\ UNCHANGED <<terminal_status, cancel_requested, execution_requested, initialized, rows, ops, bounds>>

(* Mutant: whoever holds the lease, the run is completed.                  *)
CompletePipelineRunUnowned(c) ==
    /\ pc[c] = "complete"
    /\ IF status = "running" /\ \A i \in Stages : stage[i] = "succeeded"
       THEN /\ status' = "succeeded"
            /\ lease_owner' = NoCoordinator /\ lease_until' = "null"
            /\ Stop(c)
       ELSE UNCHANGED <<status, lease>> /\ Release(c)
    /\ UNCHANGED <<terminal_status, cancel_requested, execution_requested, initialized, rows, ops, bounds>>

CompletePipelineRun(c) ==
    /\ pc[c] = "complete"
    /\ IF lease_owner = c /\ status = "running" /\ \A i \in Stages : stage[i] = "succeeded"
       THEN /\ status' = "succeeded"
            /\ lease_owner' = NoCoordinator /\ lease_until' = "null"
            /\ Stop(c)
       ELSE UNCHANGED <<status, lease>> /\ Release(c)
    /\ UNCHANGED <<terminal_status, cancel_requested, execution_requested, initialized, rows, ops, bounds>>

(* ReleasePipelineRun keeps the run to itself for one poll interval.       *)
ReleasePipelineRun(c) ==
    /\ pc[c] = "release"
    /\ IF lease_owner = c
       THEN /\ lease_owner' = NoCoordinator
            /\ lease_until' = IF status = "running" THEN "valid" ELSE "null"
       ELSE UNCHANGED lease
    /\ Stop(c)
    /\ UNCHANGED <<run, rows, ops, bounds>>

-----------------------------------------------------------------------------
(* Cleaning up: reconcilePipelineCleanup, one stage at a time.             *)

NextCleanup(t) ==
    LET order == pipelineCleanupOrder(Kind) IN
    order[CHOOSE p \in DOMAIN order :
              order[p] \in t.left /\ \A q \in 1..(p - 1) : order[q] \notin t.left]

Cleaned(t, i) == [t EXCEPT !.left = @ \ {i}]

(* CleanupPlan: only steps that change something and that are on record    *)
(* as reached and over are undone; without any the cleanup is skipped.     *)
HasCleanupSteps(i) == i \in ran

SkipPipelineRunStageCleanup(c) ==
    LET t == tick[c]
        i == NextCleanup(t)
    IN
    /\ pc[c] = "clean"
    /\ i \notin t.started \/ (t.attempt[i] = 0 /\ ~HasCleanupSteps(i))
    /\ IF Owns(c) /\ cleanup_status[i] = "pending"
       THEN /\ cleanup_status' = [cleanup_status EXCEPT ![i] = "skipped"]
            /\ CleanupNext(c, Cleaned(t, i))
       ELSE /\ UNCHANGED cleanup_status
            /\ Go(c, "fail", t)
    /\ UNCHANGED <<run, lease, stage, cleanup_operation, ops, bounds>>

(* Mutant: a created cleanup does not end the tick's walk.                 *)
CreatePipelineCleanupOperationWalksOn(c) ==
    LET t == tick[c]
        i == NextCleanup(t)
    IN
    /\ pc[c] = "clean"
    /\ i \in t.started /\ t.attempt[i] = 0 /\ HasCleanupSteps(i)
    /\ IF Owns(c) /\ stage[i] \in Terminal /\ cleanup_status[i] = "pending"
       THEN /\ cleanup_op' = [cleanup_op EXCEPT ![i] = "queued"]
            /\ attempts' = [attempts EXCEPT ![i] = @ + 1]
            /\ cleanup_operation' = [cleanup_operation EXCEPT ![i] = attempts'[i]]
            /\ cleanup_status' = [cleanup_status EXCEPT ![i] = "queued"]
            /\ cleanup_late' = cleanup_late \ {i}
            /\ CleanupNext(c, Cleaned(t, i))
       ELSE /\ UNCHANGED <<cleanup_op, attempts, cleanup_operation, cleanup_status, cleanup_late>>
            /\ Go(c, "fail", t)
    /\ UNCHANGED <<run, lease, stage, operation, ran, expired, late, cleanup_expired, bounds>>

(* The cleanup operation is created and the tick ends; a lost lease is an  *)
(* error of the cleanup, and that fails the run for good.                  *)
CreatePipelineCleanupOperation(c) ==
    LET t == tick[c]
        i == NextCleanup(t)
    IN
    /\ pc[c] = "clean"
    /\ i \in t.started /\ t.attempt[i] = 0 /\ HasCleanupSteps(i)
    /\ IF Owns(c) /\ stage[i] \in Terminal /\ cleanup_status[i] = "pending"
       THEN /\ cleanup_op' = [cleanup_op EXCEPT ![i] = "queued"]
            /\ attempts' = [attempts EXCEPT ![i] = @ + 1]
            /\ cleanup_operation' = [cleanup_operation EXCEPT ![i] = attempts'[i]]
            /\ cleanup_status' = [cleanup_status EXCEPT ![i] = "queued"]
            /\ cleanup_late' = cleanup_late \ {i}
            /\ Release(c)
       ELSE /\ UNCHANGED <<cleanup_op, attempts, cleanup_operation, cleanup_status, cleanup_late>>
            /\ Go(c, "fail", t)
    /\ UNCHANGED <<run, lease, stage, operation, ran, expired, late, cleanup_expired, bounds>>

(* An operation row that cannot be loaded, a plan that cannot be made, a   *)
(* plugin whose identity changed or a cleanup that cannot be skipped or    *)
(* created ends the walk with an error.                                    *)
CleanupBreaks(c) ==
    /\ pc[c] = "clean" /\ "cleanup" \in Failures
    /\ Go(c, "fail", tick[c])
    /\ UNCHANGED <<run, lease, rows, ops, bounds>>

(* Attempt a of stage i's cleanup as GetOperation reports it: of earlier   *)
(* attempts only a failure or a cancellation is retried, and the worker of *)
(* one that has expired may have reported since.                           *)
AttemptStatus(i, a) ==
    IF a = attempts[i] THEN {cleanup_op[i]}
    ELSE {"failed", "canceled"} \union (IF <<i, a>> \in cleanup_expired THEN {"running", "succeeded"} ELSE {})

CleanupGet(c) ==
    LET t == tick[c]
        i == NextCleanup(t)
    IN
    /\ pc[c] = "clean"
    /\ i \in t.started /\ t.attempt[i] # 0
    /\ \E seen \in AttemptStatus(i, t.attempt[i]) : Go(c, "clean sync", [t EXCEPT !.seen = seen])
    /\ UNCHANGED <<run, lease, rows, ops, bounds>>

(* SyncPipelineRunStageCleanup names the operation it read: after a retry  *)
(* the row no longer refers to it.                                         *)
CleanupSync(c) ==
    LET t == tick[c]
        i == NextCleanup(t)
        u == [Cleaned(t, i) EXCEPT !.cleanup[i] = t.seen, !.seen = "none"]
    IN
    /\ pc[c] = "clean sync"
    /\ cleanup_status' = [cleanup_status EXCEPT ![i] =
                             IF cleanup_operation[i] = t.attempt[i] THEN t.seen ELSE @]
    /\ IF t.seen \in CleanupComplete THEN CleanupNext(c, u) ELSE Release(c)
    /\ UNCHANGED <<run, lease, stage, cleanup_operation, ops, bounds>>

(* recheckNamespaceCleanup, for failed cleanups of deploy stages once all  *)
(* cleanups are over.  A failure other than the namespace timeout stays a  *)
(* failure without a check; otherwise the lease is renewed before and      *)
(* after the health gate, and a lease that was lost is an error.           *)
NotRecovered(c) ==
    LET t == tick[c] IN
    /\ pc[c] = "recheck"
    /\ RecheckNext(c, Visited(t))
    /\ UNCHANGED <<run, lease, rows, ops, bounds>>

RenewPipelineRunLease(c, t, to) ==
    IF Owns(c) THEN Go(c, to, t) ELSE Go(c, "fail", t)

RecheckHealthy(c) ==
    /\ pc[c] = "recheck"
    /\ RenewPipelineRunLease(c, tick[c], "recheck renew")
    /\ UNCHANGED <<run, lease, rows, ops, bounds>>

RecheckRenew(c) ==
    /\ pc[c] = "recheck renew"
    /\ RenewPipelineRunLease(c, tick[c], "recover")
    /\ UNCHANGED <<run, lease, rows, ops, bounds>>

Recover(c) ==
    LET t == tick[c]
        i == Current(t)
    IN
    /\ pc[c] = "recover"
    /\ cleanup_status' = [cleanup_status EXCEPT ![i] =
                             IF cleanup_operation[i] = t.attempt[i] THEN "succeeded" ELSE @]
    /\ RecheckNext(c, [Visited(t) EXCEPT !.recovered = @ \union {i}])
    /\ UNCHANGED <<run, lease, stage, cleanup_operation, ops, bounds>>

-----------------------------------------------------------------------------
(* What happens around a tick.                                             *)

(* The process dies: the lease stays and has to lapse.                     *)
Crash(c) ==
    /\ interrupts < MaxInterrupts
    /\ pc[c] # "idle"
    /\ interrupts' = interrupts + 1
    /\ Stop(c)
    /\ UNCHANGED <<run, lease, rows, ops, retries, stalls, expiries>>

(* The context ends, or a store call fails whose error is only returned:   *)
(* the tick is abandoned and the deferred release still runs.              *)
Abandon(c) ==
    /\ interrupts < MaxInterrupts
    /\ pc[c] \notin {"idle", "read", "release"}
    /\ interrupts' = interrupts + 1
    /\ Release(c)
    /\ UNCHANGED <<run, lease, rows, ops, retries, stalls, expiries>>

(* Fifteen seconds pass.  A tick takes far less, unless the coordinator or *)
(* the database stalls.                                                    *)
LeaseLapses ==
    /\ lease_until = "valid"
    /\ IF \E c \in Coordinators : lease_owner = c /\ pc[c] # "idle"
       THEN stalls < MaxStalls /\ stalls' = stalls + 1
       ELSE stalls' = stalls
    /\ lease_until' = "lapsed"
    /\ UNCHANGED <<run, lease_owner, rows, ops, pc, tick, retries, interrupts, expiries>>

around == <<run, lease, rows, pc, tick, retries, interrupts, stalls>>

(* A worker claims the operation, has the last word on it or dies, or its  *)
(* owner cancels it.  One that succeeds has reached its steps.             *)
OperationRuns(i) ==
    /\ operation[i] = "queued"
    /\ operation' = [operation EXCEPT ![i] = "running"]
    /\ UNCHANGED <<around, ran, cleanup_op, attempts, swept, expiries>>

LastWord(i, s) ==
    /\ operation' = [operation EXCEPT ![i] = s]
    /\ ran' \in {ran \union ({i} \intersect Mutating)} \union (IF s = "succeeded" THEN {} ELSE {ran})

OperationSettles(i) ==
    /\ \/ operation[i] = "running" /\ \E s \in Terminal : LastWord(i, s)
       \/ operation[i] = "queued" /\ operation' = [operation EXCEPT ![i] = "canceled"] /\ UNCHANGED ran
    /\ UNCHANGED <<around, cleanup_op, attempts, swept, expiries>>

(* The lease runs out although the worker goes on, and the sweeper fails   *)
(* the operation with the step it is at.                                   *)
OperationExpires(i) ==
    /\ operation[i] = "running" /\ i \notin expired /\ expiries < MaxExpiries
    /\ LastWord(i, "failed")
    /\ expired' = expired \union {i} /\ late' = late \union {i}
    /\ expiries' = expiries + 1
    /\ UNCHANGED <<around, cleanup_op, attempts, cleanup_expired, cleanup_late>>

(* That worker has its last word after all, or reports that it goes on     *)
(* with a step; no lease is held for it any more.                          *)
OperationRevives(i) ==
    /\ i \in late
    /\ \/ \E s \in Terminal : LastWord(i, s)
       \/ operation' = [operation EXCEPT ![i] = "running"] /\ ran' \in {ran, ran \ {i}}
    /\ late' = late \ {i}
    /\ UNCHANGED <<around, cleanup_op, attempts, expired, cleanup_expired, cleanup_late, expiries>>

CleanupRuns(i) ==
    /\ \/ /\ cleanup_op[i] = "queued"
          /\ \E s \in {"running", "canceled"} : cleanup_op' = [cleanup_op EXCEPT ![i] = s]
       \/ /\ cleanup_op[i] = "running"
          /\ \E s \in Terminal : cleanup_op' = [cleanup_op EXCEPT ![i] = s]
    /\ UNCHANGED <<around, operation, ran, attempts, swept, expiries>>

CleanupExpires(i) ==
    /\ cleanup_op[i] = "running" /\ <<i, attempts[i]>> \notin cleanup_expired /\ expiries < MaxExpiries
    /\ cleanup_op' = [cleanup_op EXCEPT ![i] = "failed"]
    /\ cleanup_expired' = cleanup_expired \union {<<i, attempts[i]>>}
    /\ cleanup_late' = cleanup_late \union {i}
    /\ expiries' = expiries + 1
    /\ UNCHANGED <<around, operation, ran, attempts, expired, late>>

CleanupRevives(i) ==
    /\ i \in cleanup_late
    /\ \E s \in Terminal \union {"running"} : cleanup_op' = [cleanup_op EXCEPT ![i] = s]
    /\ cleanup_late' = cleanup_late \ {i}
    /\ UNCHANGED <<around, operation, ran, attempts, expired, late, cleanup_expired, expiries>>

RequestPipelineRunCancel ==
    /\ status \in {"queued", "running"}
    /\ cancel_requested' = TRUE
    /\ UNCHANGED <<status, terminal_status, execution_requested, initialized, lease, rows, ops, pc, tick, bounds>>

(* Canceling the experiment settles a run that has not started, with its   *)
(* stages, and flags a running one.                                        *)
RequestExperimentCancel ==
    /\ status \in {"queued", "running"}
    /\ cancel_requested' = TRUE
    /\ IF status = "queued"
       THEN /\ status' = "canceled"
            /\ stage' = [i \in Stages |-> IF stage[i] = "pending" THEN "canceled" ELSE stage[i]]
            /\ lease_owner' = NoCoordinator /\ lease_until' = "null"
       ELSE UNCHANGED <<status, stage, lease>>
    /\ UNCHANGED <<terminal_status, execution_requested, initialized, cleanup_status,
                   cleanup_operation, ops, pc, tick, bounds>>

(* The run's part of StartExperimentTraffic.                               *)
StartExperimentTraffic ==
    /\ status = "running" /\ terminal_status = "" /\ ~cancel_requested
    /\ initialized /\ ~execution_requested
    /\ execution_requested' = TRUE
    /\ UNCHANGED <<status, terminal_status, cancel_requested, initialized, lease, rows, ops, pc, tick, bounds>>

Settled(s) == s \in Terminal \union {"none"}

RetryExperimentCleanup ==
    LET failed == {i \in Stages : cleanup_status[i] \in {"failed", "canceled"}} IN
    /\ retries < MaxRetries
    /\ status \in Terminal
    /\ \A i \in Stages : Settled(operation[i]) /\ (cleanup_operation[i] # 0 => Settled(cleanup_op[i]))
    /\ failed # {}
    /\ cleanup_status' = [i \in Stages |-> IF i \in failed THEN "pending" ELSE cleanup_status[i]]
    /\ cleanup_operation' = [i \in Stages |-> IF i \in failed THEN 0 ELSE cleanup_operation[i]]
    /\ terminal_status' = IF status = "succeeded" THEN "failed" ELSE status
    /\ status' = "running"
    /\ lease_owner' = NoCoordinator /\ lease_until' = "null"
    /\ retries' = retries + 1
    /\ UNCHANGED <<cancel_requested, execution_requested, initialized, stage, ops, pc, tick,
                   interrupts, stalls, expiries>>

-----------------------------------------------------------------------------
(* One store call of a tick.                                               *)
Tick(c) ==
    \/ GetPipelineRun(c)
    \/ SyncGet(c) \/ SyncSet(c)
    \/ MarkPipelineInitialized(c) \/ startPipelineStage(c)
    \/ FailPipelineRunStage(c) \/ StopGet(c) \/ StopSync(c) \/ StopCancel(c)
    \/ BeginPipelineRunTermination(c) \/ FailPipelineRun(c) \/ CompletePipelineRun(c)
    \/ SkipPipelineRunStageCleanup(c) \/ CreatePipelineCleanupOperation(c)
    \/ CleanupBreaks(c) \/ CleanupGet(c) \/ CleanupSync(c)
    \/ NotRecovered(c) \/ RecheckHealthy(c) \/ RecheckRenew(c) \/ Recover(c)
    \/ ReleasePipelineRun(c)

Next ==
    \/ \E c \in Coordinators : ClaimPipelineRun(c) \/ Tick(c) \/ Crash(c) \/ Abandon(c)
    \/ \E i \in Stages : \/ OperationRuns(i) \/ OperationSettles(i) \/ OperationExpires(i) \/ OperationRevives(i)
                         \/ CleanupRuns(i) \/ CleanupExpires(i) \/ CleanupRevives(i)
    \/ LeaseLapses
    \/ RequestPipelineRunCancel \/ RequestExperimentCancel
    \/ StartExperimentTraffic \/ RetryExperimentCleanup

Spec == Init /\ [][Next]_vars

(* A coordinator goes on with its tick and operations settle               *)
(* (ClaimedSettles of module Operations).  No claim, user action, crash or *)
(* failure ever has to happen.                                             *)
FairSpec ==
    /\ Spec
    /\ \A c \in Coordinators : WF_vars(Tick(c))
    /\ WF_vars(\E i \in Stages : OperationRuns(i) \/ OperationSettles(i) \/ CleanupRuns(i))

-----------------------------------------------------------------------------
(* Properties.                                                             *)

OpStatuses == {"none", "queued", "running"} \union Terminal
CleanupStatuses == {"pending", "queued", "running"} \union CleanupComplete
PCs == {"idle", "read", "sync get", "sync set", "initialize", "start", "fail stage",
        "stop get", "stop sync", "stop cancel", "begin", "fail", "complete", "clean",
        "clean sync", "recheck", "recheck renew", "recover", "release"}

Ticks == [terminal : {"", "failed", "canceled"}, cancel : BOOLEAN, execution : BOOLEAN,
          initialized : BOOLEAN,
          stage : [Stages -> (OpStatuses \ {"none"}) \union {"pending"}],
          started : SUBSET Stages, cleanup : [Stages -> CleanupStatuses],
          attempt : [Stages -> 0..(MaxRetries + 1)],
          left : SUBSET Stages, seen : OpStatuses, stopped : BOOLEAN,
          then : {"", "terminal", "sequential", "begin", "complete"},
          position : Stages \union {0}, outcome : {"failed", "canceled"},
          recovered : SUBSET Stages]

(* Every variable has its type; a stage is cleaned up at most once per     *)
(* retry.                                                                  *)
TypeOK ==
    /\ status \in {"queued", "running"} \union Terminal
    /\ terminal_status \in {"", "failed", "canceled"}
    /\ {cancel_requested, execution_requested, initialized} \subseteq BOOLEAN
    /\ lease_owner \in Coordinators \union {NoCoordinator}
    /\ lease_until \in {"null", "valid", "lapsed"}
    /\ stage \in [Stages -> (OpStatuses \ {"none"}) \union {"pending"}]
    /\ cleanup_status \in [Stages -> CleanupStatuses]
    /\ cleanup_operation \in [Stages -> 0..(MaxRetries + 1)]
    /\ operation \in [Stages -> OpStatuses]
    /\ ran \subseteq Mutating
    /\ cleanup_op \in [Stages -> OpStatuses]
    /\ attempts \in [Stages -> 0..(MaxRetries + 1)]
    /\ expired \subseteq Stages /\ late \subseteq expired
    /\ cleanup_expired \subseteq Stages \X (0..(MaxRetries + 1)) /\ cleanup_late \subseteq Stages
    /\ pc \in [Coordinators -> PCs]
    /\ tick \in [Coordinators -> Ticks]
    /\ retries \in 0..MaxRetries /\ interrupts \in 0..MaxInterrupts
    /\ stalls \in 0..MaxStalls /\ expiries \in 0..MaxExpiries

(* An operation is over, or was declared so.                               *)
OperationOver(i) == Settled(operation[i]) \/ i \in expired
CleanupOver(i) == Settled(cleanup_op[i]) \/ <<i, attempts[i]>> \in cleanup_expired

(* A run that is over has no stage operation left running or queued,       *)
(* except one whose worker goes on past its lease: reconcilePipelineRun    *)
(* drains the siblings before it sets a final status, whichever            *)
(* coordinator finishes the job.                                           *)
DrainedBeforeFinal ==
    status \in Terminal => \A i \in Stages : OperationOver(i)

(* A run that cleans up after itself is over only when the cleanup of      *)
(* every stage that may have changed something has been tried and has      *)
(* settled, through crashes between creating a cleanup and syncing it; and *)
(* it has succeeded only if all of them have, or were recovered.  What is  *)
(* on record of a stage whose lease ran out may change under the cleanup.  *)
CleanedBeforeFinal ==
    CleanupAfterRun /\ status \in Terminal /\ (HasResult \/ status # "succeeded") =>
        \A i \in ran \ expired :
            /\ cleanup_status[i] \in Terminal /\ CleanupOver(i)
            /\ status = "succeeded" => cleanup_status[i] = "succeeded"

(* When a run is over its rows tell the truth: the stage rows agree with   *)
(* the operations, although they are written from statuses read one call   *)
(* earlier, and so do the cleanup rows.  Only a failure that the sweeper   *)
(* declared may be found to be untrue later.                               *)
RowsTellTheTruth ==
    /\ status \in Terminal =>
          \A i \in Started : stage[i] = operation[i] \/ (stage[i] = "failed" /\ i \in expired)
    /\ CleanedBeforeFinal

(* A stage starts only after its dependencies, and in a sequential         *)
(* pipeline its predecessor, have really succeeded, and never so that more *)
(* than the allowed number of operations is active: the decision is taken  *)
(* on a copy, possibly by a coordinator that has lost the run since.       *)
StartedInOrder ==
    /\ \A i \in Started : InputsComplete(DependsOn, MaxParallelStages, operation, i)
    /\ Cardinality({i \in Stages : ~Settled(operation[i])}) <= Limit(MaxParallelStages)

(* Nothing at or behind the manual-start stage runs before every stage in  *)
(* front of it has succeeded and the user has asked for the start.         *)
GateHolds ==
    Gate # 0 => \A i \in Started :
        i >= Gate => execution_requested /\ \A j \in 1..(Gate - 1) : operation[j] = "succeeded"

(* A succeeded run is one whose operations all succeeded and that was not  *)
(* already on its way to another outcome: CompletePipelineRun trusts the   *)
(* stage rows, which any coordinator may have written.                     *)
SucceededIsComplete ==
    status = "succeeded" =>
        /\ terminal_status = ""
        /\ \A i \in Stages : operation[i] = "succeeded"

(* The outcome of a run can be relied upon, whichever coordinators had a   *)
(* part in it: stages started in order and behind their gate, all of them  *)
(* have stopped when the run is over, and all succeeded when it succeeded. *)
OutcomeIsSound ==
    DrainedBeforeFinal /\ StartedInOrder /\ GateHolds /\ SucceededIsComplete

(* Once the outcome of a run is decided no further stage is started, and   *)
(* the outcome reported is the one decided, even by a coordinator that     *)
(* still works on a copy from before.                                      *)
DecidedOutcomeStands ==
    [][terminal_status # "" =>
         /\ \A i \in Stages \ Started : operation'[i] = "none"
         /\ status' # status => status' \in {terminal_status, "running"}]_vars

(* A cleanup starts only when every stage operation has stopped, every     *)
(* stage to be cleaned up earlier (in reverse order, network shaping       *)
(* before applications) is done with, and no other cleanup is active; also *)
(* for a retry, which repeats only what failed.  The cleanup may meet a    *)
(* worker only if that one goes on past its lease.                         *)
CleanupInOrder ==
    [][\A i \in Stages : attempts'[i] # attempts[i] =>
         \A j \in Stages :
            /\ OperationOver(j)
            /\ CleanupOver(j)
            /\ CleanedBefore(Kind, j, i) =>
                  \/ cleanup_status[j] = "skipped"
                  \/ cleanup_operation[j] # 0 /\ CleanupOver(j)]_vars

(* A stage that could not be started: its row is failed, it has no         *)
(* operation.                                                              *)
StartFailed == \E i \in Stages \ Started : stage[i] = "failed"

(* Initialized and waiting for the user at the manual-start stage.         *)
WaitsForStart == initialized /\ ~execution_requested

(* A run at rest: it is over, it waits for its user, or a stage could not  *)
(* be started and nobody has decided what comes of that.                   *)
AtRest ==
    \/ status \in Terminal
    \/ ~cancel_requested /\ terminal_status = "" /\ (WaitsForStart \/ StartFailed)

(* Coordinators keep coming to the run until it is over.                   *)
Attended == []<>(status \in Terminal \/ \E c \in Coordinators : pc[c] = "read")

(* A run that coordinators keep coming to gets on, whichever way its       *)
(* operations go and wherever a coordinator crashes: one that is queued    *)
(* ends or comes to wait for its manual start, one that was started by     *)
(* hand ends, unless a stage could not be started, and one that is         *)
(* canceled, terminating or cleaned up again is brought to its end through *)
(* the drain, the cleanups and their rechecks.  Whether they come is not   *)
(* up to the run: the claim picks one of all runs (module Admission).      *)
RunSettles == Attended => []<>AtRest
=============================================================================
