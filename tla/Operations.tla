----------------------------- MODULE Operations -----------------------------
(***************************************************************************)
(* The operation queue of KubePhos and the worker slots that drain it.     *)
(*                                                                         *)
(* internal/storage/operations.go keeps one row per operation (status,     *)
(* lease, cancellation flag) and one row per plan step.  Every slot of     *)
(* internal/engine/worker.go claims a queued row and walks the plan step   *)
(* by step; a monitor goroutine renews its 30 second lease and polls the   *)
(* cancellation flag; a sweeper fails the rows whose lease has lapsed.     *)
(* Every SQL statement is one atomic action; between two statements of a   *)
(* slot anything else may happen.  A plugin call is two actions (it starts,*)
(* it returns), so that a lease may lapse or a process die in the middle.  *)
(***************************************************************************)
EXTENDS Naturals

CONSTANTS
    Ops,         \* operation rows
    Slots,       \* worker slots (owner = instance id and slot number)
    NoSlot,      \* lease_owner IS NULL
    NoOp,        \* a slot that processes nothing
    NumSteps,    \* steps of every plan
    CleanupOps,  \* operations whose plan consists of cleanup steps
    Mutating,    \* operations whose steps are mutating or have effects
    Discovery,   \* operations of an infrastructure.discovery plugin
    Validation,  \* the stored validation report of each operation
    Stalls       \* may a lease lapse although its monitor runs?

ASSUME ConstantsAssumption ==
    /\ NoSlot \notin Slots
    /\ NoOp \notin Ops
    /\ NumSteps \in Nat \ {0}
    /\ CleanupOps \subseteq Mutating
    /\ Mutating \subseteq Ops
    /\ Discovery \subseteq Ops \ Mutating
    /\ Validation \in [Ops -> {"valid", "warnings", "invalid"}]
    /\ Stalls \in BOOLEAN

VARIABLES
    status, lease_owner, lease_until, cancel_requested,  \* table operations
    step,        \* table operation_steps: status by operation and position
    effect,      \* what the plugin has done outside for a step
    pc,          \* next statement of the slot
    job,         \* operation the slot processes
    position,    \* step the slot is at
    runDone,     \* runCtx is canceled (or was never created)
    parentDone,  \* the worker's context is canceled: it shuts down
    exit         \* how the slot leaves process() once it has failed

row    == <<status, lease_owner, lease_until, cancel_requested>>
slot   == <<pc, job, position, runDone, parentDone, exit>>
vars   == <<row, step, effect, slot>>

Positions == 1 .. NumSteps
Active    == {"prechecking", "running", "verifying"}
Terminal  == {"succeeded", "failed", "canceled"}
OperationStatus == {"ready", "queued"} \cup Active \cup Terminal
StepStatus == {"pending"} \cup Active \cup Terminal

(* lease_until: NULL, in the future, or in the past.                       *)
Lease == {"null", "valid", "lapsed"}

(* effect: never executed; executing or interrupted with unknown outcome;  *)
(* executed; undone by Cleanup; left behind by a Cleanup that failed.      *)
Effect == {"none", "started", "applied", "undone", "residue"}

PCs == {"idle", "claimed", "loop", "setPrechecking", "resolve", "precheck",
        "setRunningStep", "setRunning", "reserve", "execute", "executing",
        "setVerifyingStep", "setVerifying", "verify", "persist", "capture",
        "effects", "setSucceeded", "cleanup", "stop", "stopStep", "stopOp", "failStep",
        "failOp", "finish", "complete"}

(* exit: "fail" writes with the worker's context, "failRun" with the run   *)
(* context, "failFresh" with a new one; "stop" goes through Worker.stop.   *)
Exit == {"none", "fail", "failRun", "failFresh", "stop"}

Init ==
    /\ status \in [Ops -> {"ready", "queued"}]
    /\ \A o \in Ops : Validation[o] # "valid" => status[o] = "ready"
    /\ lease_owner = [o \in Ops |-> NoSlot]
    /\ lease_until = [o \in Ops |-> "null"]
    /\ cancel_requested = [o \in Ops |-> FALSE]
    /\ step = [o \in Ops |-> [i \in Positions |-> "pending"]]
    /\ effect = [o \in Ops |-> [i \in Positions |-> "none"]]
    /\ pc = [s \in Slots |-> "idle"]
    /\ job = [s \in Slots |-> NoOp]
    /\ position = [s \in Slots |-> 1]
    /\ runDone = [s \in Slots |-> FALSE]
    /\ parentDone = [s \in Slots |-> FALSE]
    /\ exit = [s \in Slots |-> "none"]

-----------------------------------------------------------------------------
(* The user's side of the queue.                                           *)

QueueOperation(o, acceptWarnings) ==
    /\ status[o] = "ready"
    /\ Validation[o] # "invalid"
    /\ Validation[o] = "warnings" => acceptWarnings
    /\ status' = [status EXCEPT ![o] = "queued"]
    /\ UNCHANGED <<lease_owner, lease_until, cancel_requested, step, effect, slot>>

(* Mutant: a running row is settled by the request itself.                 *)
RequestCancelSettles(o) ==
    /\ status[o] \notin Terminal
    /\ cancel_requested' = [cancel_requested EXCEPT ![o] = TRUE]
    /\ status' = [status EXCEPT ![o] = "canceled"]
    /\ UNCHANGED <<lease_owner, lease_until, step, effect, slot>>

RequestCancel(o) ==
    /\ status[o] \notin Terminal
    /\ cancel_requested' = [cancel_requested EXCEPT ![o] = TRUE]
    /\ status' = [status EXCEPT ![o] = IF @ \in {"ready", "queued"} THEN "canceled" ELSE @]
    /\ UNCHANGED <<lease_owner, lease_until, step, effect, slot>>

-----------------------------------------------------------------------------
(* Leases.  A slot is monitored while its run context is alive.            *)

Monitored(s, o) == job[s] = o /\ pc[s] \notin {"idle", "claimed"} /\ ~runDone[s]

RenewLease(s) ==
    LET o == job[s] IN
    /\ o # NoOp
    /\ Monitored(s, o)
    /\ lease_owner[o] = s
    /\ status[o] \in Active
    /\ lease_until' = [lease_until EXCEPT ![o] = "valid"]
    /\ UNCHANGED <<status, lease_owner, cancel_requested, step, effect, slot>>

(* The same tick reads cancel_requested and cancels the run context.       *)
MonitorCancels(s) ==
    /\ job[s] # NoOp
    /\ Monitored(s, job[s])
    /\ cancel_requested[job[s]]
    /\ runDone' = [runDone EXCEPT ![s] = TRUE]
    /\ UNCHANGED <<row, step, effect, pc, job, position, parentDone, exit>>

(* Time passes.  A renewing monitor prevents this unless the process or    *)
(* the database stalls for a whole lease.                                  *)
LeaseLapses(o) ==
    /\ lease_until[o] = "valid"
    /\ Stalls \/ ~ \E s \in Slots : Monitored(s, o) /\ lease_owner[o] = s
    /\ lease_until' = [lease_until EXCEPT ![o] = "lapsed"]
    /\ UNCHANGED <<status, lease_owner, cancel_requested, step, effect, slot>>

(* Mutant: the sweeper forgets the verifying status.                       *)
ExpiredUnverified == {o \in Ops : status[o] \in Active \ {"verifying"} /\ lease_until[o] = "lapsed"}

Expired == {o \in Ops : status[o] \in Active /\ lease_until[o] = "lapsed"}

(* Mutant: expired rows are queued again.                                  *)
RequeueExpiredOperations ==
    /\ Expired # {}
    /\ status' = [o \in Ops |-> IF o \in Expired THEN "queued" ELSE status[o]]
    /\ lease_owner' = [o \in Ops |-> IF o \in Expired THEN NoSlot ELSE lease_owner[o]]
    /\ lease_until' = [o \in Ops |-> IF o \in Expired THEN "null" ELSE lease_until[o]]
    /\ UNCHANGED <<cancel_requested, step, effect, slot>>

(* Mutant: the sweeper fails every step of an expired operation.           *)
FailExpiredEveryStep ==
    /\ Expired # {}
    /\ status' = [o \in Ops |-> IF o \in Expired THEN "failed" ELSE status[o]]
    /\ lease_owner' = [o \in Ops |-> IF o \in Expired THEN NoSlot ELSE lease_owner[o]]
    /\ lease_until' = [o \in Ops |-> IF o \in Expired THEN "null" ELSE lease_until[o]]
    /\ step' = [o \in Ops |-> [i \in Positions |->
                  IF o \in Expired THEN "failed" ELSE step[o][i]]]
    /\ UNCHANGED <<cancel_requested, effect, slot>>

FailExpiredOperations ==
    /\ Expired # {}
    /\ status' = [o \in Ops |-> IF o \in Expired THEN "failed" ELSE status[o]]
    /\ lease_owner' = [o \in Ops |-> IF o \in Expired THEN NoSlot ELSE lease_owner[o]]
    /\ lease_until' = [o \in Ops |-> IF o \in Expired THEN "null" ELSE lease_until[o]]
    /\ step' = [o \in Ops |-> [i \in Positions |->
                  IF o \in Expired /\ step[o][i] \in Active THEN "failed" ELSE step[o][i]]]
    /\ UNCHANGED <<cancel_requested, effect, slot>>

-----------------------------------------------------------------------------
(* A slot's control flow.                                                  *)

Goto(s, label) == pc' = [pc EXCEPT ![s] = label]

(* process() returns: done is closed, the run context is canceled.         *)
Return(s) ==
    /\ Goto(s, "idle")
    /\ job' = [job EXCEPT ![s] = NoOp]
    /\ exit' = [exit EXCEPT ![s] = "none"]
    /\ runDone' = [runDone EXCEPT ![s] = parentDone[s]]
    /\ position' = [position EXCEPT ![s] = 1]
    /\ UNCHANGED parentDone

(* The slot goes on to label, leaving the process() call by way of mode.   *)
Leave(s, label, mode) ==
    /\ Goto(s, label)
    /\ exit' = [exit EXCEPT ![s] = mode]
    /\ UNCHANGED <<job, position, runDone, parentDone>>

Proceed(s, label) == Goto(s, label) /\ UNCHANGED <<job, position, runDone, parentDone, exit>>

Fail(s) == Leave(s, "failStep", "fail")

(* stopOrFail: a plugin that saw the canceled context is stopped.          *)
StopOrFail(s) ==
    \/ Fail(s)
    \/ runDone[s] /\ Leave(s, "stop", "stop")

(* Mutant: errors after the execution are reported without a rollback.     *)
ReportOnly(s, mayStop) == StopOrFail(s)

(* Errors once the plugin has executed the step: roll it back first.  A    *)
(* cleanup step has no rollback of its own (runCleanupStep).  mayStop says *)
(* whether the code answers the error with stopOrFail or with fail.        *)
RollBack(s, mayStop) ==
    IF job[s] \in CleanupOps
    THEN StopOrFail(s)
    ELSE \/ Leave(s, "cleanup", "fail")
         \/ mayStop /\ runDone[s] /\ Leave(s, "cleanup", "stop")

ClaimOperation(s, o) ==
    /\ pc[s] = "idle" /\ ~parentDone[s]
    /\ status[o] = "queued" /\ ~cancel_requested[o]
    /\ status' = [status EXCEPT ![o] = "prechecking"]
    /\ lease_owner' = [lease_owner EXCEPT ![o] = s]
    /\ lease_until' = [lease_until EXCEPT ![o] = "valid"]
    /\ Goto(s, "claimed")
    /\ job' = [job EXCEPT ![s] = o]
    /\ UNCHANGED <<cancel_requested, step, effect, position, runDone, parentDone, exit>>

(* The plugin is looked up and compared with the validated version before  *)
(* a run context and its monitor exist.                                    *)
Process(s) ==
    /\ pc[s] = "claimed"
    /\ \/ Proceed(s, "loop")
       \/ /\ Goto(s, "failOp")
          /\ exit' = [exit EXCEPT ![s] = "fail"]
          /\ runDone' = [runDone EXCEPT ![s] = TRUE]
          /\ UNCHANGED <<job, position, parentDone>>
    /\ UNCHANGED <<row, step, effect>>

(* SetStepState with the run context, then on to the next statement.       *)
SetStepState(s, value) ==
    /\ ~runDone[s]
    /\ step' = [step EXCEPT ![job[s]][position[s]] = value]
    /\ UNCHANGED <<row, effect>>

(* Mutant: the status write does not extend the lease.                     *)
SetStatusOnly(s, value) ==
    /\ ~runDone[s]
    /\ status' = [status EXCEPT ![job[s]] = value]
    /\ UNCHANGED <<lease_owner, lease_until, cancel_requested, step, effect>>

(* SetOperationStatus writes the status, extends the lease and appends a   *)
(* log line; it looks at neither the present status nor lease_owner.       *)
SetOperationStatus(s, value) ==
    /\ ~runDone[s]
    /\ status' = [status EXCEPT ![job[s]] = value]
    /\ lease_until' = [lease_until EXCEPT ![job[s]] = "valid"]
    /\ UNCHANGED <<lease_owner, cancel_requested, step, effect>>

StepLoop(s) ==
    /\ pc[s] = "loop"
    /\ IF runDone[s]
       THEN Leave(s, "stop", "stop") /\ UNCHANGED <<row, step, effect>>
       ELSE \/ SetStepState(s, "prechecking") /\ Proceed(s, "setPrechecking")
            \/ Fail(s) /\ UNCHANGED <<row, step, effect>>

SetPrechecking(s) ==
    /\ pc[s] = "setPrechecking"
    /\ \/ SetOperationStatus(s, "prechecking") /\ (Proceed(s, "resolve") \/ Fail(s))
       \/ Fail(s) /\ UNCHANGED <<row, step, effect>>

(* Every artifact input must exist, match its declaration and come from an *)
(* earlier step or a succeeded operation of the workspace.  A step without *)
(* inputs needs no context (likewise outputs, discovery and effects below).*)
ResolveArtifactInputs(s) ==
    /\ pc[s] = "resolve"
    /\ Proceed(s, "precheck") \/ Fail(s)
    /\ UNCHANGED <<row, step, effect>>

(* plugin.Precheck returns healthy, unhealthy or an error.                 *)
Precheck(s) ==
    /\ pc[s] = "precheck"
    /\ Proceed(s, "setRunningStep") \/ StopOrFail(s)
    /\ UNCHANGED <<row, step, effect>>

SetRunningStep(s) ==
    /\ pc[s] = "setRunningStep"
    /\ \/ SetStepState(s, "running") /\ Proceed(s, "setRunning")
       \/ Fail(s) /\ UNCHANGED <<row, step, effect>>

SetRunning(s) ==
    /\ pc[s] = "setRunning"
    /\ \/ SetOperationStatus(s, "running") /\ (Proceed(s, "reserve") \/ Fail(s))
       \/ Fail(s) /\ UNCHANGED <<row, step, effect>>

ReserveEffects(s) ==
    /\ pc[s] = "reserve"
    /\ (~runDone[s] /\ Proceed(s, "execute")) \/ Fail(s)
    /\ UNCHANGED <<row, step, effect>>

(* plugin.Execute, or plugin.Cleanup of a cleanup step, starts.            *)
Execute(s) ==
    /\ pc[s] = "execute"
    /\ effect' = [effect EXCEPT ![job[s]][position[s]] = "started"]
    /\ Proceed(s, "executing")
    /\ UNCHANGED <<row, step>>

(* It returns; an error leaves an unknown part of the step applied.        *)
ExecuteReturns(s) ==
    /\ pc[s] = "executing"
    /\ \/ /\ effect' = [effect EXCEPT ![job[s]][position[s]] = "applied"]
          /\ Proceed(s, "setVerifyingStep")
       \/ RollBack(s, TRUE) /\ UNCHANGED effect
    /\ UNCHANGED <<row, step>>

SetVerifyingStep(s) ==
    /\ pc[s] = "setVerifyingStep"
    /\ \/ SetStepState(s, "verifying") /\ Proceed(s, "setVerifying")
       \/ RollBack(s, FALSE) /\ UNCHANGED <<row, step, effect>>

SetVerifying(s) ==
    /\ pc[s] = "setVerifying"
    /\ \/ SetOperationStatus(s, "verifying") /\ (Proceed(s, "verify") \/ RollBack(s, FALSE))
       \/ RollBack(s, FALSE) /\ UNCHANGED <<row, step, effect>>

Verify(s) ==
    /\ pc[s] = "verify"
    /\ Proceed(s, "persist") \/ RollBack(s, TRUE)
    /\ UNCHANGED <<row, step, effect>>

(* The typed outputs are stored; a cleanup step has none.                  *)
PersistStepOutputs(s) ==
    /\ pc[s] = "persist"
    /\ \/ Proceed(s, IF job[s] \in Discovery THEN "capture" ELSE "effects")
       \/ job[s] \notin CleanupOps /\ RollBack(s, FALSE)
    /\ UNCHANGED <<row, step, effect>>

(* A discovery that cannot be captured fails the step without a rollback.  *)
CaptureDiscovery(s) ==
    /\ pc[s] = "capture"
    /\ Proceed(s, "effects") \/ Fail(s)
    /\ UNCHANGED <<row, step, effect>>

CompleteEffects(s) ==
    /\ pc[s] = "effects"
    /\ Proceed(s, "setSucceeded") \/ RollBack(s, FALSE)
    /\ UNCHANGED <<row, step, effect>>

(* Mutant: the loop runs one step past the plan.                           *)
SetSucceededOffByOne(s) ==
    /\ pc[s] = "setSucceeded"
    /\ SetStepState(s, "succeeded")
    /\ Goto(s, "loop") /\ position' = [position EXCEPT ![s] = @ + 1]
    /\ UNCHANGED <<job, runDone, parentDone, exit>>

SetSucceeded(s) ==
    /\ pc[s] = "setSucceeded"
    /\ \/ /\ SetStepState(s, "succeeded")
          /\ IF position[s] = NumSteps
             THEN Goto(s, "finish") /\ UNCHANGED position
             ELSE Goto(s, "loop") /\ position' = [position EXCEPT ![s] = @ + 1]
          /\ UNCHANGED <<job, runDone, parentDone, exit>>
       \/ RollBack(s, FALSE) /\ UNCHANGED <<row, step, effect>>

(* Worker.cleanup: up to ten minutes under a context of its own.           *)
Cleanup(s) ==
    /\ pc[s] = "cleanup"
    /\ IF job[s] \in Mutating
       THEN \E outcome \in {"undone", "residue"} :
              effect' = [effect EXCEPT ![job[s]][position[s]] = outcome]
       ELSE UNCHANGED effect
    /\ Proceed(s, IF exit[s] = "stop" THEN "stop" ELSE "failStep")
    /\ UNCHANGED <<row, step>>

(* Worker.stop reads cancel_requested under a fresh context.               *)
Stop(s) ==
    /\ pc[s] = "stop"
    /\ \/ cancel_requested[job[s]] /\ Proceed(s, "stopStep")
       \/ Leave(s, "failStep", "failFresh")
    /\ UNCHANGED <<row, step, effect>>

StopStep(s) ==
    /\ pc[s] = "stopStep"
    /\ \/ step' = [step EXCEPT ![job[s]][position[s]] = "canceled"]
       \/ UNCHANGED step
    /\ Proceed(s, "stopOp")
    /\ UNCHANGED <<row, effect>>

(* FailOperation with the given terminal status; like SetOperationStatus   *)
(* it checks nothing.                                                      *)
FailOperation(o, value) ==
    /\ status' = [status EXCEPT ![o] = value]
    /\ lease_owner' = [lease_owner EXCEPT ![o] = NoSlot]
    /\ lease_until' = [lease_until EXCEPT ![o] = "null"]
    /\ UNCHANGED cancel_requested

StopOperation(s) ==
    /\ pc[s] = "stopOp"
    /\ FailOperation(job[s], "canceled") \/ UNCHANGED row
    /\ Return(s)
    /\ UNCHANGED <<step, effect>>

(* The context failWithHealth writes with is dead: its writes are lost.    *)
FailContextDone(s) ==
    \/ exit[s] = "fail" /\ parentDone[s]
    \/ exit[s] = "failRun" /\ runDone[s]

FailStep(s) ==
    /\ pc[s] = "failStep"
    /\ \/ ~FailContextDone(s) /\ step' = [step EXCEPT ![job[s]][position[s]] = "failed"]
       \/ UNCHANGED step
    /\ Proceed(s, "failOp")
    /\ UNCHANGED <<row, effect>>

FailOp(s) ==
    /\ pc[s] = "failOp"
    /\ \/ ~FailContextDone(s) /\ FailOperation(job[s], "failed")
       \/ UNCHANGED row
    /\ Return(s)
    /\ UNCHANGED <<step, effect>>

(* The result artifact is stored and recorded under the run context.       *)
Finish(s) ==
    /\ pc[s] = "finish"
    /\ (~runDone[s] /\ Proceed(s, "complete")) \/ Leave(s, "failOp", "failRun")
    /\ UNCHANGED <<row, step, effect>>

(* CompleteOperation; its error is only logged.                            *)
CompleteOperation(s) ==
    /\ pc[s] = "complete"
    /\ \/ ~runDone[s] /\ FailOperation(job[s], "succeeded")
       \/ UNCHANGED row
    /\ Return(s)
    /\ UNCHANGED <<step, effect>>

-----------------------------------------------------------------------------
(* Processes stop and die.                                                 *)

Shutdown(s) ==
    /\ ~parentDone[s]
    /\ parentDone' = [parentDone EXCEPT ![s] = TRUE]
    /\ runDone' = [runDone EXCEPT ![s] = TRUE]
    /\ UNCHANGED <<row, step, effect, pc, job, position, exit>>

(* The process ends, orderly or not, and a new one takes its place.        *)
Restart(s) ==
    /\ pc[s] # "idle" \/ parentDone[s]
    /\ Goto(s, "idle")
    /\ job' = [job EXCEPT ![s] = NoOp]
    /\ exit' = [exit EXCEPT ![s] = "none"]
    /\ runDone' = [runDone EXCEPT ![s] = FALSE]
    /\ parentDone' = [parentDone EXCEPT ![s] = FALSE]
    /\ position' = [position EXCEPT ![s] = 1]
    /\ UNCHANGED <<row, step, effect>>

Work(s) ==
    \/ Process(s) \/ StepLoop(s) \/ SetPrechecking(s)
    \/ ResolveArtifactInputs(s) \/ Precheck(s)
    \/ SetRunningStep(s) \/ SetRunning(s) \/ ReserveEffects(s)
    \/ Execute(s) \/ ExecuteReturns(s) \/ SetVerifyingStep(s) \/ SetVerifying(s)
    \/ Verify(s) \/ PersistStepOutputs(s) \/ CaptureDiscovery(s)
    \/ CompleteEffects(s) \/ SetSucceeded(s) \/ Cleanup(s)
    \/ Stop(s) \/ StopStep(s) \/ StopOperation(s) \/ FailStep(s) \/ FailOp(s)
    \/ Finish(s) \/ CompleteOperation(s)

Next ==
    \/ \E o \in Ops :
         \/ \E accept \in BOOLEAN : QueueOperation(o, accept)
         \/ RequestCancel(o)
         \/ LeaseLapses(o)
    \/ FailExpiredOperations
    \/ \E s \in Slots :
         \/ \E o \in Ops : ClaimOperation(s, o)
         \/ Work(s) \/ RenewLease(s) \/ MonitorCancels(s)
         \/ Shutdown(s) \/ Restart(s)

Spec == Init /\ [][Next]_vars

(* A slot keeps running its goroutine (the plugin runtime bounds every     *)
(* call), unattended leases run out, and every live worker sweeps every    *)
(* five seconds.  Nothing makes a lapsing lease, a cancellation or a crash *)
(* happen.                                                                 *)
UnattendedLapse(o) == LeaseLapses(o) /\ ~ \E s \in Slots : Monitored(s, o)

Fairness ==
    /\ \A s \in Slots : WF_vars(Work(s))
    /\ \A o \in Ops : WF_vars(UnattendedLapse(o))
    /\ WF_vars(FailExpiredOperations)

FairSpec == Spec /\ Fairness

-----------------------------------------------------------------------------
(* Properties.                                                             *)

RowOK ==
    /\ status \in [Ops -> OperationStatus]
    /\ lease_owner \in [Ops -> Slots \cup {NoSlot}]
    /\ lease_until \in [Ops -> Lease]
    /\ cancel_requested \in [Ops -> BOOLEAN]

StepOK ==
    /\ step \in [Ops -> [Positions -> StepStatus]]
    /\ effect \in [Ops -> [Positions -> Effect]]

SlotOK ==
    /\ pc \in [Slots -> PCs]
    /\ job \in [Slots -> Ops \cup {NoOp}]
    /\ position \in [Slots -> Positions]
    /\ runDone \in [Slots -> BOOLEAN]
    /\ parentDone \in [Slots -> BOOLEAN]
    /\ exit \in [Slots -> Exit]

(* Every row and every slot has values of its type.                        *)
TypeOK == RowOK /\ StepOK /\ SlotOK

(* No two slots ever process the same operation, although leases lapse,    *)
(* workers restart and SetOperationStatus can bring an expired row back to *)
(* an active status: ClaimOperation takes only queued rows and no          *)
(* statement writes that status again.                                     *)
SingleRunner ==
    \A s, t \in Slots : job[s] # NoOp /\ job[s] = job[t] => s = t

(* A plugin executes a step at most once: FailExpiredOperations logs       *)
(* "Automatic retry was blocked because the step outcome is unknown", so   *)
(* no slot may come to execute a step whose effect may already exist.      *)
ExecutedAtMostOnce ==
    \A s \in Slots : pc[s] = "execute" => effect[job[s]][position[s]] = "none"

(* CompleteOperation logs "Operation completed after all health gates      *)
(* passed": a succeeded operation has every step row succeeded and every   *)
(* effect applied and not rolled back, even when its lease lapsed and the  *)
(* sweeper had marked the row and a step failed on the way.                *)
SucceededIsVerified ==
    \A o \in Ops : status[o] = "succeeded" =>
        \A i \in Positions : step[o][i] = "succeeded" /\ effect[o][i] = "applied"

(* The sweeper compares lease_until with now(), which is never true of     *)
(* NULL: an operation in an active status must have a lease, or no worker  *)
(* would ever settle it.                                                   *)
ActiveHasLease ==
    \A o \in Ops : status[o] \in Active => lease_until[o] # "null"

(* The unguarded status writes revise only a failure, and only while the   *)
(* slot that was thought dead still works on the row: success and          *)
(* cancellation are final, and so is a failure nobody works on.            *)
OnlyExpiryIsRevised ==
    [][\A o \in Ops : status[o] \in Terminal /\ status'[o] # status[o] =>
         status[o] = "failed" /\ \E s \in Slots : job[s] = o]_vars

(* Worker.cleanup runs before the failure of a mutating step is reported:  *)
(* when a slot (not the sweeper, which also clears the lease) marks a step *)
(* failed or canceled, its effect is absent, undone or known to be left    *)
(* behind, never merely applied or unknown.                                *)
RolledBackBeforeReport ==
    [][\A o \in Mutating \ CleanupOps : \A i \in Positions :
         /\ step[o][i] \notin {"failed", "canceled"}
         /\ step'[o][i] \in {"failed", "canceled"}
         /\ lease_until'[o] = lease_until[o]
         => effect[o][i] \notin {"started", "applied"}]_vars

(* Whatever is claimed settles for good: workers that crash, shut down or  *)
(* lose every write of their failure path leave the row to the sweeper,    *)
(* and a row revived by a late slot is settled again.                      *)
ClaimedSettles ==
    \A o \in Ops : status[o] \in Active ~> [](status[o] \in Terminal)

(***************************************************************************)
(* The row and the effects as those outside of the worker see them.        *)
(***************************************************************************)
Taken   == [o \in Ops |-> status[o] \notin {"ready", "queued"}]
Runner  == [o \in Ops |-> \E s \in Slots : job[s] = o]
Begun   == [o \in Ops |-> {i \in Positions : effect[o][i] # "none"}]
Outcome == [o \in Ops |-> IF status[o] \in Terminal THEN status[o] ELSE "none"]

Contract == INSTANCE OperationContract WITH
    taken <- Taken, runner <- Runner, begun <- Begun, outcome <- Outcome

(* The queue and its slots implement OperationContract: one runner at most *)
(* and never a second start, steps begun in order and once, success only   *)
(* after all of them, and no verdict but a presumed failure ever revised.  *)
HonoursContract == Contract!Spec
=============================================================================
