-------------------------- MODULE OperationsProofs --------------------------
(***************************************************************************)
(* Proofs about Operations, for any number of operations, slots and steps. *)
(***************************************************************************)
EXTENDS Operations, TLAPS

(* A slot has a job exactly when it is inside process().                   *)
Busy == \A s \in Slots : /\ job[s] = NoOp <=> pc[s] = "idle"
                         /\ pc[s] \in {"idle", "claimed"} => position[s] = 1

(* Whoever is being processed was claimed, and has not settled except by   *)
(* the sweeper.                                                            *)
Runs == \A s \in Slots : job[s] # NoOp => status[job[s]] \in Active \cup {"failed"}

(* Nothing was done for an operation that nobody has claimed.              *)
Fresh == \A o \in Ops : status[o] \in {"ready", "queued"} =>
            \A i \in Positions : effect[o][i] = "none"

BeforeExecution == {"claimed", "loop", "setPrechecking", "resolve", "precheck",
                    "setRunningStep", "setRunning", "reserve", "execute"}
AfterExecution  == {"setVerifyingStep", "setVerifying", "verify", "persist",
                    "capture", "effects", "setSucceeded"}

(* The steps before the slot's position have succeeded, the ones from the  *)
(* position on (after it, once the position is executed) are untouched.    *)
Done(o, i) == step[o][i] = "succeeded" /\ effect[o][i] = "applied"

ProgressAt(s) == \A i \in Positions :
    /\ pc[s] \in BeforeExecution =>
         /\ i < position[s] => Done(job[s], i)
         /\ i >= position[s] => effect[job[s]][i] = "none"
    /\ pc[s] = "executing" \/ pc[s] \in AfterExecution =>
         /\ i < position[s] => Done(job[s], i)
         /\ i > position[s] => effect[job[s]][i] = "none"
    /\ pc[s] \in AfterExecution /\ i = position[s] => effect[job[s]][i] = "applied"
    /\ pc[s] \in {"finish", "complete"} => Done(job[s], i)

Progress == \A s \in Slots : ProgressAt(s)

(* The inductive invariant.                                                *)
IndInv ==
    /\ TypeOK
    /\ Busy
    /\ Runs
    /\ SingleRunner
    /\ Fresh
    /\ ActiveHasLease
    /\ Progress
    /\ SucceededIsVerified

USE DEF row, slot, vars

(* How a slot moves.  Every way on keeps the slot's job and position,      *)
(* except the return from process() and the advance to the next step.      *)
Moves(s, label) ==
    /\ pc' = [pc EXCEPT ![s] = label]
    /\ UNCHANGED <<job, position>>

ErrorPCs == {"failStep", "stop", "cleanup"}

(* A slot that proceeds changes its own label and nothing else about its job. *)
LEMMA ProceedMoves ==
    ASSUME SlotOK, NEW s \in Slots, NEW label \in PCs, Proceed(s, label)
    PROVE  Moves(s, label) /\ SlotOK'
BY DEF Proceed, Moves, Goto, SlotOK

(* So does a slot that leaves the plan on one of its error paths, *)
LEMMA LeaveMoves ==
    ASSUME SlotOK, NEW s \in Slots, NEW label \in PCs, NEW mode \in Exit, Leave(s, label, mode)
    PROVE  Moves(s, label) /\ SlotOK'
BY DEF Leave, Moves, Goto, SlotOK

(* that fails the step it is at, *)
LEMMA FailMoves ==
    ASSUME SlotOK, NEW s \in Slots, Fail(s)
    PROVE  Moves(s, "failStep") /\ SlotOK'
BY LeaveMoves, "failStep" \in PCs, "fail" \in Exit DEF Fail, PCs, Exit

(* that stops for a cancellation or fails, *)
LEMMA StopOrFailMoves ==
    ASSUME SlotOK, NEW s \in Slots, StopOrFail(s)
    PROVE  SlotOK' /\ \E label \in ErrorPCs : Moves(s, label)
<1>1. CASE Fail(s)
  BY <1>1, FailMoves DEF ErrorPCs
<1>2. CASE Leave(s, "stop", "stop")
  BY <1>2, LeaveMoves, "stop" \in PCs, "stop" \in Exit DEF ErrorPCs, PCs, Exit
<1> QED
  BY <1>1, <1>2 DEF StopOrFail

(* or that rolls back what it did before it reports. *)
LEMMA RollBackMoves ==
    ASSUME SlotOK, NEW s \in Slots, NEW mayStop \in BOOLEAN, RollBack(s, mayStop)
    PROVE  SlotOK' /\ \E label \in ErrorPCs : Moves(s, label)
<1>1. CASE StopOrFail(s)
  BY <1>1, StopOrFailMoves
<1>2. CASE Leave(s, "cleanup", "fail") \/ Leave(s, "cleanup", "stop")
  BY <1>2, LeaveMoves, "cleanup" \in PCs, {"fail", "stop"} \subseteq Exit DEF ErrorPCs, PCs, Exit
<1> QED
  BY <1>1, <1>2 DEF RollBack

(* A slot that returns is idle again and has no job. *)
LEMMA ReturnMoves ==
    ASSUME SlotOK, NumSteps \in Nat \ {0}, NEW s \in Slots, Return(s)
    PROVE  /\ SlotOK'
           /\ pc' = [pc EXCEPT ![s] = "idle"]
           /\ job' = [job EXCEPT ![s] = NoOp]
           /\ position' = [position EXCEPT ![s] = 1]
BY DEF Return, Goto, SlotOK, PCs, Exit, Positions

-----------------------------------------------------------------------------
(* What a slot's step may do to the tables: it leaves the row alone or     *)
(* gives it an active status with a new lease, and writes only the steps   *)
(* and effects of its own job.                                             *)
RowKept(s) ==
    \/ UNCHANGED row
    \/ \E v \in Active : /\ status' = [status EXCEPT ![job[s]] = v]
                         /\ lease_until' = [lease_until EXCEPT ![job[s]] = "valid"]
                         /\ UNCHANGED <<lease_owner, cancel_requested>>

OthersKept(s) == \A o \in Ops \ {job[s]} : step'[o] = step[o] /\ effect'[o] = effect[o]

(* Such a step keeps the invariant if it leaves its own slot in order.     *)
LEMMA MoveKeeps ==
    ASSUME IndInv, NEW s \in Slots, NEW label \in PCs \ {"idle", "claimed"},
           pc[s] # "idle",
           pc' = [pc EXCEPT ![s] = label], job' = job,
           \A t \in Slots \ {s} : position'[t] = position[t],
           RowKept(s), OthersKept(s), StepOK', SlotOK', ProgressAt(s)'
    PROVE  IndInv'
<1> USE ConstantsAssumption DEF IndInv, TypeOK
<1>0. job[s] \in Ops /\ status[job[s]] \in Active \cup {"failed"}
  BY DEF Busy, Runs, SlotOK
<1>1. RowOK'
  BY <1>0 DEF RowKept, RowOK, Active, OperationStatus, Lease
<1>2. Busy'
  BY DEF Busy, SlotOK
<1>3. Runs'
  BY <1>0 DEF Runs, RowKept, RowOK, SlotOK
<1>4. SingleRunner'
  BY DEF SingleRunner
<1>5. Fresh'
  BY <1>0 DEF Fresh, RowKept, OthersKept, RowOK, Active
<1>6. ActiveHasLease'
  BY <1>0 DEF ActiveHasLease, RowKept, RowOK, Active
<1>7. SucceededIsVerified'
  BY <1>0 DEF SucceededIsVerified, RowKept, OthersKept, RowOK, Active
<1>8. ASSUME NEW t \in Slots \ {s} PROVE ProgressAt(t)'
  <2>1. CASE job[t] = NoOp
    BY <2>1 DEF Busy, ProgressAt, BeforeExecution, AfterExecution, SlotOK
  <2>2. CASE job[t] # NoOp
    <3>1. job[t] \in Ops \ {job[s]}
      BY <2>2 DEF SingleRunner, SlotOK
    <3>2. /\ step'[job[t]] = step[job[t]] /\ effect'[job[t]] = effect[job[t]]
          /\ pc'[t] = pc[t] /\ position'[t] = position[t] /\ job'[t] = job[t]
      BY <3>1 DEF OthersKept, SlotOK
    <3>3. ProgressAt(t)
      BY DEF Progress
    <3> QED
      BY <3>2, <3>3 DEF ProgressAt, Done
  <2> QED
    BY <2>1, <2>2
<1> QED
  BY <1>1, <1>2, <1>3, <1>4, <1>5, <1>6, <1>7, <1>8 DEF Progress

(* A slot that lets go of its job, with or without settling the row.       *)
LEMMA LetGoKeeps ==
    ASSUME IndInv, NEW s \in Slots,
           pc' = [pc EXCEPT ![s] = "idle"],
           job' = [job EXCEPT ![s] = NoOp],
           position' = [position EXCEPT ![s] = 1],
           SlotOK', UNCHANGED <<step, effect>>,
           \/ UNCHANGED row
           \/ \E v \in Terminal :
                 /\ job[s] \in Ops
                 /\ FailOperation(job[s], v)
                 /\ v = "succeeded" => \A i \in Positions : Done(job[s], i)
    PROVE  IndInv'
<1> USE ConstantsAssumption DEF IndInv, TypeOK, FailOperation
<1>1. RowOK' /\ StepOK'
  <2>1. StepOK'
    BY DEF StepOK
  <2>2. CASE UNCHANGED row
    BY <2>1, <2>2 DEF RowOK
  <2>3. ASSUME NEW v \in Terminal, job[s] \in Ops, FailOperation(job[s], v) PROVE RowOK'
    <3>1. v \in OperationStatus /\ "null" \in Lease
      BY DEF OperationStatus, Lease
    <3> QED
      BY <2>3, <3>1 DEF RowOK
  <2> QED
    BY <2>1, <2>2, <2>3
<1>2. Busy'
  <2> SUFFICES ASSUME NEW t \in Slots
               PROVE  /\ job'[t] = NoOp <=> pc'[t] = "idle"
                      /\ pc'[t] \in {"idle", "claimed"} => position'[t] = 1
    BY DEF Busy
  <2>1. CASE t = s
    BY <2>1 DEF SlotOK
  <2>2. CASE t # s
    BY <2>2 DEF SlotOK, Busy
  <2> QED
    BY <2>1, <2>2
<1>3. SingleRunner'
  BY DEF SingleRunner, SlotOK
<1>4. Runs'
  <2> SUFFICES ASSUME NEW t \in Slots, job'[t] # NoOp
               PROVE  status'[job'[t]] \in Active \cup {"failed"}
    BY DEF Runs
  <2>1. t # s /\ job'[t] = job[t]
    BY DEF SlotOK
  <2>2. job[t] # job[s]
    BY <2>1 DEF SingleRunner
  <2>3. status'[job[t]] = status[job[t]]
    BY <2>1, <2>2 DEF RowOK, SlotOK
  <2> QED
    BY <2>1, <2>3 DEF Runs
<1>5. Fresh'
  BY DEF Fresh, RowOK, Terminal
<1>6. ActiveHasLease'
  BY DEF ActiveHasLease, RowOK, Active, Terminal
<1>7. SucceededIsVerified'
  BY DEF SucceededIsVerified, RowOK, Done
<1>8. ASSUME NEW t \in Slots PROVE ProgressAt(t)'
  <2>1. CASE t = s
    BY <2>1 DEF ProgressAt, BeforeExecution, AfterExecution, SlotOK
  <2>2. CASE t # s
    <3>1. pc'[t] = pc[t] /\ position'[t] = position[t] /\ job'[t] = job[t]
      BY <2>2 DEF SlotOK
    <3> QED
      BY <3>1 DEF Progress, ProgressAt, Done
  <2> QED
    BY <2>1, <2>2
<1> QED
  BY <1>1, <1>2, <1>3, <1>4, <1>5, <1>6, <1>7, <1>8 DEF Progress

(* An error path keeps the invariant: it promises nothing about progress.  *)
LEMMA ErrorKeeps ==
    ASSUME IndInv, NEW s \in Slots, pc[s] # "idle",
           NEW label \in ErrorPCs \cup {"stopStep", "stopOp", "failOp"},
           Moves(s, label), RowKept(s), OthersKept(s), StepOK', SlotOK'
    PROVE  IndInv'
<1>1. pc'[s] = label
  BY DEF IndInv, TypeOK, SlotOK, Moves
<1>2. ProgressAt(s)'
  BY <1>1 DEF ProgressAt, ErrorPCs, BeforeExecution, AfterExecution
<1>3. label \in PCs \ {"idle", "claimed"}
  BY DEF ErrorPCs, PCs
<1> QED
  BY <1>2, <1>3, MoveKeeps DEF Moves

-----------------------------------------------------------------------------
(* One step per statement of process().                                    *)

(* A move that writes at most the row, to a place whose promise the old    *)
(* one implies.                                                            *)
LEMMA SilentKeeps ==
    ASSUME IndInv, NEW s \in Slots, pc[s] # "idle",
           NEW label \in PCs \ {"idle", "claimed"}, Moves(s, label), SlotOK',
           RowKept(s), UNCHANGED <<step, effect>>,
           \/ pc[s] \in BeforeExecution /\ label \in BeforeExecution
           \/ pc[s] \in AfterExecution /\ label \in AfterExecution
           \/ pc[s] = "finish" /\ label = "complete"
           \/ label \in ErrorPCs \cup {"stopStep", "stopOp", "failOp"}
    PROVE  IndInv'
<1>1. OthersKept(s) /\ StepOK'
  BY DEF OthersKept, IndInv, TypeOK, StepOK
<1>2. CASE label \in ErrorPCs \cup {"stopStep", "stopOp", "failOp"}
  BY <1>1, <1>2, ErrorKeeps
<1>3. CASE label \notin ErrorPCs \cup {"stopStep", "stopOp", "failOp"}
  <2>1. pc'[s] = label /\ job'[s] = job[s] /\ position'[s] = position[s]
    BY DEF Moves, IndInv, TypeOK, SlotOK
  <2>2. ProgressAt(s)
    BY DEF IndInv, Progress
  <2>3. ProgressAt(s)'
    BY <1>3, <2>1, <2>2 DEF ProgressAt, Done, BeforeExecution, AfterExecution
  <2> QED
    BY <1>1, <2>3, MoveKeeps DEF Moves
<1> QED
  BY <1>2, <1>3

(* A step that fails keeps the invariant as long as it writes only its own row; *)
LEMMA FailKeeps ==
    ASSUME IndInv, NEW s \in Slots, pc[s] # "idle", Fail(s), RowKept(s), UNCHANGED <<step, effect>>
    PROVE  IndInv'
BY FailMoves, ErrorKeeps DEF IndInv, TypeOK, StepOK, OthersKept, ErrorPCs

(* so does one that stops for a cancellation, *)
LEMMA StopOrFailKeeps ==
    ASSUME IndInv, NEW s \in Slots, pc[s] # "idle", StopOrFail(s), RowKept(s), UNCHANGED <<step, effect>>
    PROVE  IndInv'
BY StopOrFailMoves, ErrorKeeps DEF IndInv, TypeOK, StepOK, OthersKept, ErrorPCs

(* and one that rolls back. *)
LEMMA RollBackKeeps ==
    ASSUME IndInv, NEW s \in Slots, pc[s] # "idle", NEW mayStop \in BOOLEAN,
           RollBack(s, mayStop), RowKept(s), UNCHANGED <<step, effect>>
    PROVE  IndInv'
BY RollBackMoves, ErrorKeeps DEF IndInv, TypeOK, StepOK, OthersKept, ErrorPCs

(* SetStepState of the slot's own position, before or after the execution. *)
LEMMA StepWriteKeeps ==
    ASSUME IndInv, NEW s \in Slots, NEW v \in StepStatus, SetStepState(s, v),
           NEW label \in PCs, Proceed(s, label),
           \/ pc[s] \in BeforeExecution /\ label \in BeforeExecution \ {"claimed"}
           \/ pc[s] \in AfterExecution /\ label \in AfterExecution
    PROVE  IndInv'
<1> USE DEF IndInv, TypeOK
<1>1. Moves(s, label) /\ SlotOK'
  BY ProceedMoves
<1>2. pc[s] # "idle" /\ label \notin {"idle", "claimed"}
  BY DEF BeforeExecution, AfterExecution
<1>3. job[s] \in Ops /\ position[s] \in Positions
  BY <1>2 DEF Busy, SlotOK
<1>4. StepOK' /\ OthersKept(s) /\ RowKept(s)
  BY <1>3 DEF SetStepState, StepOK, OthersKept, RowKept
<1>5. ASSUME NEW i \in Positions, i # position[s] PROVE step'[job[s]][i] = step[job[s]][i]
  BY <1>3, <1>5 DEF SetStepState, StepOK
<1>6. pc'[s] = label /\ job'[s] = job[s] /\ position'[s] = position[s] /\ effect' = effect
  BY <1>1 DEF Moves, SlotOK, SetStepState
<1>7. ProgressAt(s)
  BY DEF Progress
<1>8. ProgressAt(s)'
  <2> SUFFICES ASSUME NEW i \in Positions
               PROVE  /\ i < position[s] => Done(job[s], i)'
                      /\ label \in BeforeExecution /\ i >= position[s] => effect[job[s]][i] = "none"
                      /\ label \in AfterExecution /\ i > position[s] => effect[job[s]][i] = "none"
                      /\ label \in AfterExecution /\ i = position[s] => effect[job[s]][i] = "applied"
    BY <1>6 DEF ProgressAt, BeforeExecution, AfterExecution
  <2>1. i < position[s] => Done(job[s], i) /\ i # position[s]
    BY <1>7, <1>3, ConstantsAssumption DEF ProgressAt, Positions
  <2>2. i < position[s] => Done(job[s], i)'
    BY <2>1, <1>5, <1>6 DEF Done
  <2> QED
    BY <1>7, <2>2 DEF ProgressAt, BeforeExecution, AfterExecution
<1> QED
  BY <1>1, <1>2, <1>4, <1>8, MoveKeeps DEF Moves

(* SetOperationStatus, and then on to the next statement.                  *)
LEMMA StatusWriteKept ==
    ASSUME IndInv, NEW s \in Slots, NEW v \in Active, SetOperationStatus(s, v)
    PROVE  RowKept(s) /\ UNCHANGED <<step, effect>>
BY DEF SetOperationStatus, RowKept

(* Proceeding keeps the invariant unless it crosses the execution of the step. *)
LEMMA ProceedKeeps ==
    ASSUME IndInv, NEW s \in Slots, NEW label \in PCs, Proceed(s, label),
           RowKept(s), UNCHANGED <<step, effect>>,
           \/ pc[s] \in BeforeExecution /\ label \in BeforeExecution \ {"claimed"}
           \/ pc[s] \in AfterExecution /\ label \in AfterExecution
           \/ pc[s] = "finish" /\ label = "complete"
           \/ pc[s] # "idle" /\ label \in ErrorPCs \cup {"stopStep", "stopOp", "failOp"}
    PROVE  IndInv'
<1>1. Moves(s, label) /\ SlotOK'
  BY ProceedMoves DEF IndInv, TypeOK
<1>2. pc[s] # "idle" /\ label \notin {"idle", "claimed"}
  BY DEF BeforeExecution, AfterExecution, ErrorPCs
<1> QED
  BY <1>1, <1>2, SilentKeeps

(* Every statement of process() keeps the invariant.                       *)
LEMMA WorkKeeps ==
    ASSUME IndInv, NEW s \in Slots, Work(s)
    PROVE  IndInv'
<1> USE DEF BeforeExecution, AfterExecution, ErrorPCs
<1>0. pc[s] # "idle" => job[s] \in Ops /\ position[s] \in Positions
  BY DEF IndInv, TypeOK, Busy, SlotOK
<1>a. UNCHANGED row => RowKept(s)
  BY DEF RowKept
<1>b. /\ SlotOK /\ StepOK /\ ProgressAt(s)
      /\ \A x \in {"loop", "setPrechecking", "resolve", "precheck", "setRunningStep",
                    "setRunning", "reserve", "execute", "executing", "setVerifyingStep",
                    "setVerifying", "verify", "persist", "capture", "effects",
                    "setSucceeded", "finish", "complete", "stop", "stopStep", "stopOp",
                    "failStep", "failOp", "cleanup"} : x \in PCs /\ x # "idle"
  BY DEF IndInv, TypeOK, Progress, PCs
<1>1. CASE Process(s)
  <2>1. CASE Proceed(s, "loop")
    BY <1>1, <2>1, <1>a, <1>b, ProceedKeeps DEF Process
  <2>2. CASE ~Proceed(s, "loop")
    <3>1. Moves(s, "failOp") /\ SlotOK' /\ UNCHANGED <<row, step, effect>>
      BY <1>1, <2>2, <1>b, "fail" \in Exit, ZenonT(60) DEF Process, Goto, Moves, SlotOK, Exit
    <3> QED
      BY <1>1, <3>1, <1>a, <1>b, SilentKeeps DEF Process
  <2> QED
    BY <2>1, <2>2
<1>2. CASE StepLoop(s)
  <2>1. CASE SetStepState(s, "prechecking") /\ Proceed(s, "setPrechecking")
    BY <1>2, <2>1, <1>b, StepWriteKeeps DEF StepLoop, StepStatus, Active
  <2>2. CASE Fail(s) /\ UNCHANGED <<row, step, effect>>
    BY <1>2, <2>2, <1>a, FailKeeps DEF StepLoop
  <2>3. CASE Leave(s, "stop", "stop") /\ UNCHANGED <<row, step, effect>>
    BY <1>2, <2>3, <1>a, <1>b, LeaveMoves, SilentKeeps, "stop" \in Exit DEF StepLoop, Exit
  <2> QED
    BY <1>2, <2>1, <2>2, <2>3 DEF StepLoop
<1>3. CASE SetPrechecking(s)
  <2>1. CASE SetOperationStatus(s, "prechecking") /\ Proceed(s, "resolve")
    BY <1>3, <2>1, <1>b, StatusWriteKept, ProceedKeeps DEF SetPrechecking, Active
  <2>2. CASE SetOperationStatus(s, "prechecking") /\ Fail(s)
    BY <1>3, <2>2, StatusWriteKept, FailKeeps DEF SetPrechecking, Active
  <2>3. CASE Fail(s) /\ UNCHANGED <<row, step, effect>>
    BY <1>3, <2>3, <1>a, FailKeeps DEF SetPrechecking
  <2> QED
    BY <1>3, <2>1, <2>2, <2>3 DEF SetPrechecking
<1>4. CASE ResolveArtifactInputs(s)
  <2>1. CASE Proceed(s, "precheck")
    BY <1>4, <2>1, <1>a, <1>b, ProceedKeeps DEF ResolveArtifactInputs
  <2>2. CASE Fail(s)
    BY <1>4, <2>2, <1>a, FailKeeps DEF ResolveArtifactInputs
  <2> QED
    BY <1>4, <2>1, <2>2 DEF ResolveArtifactInputs
<1>5. CASE Precheck(s)
  <2>1. CASE Proceed(s, "setRunningStep")
    BY <1>5, <2>1, <1>a, <1>b, ProceedKeeps DEF Precheck
  <2>2. CASE StopOrFail(s)
    BY <1>5, <2>2, <1>a, StopOrFailKeeps DEF Precheck
  <2> QED
    BY <1>5, <2>1, <2>2 DEF Precheck
<1>6. CASE SetRunningStep(s)
  <2>1. CASE SetStepState(s, "running") /\ Proceed(s, "setRunning")
    BY <1>6, <2>1, <1>b, StepWriteKeeps DEF SetRunningStep, StepStatus, Active
  <2>2. CASE Fail(s) /\ UNCHANGED <<row, step, effect>>
    BY <1>6, <2>2, <1>a, FailKeeps DEF SetRunningStep
  <2> QED
    BY <1>6, <2>1, <2>2 DEF SetRunningStep
<1>7. CASE SetRunning(s)
  <2>1. CASE SetOperationStatus(s, "running") /\ Proceed(s, "reserve")
    BY <1>7, <2>1, <1>b, StatusWriteKept, ProceedKeeps DEF SetRunning, Active
  <2>2. CASE SetOperationStatus(s, "running") /\ Fail(s)
    BY <1>7, <2>2, StatusWriteKept, FailKeeps DEF SetRunning, Active
  <2>3. CASE Fail(s) /\ UNCHANGED <<row, step, effect>>
    BY <1>7, <2>3, <1>a, FailKeeps DEF SetRunning
  <2> QED
    BY <1>7, <2>1, <2>2, <2>3 DEF SetRunning
<1>8. CASE ReserveEffects(s)
  <2>1. CASE Proceed(s, "execute")
    BY <1>8, <2>1, <1>a, <1>b, ProceedKeeps DEF ReserveEffects
  <2>2. CASE Fail(s)
    BY <1>8, <2>2, <1>a, FailKeeps DEF ReserveEffects
  <2> QED
    BY <1>8, <2>1, <2>2 DEF ReserveEffects
<1>9. CASE Execute(s)
  <2>1. pc[s] # "idle" /\ Moves(s, "executing") /\ SlotOK'
    BY <1>9, <1>b, ProceedMoves DEF Execute
  <2>2. StepOK' /\ OthersKept(s) /\ RowKept(s)
    BY <1>9, <1>0, <1>a, <1>b, <2>1, "started" \in Effect DEF Execute, StepOK, OthersKept, Effect
  <2>3. /\ pc'[s] = "executing" /\ job'[s] = job[s] /\ position'[s] = position[s]
        /\ step' = step
        /\ \A i \in Positions : i # position[s] => effect'[job[s]][i] = effect[job[s]][i]
    BY <1>9, <1>0, <1>b, <2>1 DEF Execute, Moves, SlotOK, StepOK
  <2>4. ProgressAt(s)'
    BY <1>9, <1>0, <1>b, <2>3, ConstantsAssumption DEF Execute, ProgressAt, Done, Positions
  <2> QED
    BY <1>b, <2>1, <2>2, <2>4, MoveKeeps DEF Moves
<1>10. CASE ExecuteReturns(s)
  <2>1. CASE RollBack(s, TRUE) /\ UNCHANGED effect
    BY <1>10, <2>1, <1>a, RollBackKeeps DEF ExecuteReturns
  <2>2. CASE /\ effect' = [effect EXCEPT ![job[s]][position[s]] = "applied"]
             /\ Proceed(s, "setVerifyingStep")
    <3>1. pc[s] # "idle" /\ Moves(s, "setVerifyingStep") /\ SlotOK'
      BY <1>10, <2>2, <1>b, ProceedMoves DEF ExecuteReturns
    <3>2. StepOK' /\ OthersKept(s) /\ RowKept(s)
      BY <1>10, <2>2, <1>0, <1>a, <1>b, <3>1, "applied" \in Effect
      DEF ExecuteReturns, StepOK, OthersKept, Effect
    <3>3. /\ pc'[s] = "setVerifyingStep" /\ job'[s] = job[s] /\ position'[s] = position[s]
          /\ step' = step /\ effect'[job[s]][position[s]] = "applied"
          /\ \A i \in Positions : i # position[s] => effect'[job[s]][i] = effect[job[s]][i]
      BY <1>10, <2>2, <1>0, <1>b, <3>1 DEF ExecuteReturns, Moves, SlotOK, StepOK
    <3>4. ProgressAt(s)'
      BY <1>10, <1>0, <1>b, <3>3, ConstantsAssumption DEF ExecuteReturns, ProgressAt, Done, Positions
    <3> QED
      BY <1>b, <3>1, <3>2, <3>4, MoveKeeps DEF Moves
  <2> QED
    BY <1>10, <2>1, <2>2 DEF ExecuteReturns
<1>11. CASE SetVerifyingStep(s)
  <2>1. CASE SetStepState(s, "verifying") /\ Proceed(s, "setVerifying")
    BY <1>11, <2>1, <1>b, StepWriteKeeps DEF SetVerifyingStep, StepStatus, Active
  <2>2. CASE RollBack(s, FALSE) /\ UNCHANGED <<row, step, effect>>
    BY <1>11, <2>2, <1>a, RollBackKeeps DEF SetVerifyingStep
  <2> QED
    BY <1>11, <2>1, <2>2 DEF SetVerifyingStep
<1>12. CASE SetVerifying(s)
  <2>1. CASE SetOperationStatus(s, "verifying") /\ Proceed(s, "verify")
    BY <1>12, <2>1, <1>b, StatusWriteKept, ProceedKeeps DEF SetVerifying, Active
  <2>2. CASE SetOperationStatus(s, "verifying") /\ RollBack(s, FALSE)
    BY <1>12, <2>2, StatusWriteKept, RollBackKeeps DEF SetVerifying, Active
  <2>3. CASE RollBack(s, FALSE) /\ UNCHANGED <<row, step, effect>>
    BY <1>12, <2>3, <1>a, RollBackKeeps DEF SetVerifying
  <2> QED
    BY <1>12, <2>1, <2>2, <2>3 DEF SetVerifying
<1>13. CASE Verify(s)
  <2>1. CASE Proceed(s, "persist")
    BY <1>13, <2>1, <1>a, <1>b, ProceedKeeps DEF Verify
  <2>2. CASE RollBack(s, TRUE)
    BY <1>13, <2>2, <1>a, RollBackKeeps DEF Verify
  <2> QED
    BY <1>13, <2>1, <2>2 DEF Verify
<1>14. CASE PersistStepOutputs(s)
  <2>1. CASE Proceed(s, "capture")
    BY <1>14, <2>1, <1>a, <1>b, ProceedKeeps DEF PersistStepOutputs
  <2>2. CASE Proceed(s, "effects")
    BY <1>14, <2>2, <1>a, <1>b, ProceedKeeps DEF PersistStepOutputs
  <2>3. CASE RollBack(s, FALSE)
    BY <1>14, <2>3, <1>a, RollBackKeeps DEF PersistStepOutputs
  <2> QED
    BY <1>14, <2>1, <2>2, <2>3 DEF PersistStepOutputs
<1>15. CASE CaptureDiscovery(s)
  <2>1. CASE Proceed(s, "effects")
    BY <1>15, <2>1, <1>a, <1>b, ProceedKeeps DEF CaptureDiscovery
  <2>2. CASE Fail(s)
    BY <1>15, <2>2, <1>a, FailKeeps DEF CaptureDiscovery
  <2> QED
    BY <1>15, <2>1, <2>2 DEF CaptureDiscovery
<1>16. CASE CompleteEffects(s)
  <2>1. CASE Proceed(s, "setSucceeded")
    BY <1>16, <2>1, <1>a, <1>b, ProceedKeeps DEF CompleteEffects
  <2>2. CASE RollBack(s, FALSE)
    BY <1>16, <2>2, <1>a, RollBackKeeps DEF CompleteEffects
  <2> QED
    BY <1>16, <2>1, <2>2 DEF CompleteEffects
<1>17. CASE SetSucceeded(s)
  <2>1. CASE RollBack(s, FALSE) /\ UNCHANGED <<row, step, effect>>
    BY <1>17, <2>1, <1>a, RollBackKeeps DEF SetSucceeded
  <2>2. CASE SetStepState(s, "succeeded") /\ UNCHANGED <<job, runDone, parentDone, exit>>
             /\ \/ /\ position[s] = NumSteps /\ Goto(s, "finish") /\ UNCHANGED position
                \/ /\ position[s] # NumSteps /\ Goto(s, "loop")
                   /\ position' = [position EXCEPT ![s] = @ + 1]
    <3>1. pc[s] # "idle" /\ pc[s] = "setSucceeded"
      BY <1>17 DEF SetSucceeded
    <3>2. StepOK' /\ OthersKept(s) /\ RowKept(s)
      BY <2>2, <1>0, <1>a, <1>b, <3>1, "succeeded" \in StepStatus
      DEF SetStepState, StepOK, OthersKept, StepStatus, Terminal
    <3>3. /\ job'[s] = job[s] /\ effect' = effect
          /\ step'[job[s]][position[s]] = "succeeded"
          /\ \A i \in Positions : i # position[s] => step'[job[s]][i] = step[job[s]][i]
      BY <2>2, <1>0, <1>b, <3>1 DEF SetStepState, StepOK
    <3>4. \A i \in Positions : i <= position[s] => Done(job[s], i)'
      BY <1>0, <1>b, <3>1, <3>3, ConstantsAssumption DEF ProgressAt, Done, Positions
    <3>5. CASE position[s] = NumSteps /\ Goto(s, "finish") /\ UNCHANGED position
      <4>1. pc' = [pc EXCEPT ![s] = "finish"] /\ pc'[s] = "finish" /\ SlotOK'
        BY <2>2, <3>5, <1>b DEF Goto, SlotOK
      <4>2. ProgressAt(s)'
        BY <3>3, <3>4, <3>5, <4>1, ConstantsAssumption DEF ProgressAt, Positions
      <4> QED
        BY <1>b, <2>2, <3>1, <3>2, <3>5, <4>1, <4>2, MoveKeeps
    <3>6. CASE /\ position[s] # NumSteps /\ Goto(s, "loop")
               /\ position' = [position EXCEPT ![s] = @ + 1]
      <4>1. position[s] + 1 \in Positions
        BY <1>0, <3>1, <3>6, ConstantsAssumption DEF Positions
      <4>2. /\ pc' = [pc EXCEPT ![s] = "loop"] /\ pc'[s] = "loop" /\ SlotOK'
            /\ position'[s] = position[s] + 1
            /\ \A t \in Slots \ {s} : position'[t] = position[t]
        BY <2>2, <3>6, <1>b, <4>1 DEF Goto, SlotOK
      <4>3. ProgressAt(s)'
        BY <1>0, <1>b, <3>1, <3>3, <3>4, <4>2, ConstantsAssumption DEF ProgressAt, Positions
      <4> QED
        BY <1>b, <2>2, <3>1, <3>2, <4>2, <4>3, MoveKeeps
    <3> QED
      BY <2>2, <3>5, <3>6
  <2> QED
    BY <1>17, <2>1, <2>2 DEF SetSucceeded
<1>18. CASE Cleanup(s)
  <2>1. StepOK' /\ OthersKept(s) /\ RowKept(s)
    <3>1. job[s] \in Ops /\ position[s] \in Positions /\ UNCHANGED <<row, step>>
      BY <1>18, <1>0 DEF Cleanup
    <3>2. CASE UNCHANGED effect
      BY <3>1, <3>2, <1>a, <1>b DEF StepOK, OthersKept
    <3>3. ASSUME NEW outcome \in Effect,
                 effect' = [effect EXCEPT ![job[s]][position[s]] = outcome]
          PROVE  StepOK' /\ OthersKept(s) /\ RowKept(s)
      BY <3>1, <3>3, <1>a, <1>b DEF StepOK, OthersKept
    <3> QED
      BY <1>18, <3>2, <3>3, {"undone", "residue"} \subseteq Effect DEF Cleanup, Effect
  <2>2. \E label \in {"stop", "failStep"} : Proceed(s, label)
    BY <1>18 DEF Cleanup
  <2> QED
    BY <1>18, <1>b, <2>1, <2>2, ProceedMoves, ErrorKeeps DEF Cleanup
<1>19. CASE Stop(s)
  <2>1. CASE Proceed(s, "stopStep")
    BY <1>19, <2>1, <1>a, <1>b, ProceedKeeps DEF Stop
  <2>2. CASE Leave(s, "failStep", "failFresh")
    BY <1>19, <2>2, <1>a, <1>b, LeaveMoves, SilentKeeps, "failFresh" \in Exit DEF Stop, Exit
  <2> QED
    BY <1>19, <2>1, <2>2 DEF Stop
<1>20. CASE StopStep(s)
  <2>1. StepOK' /\ OthersKept(s) /\ RowKept(s)
    BY <1>20, <1>0, <1>a, <1>b, "canceled" \in StepStatus
    DEF StopStep, StepOK, OthersKept, StepStatus, Terminal
  <2> QED
    BY <1>20, <1>b, <2>1, ProceedMoves, ErrorKeeps DEF StopStep
<1>21. CASE FailStep(s)
  <2>1. StepOK' /\ OthersKept(s) /\ RowKept(s)
    <3>1. /\ job[s] \in Ops /\ position[s] \in Positions
          /\ UNCHANGED <<row, effect>>
          /\ step' = step \/ step' = [step EXCEPT ![job[s]][position[s]] = "failed"]
      BY <1>21, <1>0 DEF FailStep
    <3>2. CASE step' = step
      BY <3>1, <3>2, <1>a, <1>b DEF StepOK, OthersKept
    <3>3. CASE step' = [step EXCEPT ![job[s]][position[s]] = "failed"]
      <4>1. "failed" \in StepStatus
        BY DEF StepStatus, Terminal
      <4> QED
        BY <3>1, <3>3, <4>1, <1>a, <1>b DEF StepOK, OthersKept
    <3> QED
      BY <3>1, <3>2, <3>3
  <2> QED
    BY <1>21, <1>b, <2>1, ProceedMoves, ErrorKeeps DEF FailStep
<1>22. CASE StopOperation(s)
  BY <1>22, <1>0, <1>b, ReturnMoves, LetGoKeeps, ConstantsAssumption, "canceled" \in Terminal
  DEF StopOperation, Terminal
<1>23. CASE FailOp(s)
  BY <1>23, <1>0, <1>b, ReturnMoves, LetGoKeeps, ConstantsAssumption, "failed" \in Terminal
  DEF FailOp, Terminal
<1>24. CASE Finish(s)
  <2>1. CASE Proceed(s, "complete")
    BY <1>24, <2>1, <1>a, <1>b, ProceedKeeps DEF Finish
  <2>2. CASE Leave(s, "failOp", "failRun")
    BY <1>24, <2>2, <1>a, <1>b, LeaveMoves, SilentKeeps, "failRun" \in Exit DEF Finish, Exit
  <2> QED
    BY <1>24, <2>1, <2>2 DEF Finish
<1>25. CASE CompleteOperation(s)
  <2>1. \A i \in Positions : Done(job[s], i)
    BY <1>25, <1>b DEF CompleteOperation, ProgressAt
  <2> QED
    BY <1>25, <1>0, <1>b, <2>1, ReturnMoves, LetGoKeeps, ConstantsAssumption, "succeeded" \in Terminal
    DEF CompleteOperation, Terminal
<1> QED
  BY <1>1, <1>2, <1>3, <1>4, <1>5, <1>6, <1>7, <1>8, <1>9, <1>10, <1>11,
     <1>12, <1>13, <1>14, <1>15, <1>16, <1>17, <1>18, <1>19, <1>20, <1>21,
     <1>22, <1>23, <1>24, <1>25 DEF Work

-----------------------------------------------------------------------------
(* The other actions: they never touch what a slot has done so far.        *)

(* The invariant holds of an empty queue with idle slots. *)
LEMMA InitInv == Init => IndInv
<1> SUFFICES ASSUME Init PROVE IndInv
  OBVIOUS
<1> USE ConstantsAssumption DEF Init
<1>1. RowOK /\ StepOK /\ SlotOK
  BY DEF RowOK, StepOK, SlotOK, OperationStatus, Lease, StepStatus, Effect, PCs, Exit, Positions
<1>2. Busy /\ Runs /\ SingleRunner /\ Fresh
  BY DEF Busy, Runs, SingleRunner, Fresh
<1>3. ActiveHasLease /\ SucceededIsVerified
  BY DEF ActiveHasLease, SucceededIsVerified, Active
<1>4. Progress
  BY DEF Progress, ProgressAt, BeforeExecution, AfterExecution
<1> QED
  BY <1>1, <1>2, <1>3, <1>4 DEF IndInv, TypeOK

(* A write to the rows that leaves every slot, step and effect alone.      *)
LEMMA RowWriteKeeps ==
    ASSUME IndInv, RowOK', UNCHANGED <<step, effect, pc, job, position>>, SlotOK',
           \A o \in Ops :
              /\ status'[o] \in {"ready", "queued"} => status[o] \in {"ready", "queued"}
              /\ status'[o] = "succeeded" => status[o] = "succeeded"
              /\ status'[o] \in Active => lease_until'[o] # "null"
              /\ status[o] \in Active \cup {"failed"} => status'[o] \in Active \cup {"failed"}
    PROVE  IndInv'
<1> USE DEF IndInv, TypeOK
<1>1. StepOK' /\ Busy' /\ SingleRunner'
  BY DEF StepOK, Busy, SingleRunner
<1>2. Runs'
  BY DEF Runs, SlotOK
<1>3. Fresh' /\ ActiveHasLease' /\ SucceededIsVerified'
  BY DEF Fresh, ActiveHasLease, SucceededIsVerified
<1>4. Progress'
  BY DEF Progress, ProgressAt, Done
<1> QED
  BY <1>1, <1>2, <1>3, <1>4

(* Queueing an operation, with or without the user's acceptance of its warnings. *)
LEMMA QueueKeeps ==
    ASSUME IndInv, NEW o \in Ops, NEW accept \in BOOLEAN, QueueOperation(o, accept)
    PROVE  IndInv'
<1>1. RowOK'
  BY DEF IndInv, TypeOK, RowOK, QueueOperation, OperationStatus
<1> QED
  BY <1>1, RowWriteKeeps DEF IndInv, TypeOK, RowOK, SlotOK, QueueOperation, ActiveHasLease, Active

(* A user's cancellation. *)
LEMMA CancelKeeps ==
    ASSUME IndInv, NEW o \in Ops, RequestCancel(o)
    PROVE  IndInv'
<1>1. RowOK'
  BY DEF IndInv, TypeOK, RowOK, RequestCancel, OperationStatus, Terminal
<1> QED
  BY <1>1, RowWriteKeeps DEF IndInv, TypeOK, RowOK, SlotOK, RequestCancel, ActiveHasLease, Active

(* The end of a lease that was not renewed. *)
LEMMA LapseKeeps ==
    ASSUME IndInv, NEW o \in Ops, LeaseLapses(o)
    PROVE  IndInv'
<1>1. RowOK'
  BY DEF IndInv, TypeOK, RowOK, LeaseLapses, Lease
<1> QED
  BY <1>1, RowWriteKeeps DEF IndInv, TypeOK, RowOK, SlotOK, LeaseLapses, ActiveHasLease

(* A renewal by the monitor of a slot. *)
LEMMA RenewKeeps ==
    ASSUME IndInv, NEW s \in Slots, RenewLease(s)
    PROVE  IndInv'
<1>1. RowOK' /\ job[s] \in Ops
  BY DEF IndInv, TypeOK, RowOK, SlotOK, RenewLease, Lease
<1> QED
  BY <1>1, RowWriteKeeps DEF IndInv, TypeOK, RowOK, SlotOK, RenewLease, ActiveHasLease

(* The end of a slot's context, by a cancellation or a shutdown of the worker. *)
LEMMA ContextKeeps ==
    ASSUME IndInv, NEW s \in Slots, MonitorCancels(s) \/ Shutdown(s)
    PROVE  IndInv'
<1>1. RowOK' /\ SlotOK' /\ UNCHANGED <<row, step, effect, pc, job, position>>
  BY DEF IndInv, TypeOK, RowOK, SlotOK, MonitorCancels, Shutdown
<1> QED
  BY <1>1, RowWriteKeeps DEF IndInv, ActiveHasLease

(* A crash of a slot's process: its job is forgotten, the row is not. *)
LEMMA RestartKeeps ==
    ASSUME IndInv, NEW s \in Slots, Restart(s)
    PROVE  IndInv'
<1>1. SlotOK'
  BY ConstantsAssumption DEF IndInv, TypeOK, SlotOK, Restart, Goto, PCs, Exit, Positions
<1> QED
  BY <1>1, LetGoKeeps DEF Restart, Goto

(* The sweeper changes step rows, but never a succeeded one.               *)
LEMMA SweepKeeps ==
    ASSUME IndInv, FailExpiredOperations
    PROVE  IndInv'
<1> USE DEF IndInv, TypeOK, FailExpiredOperations
<1>1. RowOK'
  BY DEF RowOK, OperationStatus, Terminal, Lease
<1>2. StepOK'
  <2>1. \A o \in Ops : \A i \in Positions :
          (IF o \in Expired /\ step[o][i] \in Active THEN "failed" ELSE step[o][i]) \in StepStatus
    BY DEF StepOK, StepStatus, Terminal
  <2> QED
    BY <2>1 DEF StepOK
<1>3. \A o \in Ops : \A i \in Positions : step[o][i] = "succeeded" => step'[o][i] = "succeeded"
  BY DEF Active
<1>4. SlotOK' /\ Busy' /\ SingleRunner'
  BY DEF SlotOK, Busy, SingleRunner
<1>5. Runs'
  BY DEF Runs, SlotOK
<1>6. Fresh' /\ ActiveHasLease' /\ SucceededIsVerified'
  BY <1>3 DEF Fresh, ActiveHasLease, SucceededIsVerified, Expired, Active
<1>7. ASSUME NEW s \in Slots PROVE ProgressAt(s)'
  <2>1. CASE job[s] = NoOp
    BY <2>1 DEF Busy, ProgressAt, BeforeExecution, AfterExecution
  <2>2. CASE job[s] # NoOp
    <3>1. job[s] \in Ops /\ ProgressAt(s)
      BY <2>2 DEF SlotOK, Progress
    <3> QED
      BY <1>3, <3>1 DEF ProgressAt, Done
  <2> QED
    BY <2>1, <2>2
<1> QED
  BY <1>1, <1>2, <1>4, <1>5, <1>6, <1>7 DEF Progress

(* A claim takes an operation for which nothing was done by anyone.        *)
LEMMA ClaimKeeps ==
    ASSUME IndInv, NEW s \in Slots, NEW o \in Ops, ClaimOperation(s, o)
    PROVE  IndInv'
<1> USE ConstantsAssumption DEF IndInv, TypeOK, ClaimOperation, Goto
<1>1. /\ pc[s] = "idle" /\ job[s] = NoOp /\ position[s] = 1
      /\ \A t \in Slots : job[t] # o
      /\ \A i \in Positions : effect[o][i] = "none"
  BY DEF Busy, Runs, Fresh, Active
<1>2. RowOK' /\ StepOK' /\ SlotOK'
  BY DEF RowOK, StepOK, SlotOK, OperationStatus, Active, Lease, PCs
<1>3. Busy'
  BY <1>1 DEF Busy, SlotOK
<1>4. SingleRunner'
  BY <1>1 DEF SingleRunner, SlotOK
<1>5. Runs'
  BY <1>1 DEF Runs, RowOK, SlotOK, Active
<1>6. Fresh' /\ ActiveHasLease' /\ SucceededIsVerified'
  BY DEF Fresh, ActiveHasLease, SucceededIsVerified, RowOK, Active
<1>7. ASSUME NEW t \in Slots PROVE ProgressAt(t)'
  <2>1. CASE t = s
    BY <1>1, <2>1 DEF ProgressAt, BeforeExecution, AfterExecution, SlotOK, Positions
  <2>2. CASE t # s
    <3>1. pc'[t] = pc[t] /\ job'[t] = job[t] /\ position'[t] = position[t] /\ ProgressAt(t)
      BY <2>2 DEF SlotOK, Progress
    <3> QED
      BY <3>1 DEF ProgressAt, Done
  <2> QED
    BY <2>1, <2>2
<1> QED
  BY <1>2, <1>3, <1>4, <1>5, <1>6, <1>7 DEF Progress

(* Every step preserves the inductive invariant. *)
LEMMA NextInv == IndInv /\ [Next]_vars => IndInv'
<1> SUFFICES ASSUME IndInv, [Next]_vars PROVE IndInv'
  OBVIOUS
<1>1. CASE UNCHANGED vars
  <2>1. RowOK' /\ SlotOK'
    BY <1>1 DEF IndInv, TypeOK, RowOK, SlotOK
  <2> QED
    BY <1>1, <2>1, RowWriteKeeps DEF IndInv, ActiveHasLease
<1>2. CASE Next
  BY <1>2, QueueKeeps, CancelKeeps, LapseKeeps, SweepKeeps, ClaimKeeps, WorkKeeps,
     RenewKeeps, ContextKeeps, RestartKeeps DEF Next
<1> QED
  BY <1>1, <1>2

(* The inductive invariant holds in every behaviour of the queue.          *)
THEOREM Invariance == Spec => []IndInv
BY InitInv, NextInv, PTL DEF Spec

(* Rows, steps and slots keep their types.                                 *)
THEOREM TypeCorrectness == Spec => []TypeOK
<1>1. IndInv => TypeOK
  BY DEF IndInv
<1> QED
  BY <1>1, Invariance, PTL

(* However leases lapse and workers restart, no two slots ever process     *)
(* the same operation (Store.ClaimOperation).                              *)
THEOREM SingleRunnerAlways == Spec => []SingleRunner
<1>1. IndInv => SingleRunner
  BY DEF IndInv
<1> QED
  BY <1>1, Invariance, PTL

(* No step whose effect may exist is executed again (Worker.process,       *)
(* Store.FailExpiredOperations).                                           *)
THEOREM AtMostOnce == Spec => []ExecutedAtMostOnce
<1>1. IndInv => ExecutedAtMostOnce
  <2> SUFFICES ASSUME IndInv, NEW s \in Slots, pc[s] = "execute"
               PROVE  effect[job[s]][position[s]] = "none"
    BY DEF ExecutedAtMostOnce
  <2>1. position[s] \in Positions /\ ProgressAt(s)
    BY DEF IndInv, TypeOK, SlotOK, Progress
  <2> QED
    BY <2>1, ConstantsAssumption DEF ProgressAt, BeforeExecution, Positions
<1> QED
  BY <1>1, Invariance, PTL

(* A succeeded operation has passed every health gate: all its steps have  *)
(* succeeded and none was rolled back (Store.CompleteOperation).           *)
THEOREM VerifiedSuccess == Spec => []SucceededIsVerified
<1>1. IndInv => SucceededIsVerified
  BY DEF IndInv
<1> QED
  BY <1>1, Invariance, PTL

(* Every active row has a lease, so that the sweeper can settle it.        *)
THEOREM SweepableAlways == Spec => []ActiveHasLease
<1>1. IndInv => ActiveHasLease
  BY DEF IndInv
<1> QED
  BY <1>1, Invariance, PTL

(* A slot writes the status of no operation but its own.                   *)
LEMMA WorkStatus ==
    ASSUME IndInv, NEW s \in Slots, Work(s), NEW o \in Ops, o # job[s]
    PROVE  status'[o] = status[o]
<1>1. CASE UNCHANGED status
  BY <1>1
<1>2. ASSUME NEW v, SetOperationStatus(s, v) \/ FailOperation(job[s], v)
      PROVE  status'[o] = status[o]
  BY <1>2 DEF SetOperationStatus, FailOperation, IndInv, TypeOK, RowOK
<1>3. UNCHANGED status \/ \E v : SetOperationStatus(s, v) \/ FailOperation(job[s], v)
  BY DEF Work, SetStepState, Process, StepLoop, SetPrechecking, ResolveArtifactInputs, Precheck,
         SetRunningStep, SetRunning, ReserveEffects, Execute, ExecuteReturns, SetVerifyingStep,
         SetVerifying, Verify, PersistStepOutputs, CaptureDiscovery, CompleteEffects,
         SetSucceeded, Cleanup, Stop, StopStep, StopOperation, FailStep, FailOp, Finish,
         CompleteOperation
<1> QED
  BY <1>1, <1>2, <1>3

(* The unguarded status writes of Store.SetOperationStatus, FailOperation  *)
(* and CompleteOperation revise nothing but the sweeper's verdict on an    *)
(* operation whose slot still works.                                       *)
THEOREM OnlyExpiryRevised == Spec => OnlyExpiryIsRevised
<1>1. ASSUME IndInv, Next, NEW o \in Ops, status[o] \in Terminal, status'[o] # status[o]
      PROVE  status[o] = "failed" /\ \E s \in Slots : job[s] = o
  <2>0. RowOK /\ Runs
    BY <1>1 DEF IndInv, TypeOK
  <2> USE <1>1, <2>0 DEF RowOK, Terminal
  <2>1. ASSUME NEW s \in Slots, Work(s)
        PROVE  status[o] = "failed" /\ \E t \in Slots : job[t] = o
    <3>1. o = job[s]
      BY <2>1, WorkStatus
    <3>2. o # NoOp
      BY ConstantsAssumption
    <3> QED
      BY <3>1, <3>2 DEF Runs, Active
  <2>2. ASSUME NEW p \in Ops, NEW accept \in BOOLEAN, QueueOperation(p, accept)
        PROVE  FALSE
    BY <2>2 DEF QueueOperation
  <2>3. ASSUME NEW p \in Ops, RequestCancel(p) \/ LeaseLapses(p) PROVE FALSE
    <3>1. CASE RequestCancel(p)
      <4>1. p # o
        BY <3>1 DEF RequestCancel
      <4> QED
        BY <3>1, <4>1 DEF RequestCancel
    <3>2. CASE LeaseLapses(p)
      BY <3>2 DEF LeaseLapses
    <3> QED
      BY <2>3, <3>1, <3>2
  <2>4. CASE FailExpiredOperations
    BY <2>4 DEF FailExpiredOperations, Expired, Active
  <2>5. ASSUME NEW s \in Slots, NEW p \in Ops, ClaimOperation(s, p) PROVE FALSE
    BY <2>5 DEF ClaimOperation
  <2>6. ASSUME NEW s \in Slots,
               RenewLease(s) \/ MonitorCancels(s) \/ Shutdown(s) \/ Restart(s)
        PROVE  FALSE
    BY <2>6 DEF RenewLease, MonitorCancels, Shutdown, Restart
  <2> QED
    BY <2>1, <2>2, <2>3, <2>4, <2>5, <2>6 DEF Next
<1>2. IndInv /\ [Next]_vars =>
        [\A o \in Ops : status[o] \in Terminal /\ status'[o] # status[o] =>
           status[o] = "failed" /\ \E s \in Slots : job[s] = o]_vars
  BY <1>1
<1> QED
  BY <1>2, Invariance, PTL DEF Spec, OnlyExpiryIsRevised
-----------------------------------------------------------------------------
(* What a slot leaves behind at its position: something once the step was  *)
(* begun, nothing that was not rolled back once its failure is reported.   *)
TrailAt(s) ==
    /\ pc[s] \in {"executing", "cleanup"} \cup AfterExecution =>
          effect[job[s]][position[s]] # "none"
    /\ pc[s] = "capture" => job[s] \in Discovery
    /\ pc[s] \in {"failStep", "stop", "stopStep"} /\ job[s] \in Mutating \ CleanupOps =>
          effect[job[s]][position[s]] \notin {"started", "applied"}

Trail == \A s \in Slots : TrailAt(s)

(* The other slots work on other operations.                               *)
LEMMA TrailFrame ==
    ASSUME IndInv, Trail, NEW s \in Slots, OthersKept(s),
           \A t \in Slots \ {s} : pc'[t] = pc[t] /\ job'[t] = job[t] /\ position'[t] = position[t],
           TrailAt(s)'
    PROVE  Trail'
<1> SUFFICES ASSUME NEW t \in Slots \ {s} PROVE TrailAt(t)'
  BY DEF Trail
<1>0. TrailAt(t) /\ pc'[t] = pc[t] /\ job'[t] = job[t] /\ position'[t] = position[t]
  BY DEF Trail
<1>1. CASE job[t] = NoOp
  BY <1>0, <1>1 DEF IndInv, Busy, TrailAt, AfterExecution
<1>2. CASE job[t] # NoOp
  <2>1. job[t] \in Ops \ {job[s]}
    BY <1>2 DEF IndInv, TypeOK, SingleRunner, SlotOK
  <2>2. effect'[job[t]] = effect[job[t]]
    BY <2>1 DEF OthersKept
  <2> QED
    BY <1>0, <2>2 DEF TrailAt
<1> QED
  BY <1>1, <1>2

(* Where a slot may go on to without an effect of its own.                 *)
Follows(s, label) ==
    \/ label \in BeforeExecution \cup {"finish", "complete", "stopOp", "failOp"}
    \/ /\ pc[s] = "executing" \/ pc[s] \in AfterExecution
       /\ label = "cleanup" \/ label \in AfterExecution
       /\ label = "capture" => job[s] \in Discovery
    \/ /\ label \in {"stop", "failStep"}
       /\ \/ pc[s] \in BeforeExecution \cup {"stop"}
          \/ job[s] \notin Mutating \ CleanupOps
    \/ label = "stopStep" /\ pc[s] = "stop"

(* A slot that moves on inside of a step, without an effect, stays on the trail. *)
LEMMA TrailMove ==
    ASSUME IndInv, Trail, NEW s \in Slots, NEW label \in PCs, Moves(s, label),
           UNCHANGED effect, OthersKept(s), Follows(s, label)
    PROVE  Trail'
<1>1. /\ pc'[s] = label /\ job'[s] = job[s] /\ position'[s] = position[s]
      /\ \A t \in Slots \ {s} : pc'[t] = pc[t] /\ job'[t] = job[t] /\ position'[t] = position[t]
  BY DEF Moves, IndInv, TypeOK, SlotOK
<1>2. TrailAt(s) /\ ProgressAt(s) /\ position[s] \in Positions
  BY DEF Trail, IndInv, Progress, TypeOK, SlotOK
<1>3. pc[s] \in BeforeExecution => effect[job[s]][position[s]] = "none"
  BY <1>2, ConstantsAssumption DEF ProgressAt, Positions
<1>4. TrailAt(s)'
  <2>1. CASE label \in BeforeExecution \cup {"finish", "complete", "stopOp", "failOp"}
    BY <1>1, <2>1 DEF TrailAt, BeforeExecution, AfterExecution
  <2>2. CASE label = "cleanup" \/ label \in AfterExecution
    BY <1>1, <1>2, <2>2 DEF TrailAt, Follows, BeforeExecution, AfterExecution
  <2>3. CASE label \in {"stop", "failStep", "stopStep"}
    BY <1>1, <1>2, <1>3, <2>3 DEF TrailAt, Follows, BeforeExecution, AfterExecution
  <2> QED
    BY <2>1, <2>2, <2>3 DEF Follows
<1> QED
  BY <1>1, <1>4, TrailFrame

(* The ways on, with the places they lead to.                              *)
LEMMA TrailFail ==
    ASSUME IndInv, Trail, NEW s \in Slots, UNCHANGED effect, OthersKept(s),
           \/ Fail(s) /\ (pc[s] \in BeforeExecution \/ job[s] \notin Mutating \ CleanupOps)
           \/ StopOrFail(s) /\ (pc[s] \in BeforeExecution \/ job[s] \notin Mutating \ CleanupOps)
           \/ /\ \E mayStop \in BOOLEAN : RollBack(s, mayStop)
              /\ pc[s] = "executing" \/ pc[s] \in AfterExecution
    PROVE  Trail'
<1>0. SlotOK
  BY DEF IndInv, TypeOK
<1>1. ASSUME NEW label \in {"stop", "failStep"}, Moves(s, label),
             pc[s] \in BeforeExecution \/ job[s] \notin Mutating \ CleanupOps
      PROVE  Trail'
  BY <1>1, TrailMove DEF Follows, PCs
<1>2. CASE Fail(s) /\ (pc[s] \in BeforeExecution \/ job[s] \notin Mutating \ CleanupOps)
  BY <1>0, <1>1, <1>2, FailMoves
<1>3. CASE StopOrFail(s) /\ (pc[s] \in BeforeExecution \/ job[s] \notin Mutating \ CleanupOps)
  BY <1>0, <1>1, <1>3, LeaveMoves, FailMoves, "stop" \in PCs, "stop" \in Exit
  DEF StopOrFail, PCs, Exit
<1>4. ASSUME NEW mayStop \in BOOLEAN, RollBack(s, mayStop),
             pc[s] = "executing" \/ pc[s] \in AfterExecution
      PROVE  Trail'
  <2>1. CASE job[s] \in CleanupOps
    BY <1>0, <1>1, <1>4, <2>1, LeaveMoves, FailMoves, "stop" \in PCs, "stop" \in Exit
    DEF RollBack, StopOrFail, PCs, Exit
  <2>2. CASE job[s] \notin CleanupOps
    <3>1. Moves(s, "cleanup")
      BY <1>0, <1>4, <2>2, LeaveMoves, "cleanup" \in PCs, {"fail", "stop"} \subseteq Exit
      DEF RollBack, PCs, Exit
    <3> QED
      BY <1>4, <3>1, TrailMove DEF Follows, PCs
  <2> QED
    BY <2>1, <2>2
<1> QED
  BY <1>2, <1>3, <1>4

(* The same for Proceed. *)
LEMMA TrailProceed ==
    ASSUME IndInv, Trail, NEW s \in Slots, NEW label \in PCs, Proceed(s, label),
           UNCHANGED effect, OthersKept(s), Follows(s, label)
    PROVE  Trail'
BY ProceedMoves, TrailMove DEF IndInv, TypeOK

(* A slot writes the steps and effects of no operation but its own.        *)
LEMMA WorkOthers ==
    ASSUME IndInv, NEW s \in Slots, Work(s)
    PROVE  OthersKept(s)
<1>1. step' = step \/ \E v : step' = [step EXCEPT ![job[s]][position[s]] = v]
  BY DEF Work, SetStepState, SetOperationStatus, Process, StepLoop, SetPrechecking,
         ResolveArtifactInputs, Precheck, SetRunningStep, SetRunning, ReserveEffects, Execute,
         ExecuteReturns, SetVerifyingStep, SetVerifying, Verify, PersistStepOutputs,
         CaptureDiscovery, CompleteEffects, SetSucceeded, Cleanup, Stop, StopStep,
         StopOperation, FailStep, FailOp, Finish, CompleteOperation
<1>2. effect' = effect \/ \E v : effect' = [effect EXCEPT ![job[s]][position[s]] = v]
  BY DEF Work, SetStepState, SetOperationStatus, Process, StepLoop, SetPrechecking,
         ResolveArtifactInputs, Precheck, SetRunningStep, SetRunning, ReserveEffects, Execute,
         ExecuteReturns, SetVerifyingStep, SetVerifying, Verify, PersistStepOutputs,
         CaptureDiscovery, CompleteEffects, SetSucceeded, Cleanup, Stop, StopStep,
         StopOperation, FailStep, FailOp, Finish, CompleteOperation
<1> QED
  BY <1>1, <1>2 DEF OthersKept, IndInv, TypeOK, StepOK

(* Every step of a slot at work keeps the trail. *)
LEMMA TrailWork ==
    ASSUME IndInv, Trail, NEW s \in Slots, Work(s)
    PROVE  Trail'
<1> USE DEF BeforeExecution, AfterExecution
<1>0. OthersKept(s) /\ SlotOK /\ StepOK /\ TrailAt(s)
  BY WorkOthers DEF IndInv, TypeOK, Trail
<1>a. pc[s] # "idle" => job[s] \in Ops /\ position[s] \in Positions
  BY DEF IndInv, TypeOK, Busy, SlotOK
<1>b. \A label \in {"loop", "setPrechecking", "resolve", "precheck", "setRunningStep",
                    "setRunning", "reserve", "execute", "executing", "setVerifyingStep",
                    "setVerifying", "verify", "persist", "capture", "effects", "setSucceeded",
                    "finish", "complete", "stop", "stopStep", "stopOp", "failStep", "failOp",
                    "cleanup"} : label \in PCs
  BY DEF PCs
(* Nothing is claimed of a slot that has let go of its job or that starts  *)
(* another step.                                                           *)
<1>c. ASSUME \A t \in Slots \ {s} : pc'[t] = pc[t] /\ job'[t] = job[t] /\ position'[t] = position[t],
             pc'[s] \in {"idle", "loop", "finish"}
      PROVE  Trail'
  <2>1. TrailAt(s)'
    BY <1>c DEF TrailAt
  <2> QED
    BY <1>0, <1>c, <2>1, TrailFrame
<1>1. CASE Process(s)
  <2>1. CASE Proceed(s, "loop")
    BY <1>1, <2>1, <1>0, <1>b, TrailProceed DEF Process, Follows
  <2>2. CASE ~Proceed(s, "loop")
    <3>1. Moves(s, "failOp")
      BY <1>1, <2>2 DEF Process, Goto, Moves
    <3> QED
      BY <1>1, <3>1, <1>0, <1>b, TrailMove DEF Process, Follows
  <2> QED
    BY <2>1, <2>2
<1>2. CASE StepLoop(s)
  <2>1. CASE Proceed(s, "setPrechecking")
    BY <1>2, <2>1, <1>0, <1>b, TrailProceed DEF StepLoop, SetStepState, Follows
  <2>2. CASE Fail(s)
    BY <1>2, <2>2, <1>0, TrailFail DEF StepLoop, SetStepState
  <2>3. CASE Leave(s, "stop", "stop")
    <3>1. UNCHANGED effect /\ pc[s] = "loop"
      BY <1>2 DEF StepLoop, SetStepState
    <3>2. Moves(s, "stop")
      BY <2>3, <1>0, <1>b, LeaveMoves, "stop" \in Exit DEF Exit
    <3> QED
      BY <3>1, <3>2, <1>0, <1>b, TrailMove DEF Follows
  <2> QED
    BY <1>2, <2>1, <2>2, <2>3 DEF StepLoop
<1>3. CASE SetPrechecking(s) \/ ResolveArtifactInputs(s) \/ Precheck(s) \/ SetRunningStep(s)
           \/ SetRunning(s) \/ ReserveEffects(s)
  <2>0. /\ UNCHANGED effect /\ pc[s] \in BeforeExecution
        /\ \/ Fail(s) \/ StopOrFail(s)
           \/ \E label \in {"resolve", "precheck", "setRunningStep", "setRunning", "reserve",
                            "execute"} : Proceed(s, label)
    BY <1>3 DEF SetPrechecking, ResolveArtifactInputs, Precheck, SetRunningStep, SetRunning,
                ReserveEffects, SetStepState, SetOperationStatus
  <2>1. CASE Fail(s) \/ StopOrFail(s)
    BY <2>0, <2>1, <1>0, TrailFail
  <2>2. ASSUME NEW label \in {"resolve", "precheck", "setRunningStep", "setRunning", "reserve",
                              "execute"}, Proceed(s, label)
        PROVE  Trail'
    BY <2>0, <2>2, <1>0, <1>b, TrailProceed DEF Follows
  <2> QED
    BY <2>0, <2>1, <2>2
<1>4. CASE Execute(s)
  <2>1. Moves(s, "executing") /\ effect'[job[s]][position[s]] = "started"
    BY <1>4, <1>0, <1>a, <1>b, ProceedMoves DEF Execute, StepOK
  <2>2. /\ pc'[s] = "executing" /\ job'[s] = job[s] /\ position'[s] = position[s]
        /\ \A t \in Slots \ {s} : pc'[t] = pc[t] /\ job'[t] = job[t] /\ position'[t] = position[t]
    BY <2>1, <1>0 DEF Moves, SlotOK
  <2>3. TrailAt(s)'
    BY <2>1, <2>2 DEF TrailAt
  <2> QED
    BY <1>0, <2>2, <2>3, TrailFrame
<1>5. CASE ExecuteReturns(s)
  <2>1. CASE RollBack(s, TRUE) /\ UNCHANGED effect
    BY <1>5, <2>1, <1>0, TrailFail DEF ExecuteReturns
  <2>2. CASE /\ effect' = [effect EXCEPT ![job[s]][position[s]] = "applied"]
             /\ Proceed(s, "setVerifyingStep")
    <3>1. Moves(s, "setVerifyingStep") /\ effect'[job[s]][position[s]] = "applied"
      BY <1>5, <2>2, <1>0, <1>a, <1>b, ProceedMoves DEF ExecuteReturns, StepOK
    <3>2. /\ pc'[s] = "setVerifyingStep" /\ job'[s] = job[s] /\ position'[s] = position[s]
          /\ \A t \in Slots \ {s} : pc'[t] = pc[t] /\ job'[t] = job[t] /\ position'[t] = position[t]
      BY <3>1, <1>0 DEF Moves, SlotOK
    <3>3. TrailAt(s)'
      BY <3>1, <3>2 DEF TrailAt
    <3> QED
      BY <1>0, <3>2, <3>3, TrailFrame
  <2> QED
    BY <1>5, <2>1, <2>2 DEF ExecuteReturns
<1>6. CASE SetVerifyingStep(s) \/ SetVerifying(s) \/ Verify(s) \/ CompleteEffects(s)
  <2>0. /\ UNCHANGED effect /\ pc[s] \in AfterExecution
        /\ \/ \E mayStop \in BOOLEAN : RollBack(s, mayStop)
           \/ \E label \in {"setVerifying", "verify", "persist", "setSucceeded"} : Proceed(s, label)
    BY <1>6 DEF SetVerifyingStep, SetVerifying, Verify, CompleteEffects, SetStepState,
                SetOperationStatus
  <2>1. CASE \E mayStop \in BOOLEAN : RollBack(s, mayStop)
    BY <2>0, <2>1, <1>0, TrailFail
  <2>2. ASSUME NEW label \in {"setVerifying", "verify", "persist", "setSucceeded"},
               Proceed(s, label)
        PROVE  Trail'
    BY <2>0, <2>2, <1>0, <1>b, TrailProceed DEF Follows
  <2> QED
    BY <2>0, <2>1, <2>2
<1>7. CASE PersistStepOutputs(s)
  <2>1. CASE Proceed(s, "capture") /\ job[s] \in Discovery
    BY <1>7, <2>1, <1>0, <1>b, TrailProceed DEF PersistStepOutputs, Follows
  <2>2. CASE Proceed(s, "effects")
    BY <1>7, <2>2, <1>0, <1>b, TrailProceed DEF PersistStepOutputs, Follows
  <2>3. CASE RollBack(s, FALSE)
    BY <1>7, <2>3, <1>0, TrailFail DEF PersistStepOutputs
  <2> QED
    BY <1>7, <2>1, <2>2, <2>3 DEF PersistStepOutputs
<1>8. CASE CaptureDiscovery(s)
  <2>1. job[s] \notin Mutating \ CleanupOps
    BY <1>8, <1>0, ConstantsAssumption DEF CaptureDiscovery, TrailAt
  <2>2. CASE Proceed(s, "effects")
    BY <1>8, <2>2, <1>0, <1>b, TrailProceed DEF CaptureDiscovery, Follows
  <2>3. CASE Fail(s)
    BY <1>8, <2>1, <2>3, <1>0, TrailFail DEF CaptureDiscovery
  <2> QED
    BY <1>8, <2>2, <2>3 DEF CaptureDiscovery
<1>9. CASE SetSucceeded(s)
  <2>1. CASE RollBack(s, FALSE) /\ UNCHANGED effect
    BY <1>9, <2>1, <1>0, TrailFail DEF SetSucceeded
  <2>2. CASE ~(RollBack(s, FALSE) /\ UNCHANGED <<row, step, effect>>)
    <3>1. /\ pc'[s] \in {"loop", "finish"}
          /\ \A t \in Slots \ {s} : pc'[t] = pc[t] /\ job'[t] = job[t] /\ position'[t] = position[t]
      BY <1>9, <2>2, <1>0 DEF SetSucceeded, Goto, SlotOK
    <3> QED
      BY <3>1, <1>c
  <2> QED
    BY <2>1, <2>2
<1>10. CASE Cleanup(s)
  <2>1. ASSUME NEW label \in {"stop", "failStep"}, Proceed(s, label) PROVE Trail'
    <3>1. /\ pc'[s] = label /\ job'[s] = job[s] /\ position'[s] = position[s]
          /\ \A t \in Slots \ {s} : pc'[t] = pc[t] /\ job'[t] = job[t] /\ position'[t] = position[t]
      BY <2>1, <1>0, <1>b, ProceedMoves DEF Moves, SlotOK
    <3>2. job[s] \in Mutating => effect'[job[s]][position[s]] \in {"undone", "residue"}
      BY <1>10, <1>0, <1>a DEF Cleanup, StepOK
    <3>3. TrailAt(s)'
      BY <3>1, <3>2 DEF TrailAt
    <3> QED
      BY <1>0, <3>1, <3>3, TrailFrame
  <2> QED
    BY <1>10, <2>1 DEF Cleanup
<1>11. CASE Stop(s)
  <2>1. CASE Proceed(s, "stopStep")
    BY <1>11, <2>1, <1>0, <1>b, TrailProceed DEF Stop, Follows
  <2>2. CASE Leave(s, "failStep", "failFresh")
    BY <1>11, <2>2, <1>0, <1>b, LeaveMoves, TrailMove, "failFresh" \in Exit DEF Stop, Follows, Exit
  <2> QED
    BY <1>11, <2>1, <2>2 DEF Stop
<1>12. CASE StopStep(s) \/ FailStep(s)
  <2>1. UNCHANGED effect /\ \E label \in {"stopOp", "failOp"} : Proceed(s, label)
    BY <1>12 DEF StopStep, FailStep
  <2> QED
    BY <2>1, <1>0, <1>b, TrailProceed DEF Follows
<1>13. CASE StopOperation(s) \/ FailOp(s) \/ CompleteOperation(s)
  <2>1. Return(s)
    BY <1>13 DEF StopOperation, FailOp, CompleteOperation
  <2>2. /\ pc'[s] = "idle"
        /\ \A t \in Slots \ {s} : pc'[t] = pc[t] /\ job'[t] = job[t] /\ position'[t] = position[t]
    BY <2>1, <1>0, ConstantsAssumption, ReturnMoves DEF SlotOK
  <2> QED
    BY <2>2, <1>c
<1>14. CASE Finish(s)
  <2>1. CASE Proceed(s, "complete")
    BY <1>14, <2>1, <1>0, <1>b, TrailProceed DEF Finish, Follows
  <2>2. CASE Leave(s, "failOp", "failRun")
    BY <1>14, <2>2, <1>0, <1>b, LeaveMoves, TrailMove, "failRun" \in Exit DEF Finish, Follows, Exit
  <2> QED
    BY <1>14, <2>1, <2>2 DEF Finish
<1> QED
  BY <1>1, <1>2, <1>3, <1>4, <1>5, <1>6, <1>7, <1>8, <1>9, <1>10, <1>11, <1>12, <1>13, <1>14
  DEF Work

(* The other actions leave every slot where it is, or start one afresh.    *)
LEMMA TrailNext == IndInv /\ Trail /\ [Next]_vars => Trail'
<1> SUFFICES ASSUME IndInv, Trail, [Next]_vars PROVE Trail'
  OBVIOUS
<1>0. SlotOK
  BY DEF IndInv, TypeOK
<1>1. ASSUME UNCHANGED <<pc, job, position, effect>> PROVE Trail'
  BY <1>1 DEF Trail, TrailAt
<1>2. ASSUME NEW s \in Slots, UNCHANGED <<step, effect>>, pc'[s] \in {"idle", "claimed"},
             \A t \in Slots \ {s} : pc'[t] = pc[t] /\ job'[t] = job[t] /\ position'[t] = position[t]
      PROVE  Trail'
  BY <1>2, TrailFrame DEF TrailAt, AfterExecution, OthersKept
<1>3. ASSUME NEW s \in Slots, NEW o \in Ops, ClaimOperation(s, o) PROVE Trail'
  BY <1>0, <1>2, <1>3 DEF ClaimOperation, Goto, SlotOK
<1>4. ASSUME NEW s \in Slots, Restart(s) PROVE Trail'
  BY <1>0, <1>2, <1>4 DEF Restart, Goto, SlotOK
<1>5. ASSUME NEW o \in Ops, NEW accept \in BOOLEAN,
             QueueOperation(o, accept) \/ RequestCancel(o) \/ LeaseLapses(o)
      PROVE  Trail'
  BY <1>1, <1>5 DEF QueueOperation, RequestCancel, LeaseLapses
<1>6. ASSUME NEW s \in Slots, RenewLease(s) \/ MonitorCancels(s) \/ Shutdown(s) PROVE Trail'
  BY <1>1, <1>6 DEF RenewLease, MonitorCancels, Shutdown
<1>7. CASE FailExpiredOperations
  BY <1>1, <1>7 DEF FailExpiredOperations
<1>8. CASE UNCHANGED vars
  BY <1>1, <1>8
<1> QED
  BY <1>3, <1>4, <1>5, <1>6, <1>7, <1>8, TrailWork DEF Next

(* Both invariants together.                                               *)
THEOREM TrailAlways == Spec => [](IndInv /\ Trail)
<1>1. Init => Trail
  BY DEF Init, Trail, TrailAt, AfterExecution
<1> QED
  BY <1>1, InitInv, NextInv, TrailNext, PTL DEF Spec

(* A slot that writes a failure or a cancellation to a step writes it to   *)
(* its own position, after the rollback.                                   *)
LEMMA WorkReports ==
    ASSUME IndInv, Trail, NEW s \in Slots, Work(s),
           NEW o \in Mutating \ CleanupOps, NEW i \in Positions,
           step[o][i] \notin {"failed", "canceled"}, step'[o][i] \in {"failed", "canceled"}
    PROVE  effect[o][i] \notin {"started", "applied"}
<1>0. StepOK /\ o \in Ops
  BY ConstantsAssumption DEF IndInv, TypeOK
<1>1. \/ step' = step
      \/ \E v \in Active \cup {"succeeded"} : step' = [step EXCEPT ![job[s]][position[s]] = v]
      \/ /\ pc[s] \in {"stopStep", "failStep"}
         /\ \E v : step' = [step EXCEPT ![job[s]][position[s]] = v]
  BY DEF Work, Active, SetStepState, SetOperationStatus, Process, StepLoop, SetPrechecking,
         ResolveArtifactInputs, Precheck, SetRunningStep, SetRunning, ReserveEffects, Execute,
         ExecuteReturns, SetVerifyingStep, SetVerifying, Verify, PersistStepOutputs,
         CaptureDiscovery, CompleteEffects, SetSucceeded, Cleanup, Stop, StopStep,
         StopOperation, FailStep, FailOp, Finish, CompleteOperation
<1>2. ASSUME NEW v, step' = [step EXCEPT ![job[s]][position[s]] = v]
      PROVE  o = job[s] /\ i = position[s] /\ step'[o][i] = v
  BY <1>0, <1>2 DEF StepOK
<1>3. pc[s] \in {"stopStep", "failStep"} /\ o = job[s] /\ i = position[s]
  BY <1>1, <1>2 DEF Active
<1> QED
  BY <1>3 DEF Trail, TrailAt

(* Worker.cleanup runs before the failure of a mutating step is reported.  *)
THEOREM RolledBackFirst == Spec => RolledBackBeforeReport
<1>1. ASSUME IndInv, Trail, Next, NEW o \in Mutating \ CleanupOps, NEW i \in Positions,
             step[o][i] \notin {"failed", "canceled"}, step'[o][i] \in {"failed", "canceled"},
             lease_until'[o] = lease_until[o]
      PROVE  effect[o][i] \notin {"started", "applied"}
  <2>0. o \in Ops
    BY ConstantsAssumption
  <2>1. CASE FailExpiredOperations
    <3>1. o \in Expired
      BY <1>1, <2>0, <2>1 DEF FailExpiredOperations
    <3>2. lease_until'[o] = "null" /\ lease_until[o] = "lapsed"
      BY <2>0, <2>1, <3>1 DEF FailExpiredOperations, Expired
    <3> QED
      BY <1>1, <3>2
  <2>2. CASE UNCHANGED step
    BY <1>1, <2>2
  <2>3. ASSUME NEW s \in Slots, Work(s) PROVE effect[o][i] \notin {"started", "applied"}
    BY <1>1, <2>3, WorkReports
  <2>4. FailExpiredOperations \/ UNCHANGED step \/ \E s \in Slots : Work(s)
    BY <1>1 DEF Next, QueueOperation, RequestCancel, LeaseLapses, ClaimOperation, RenewLease,
                MonitorCancels, Shutdown, Restart
  <2> QED
    BY <2>1, <2>2, <2>3, <2>4
<1>2. (IndInv /\ Trail) /\ [Next]_vars =>
        [\A o \in Mutating \ CleanupOps : \A i \in Positions :
           /\ step[o][i] \notin {"failed", "canceled"}
           /\ step'[o][i] \in {"failed", "canceled"}
           /\ lease_until'[o] = lease_until[o]
           => effect[o][i] \notin {"started", "applied"}]_vars
  BY <1>1
<1> QED
  BY <1>2, TrailAlways, PTL DEF Spec, RolledBackBeforeReport

-----------------------------------------------------------------------------
(* The queue implements OperationContract.  A slot's step is one of three: *)
(* it is quiet (nothing begins and the job is kept), it begins a step, or  *)
(* it lets go of its job.                                                  *)
Quiet(s) ==
    /\ UNCHANGED job
    /\ RowKept(s)
    /\ \A o \in Ops : \A i \in Positions : effect'[o][i] = "none" <=> effect[o][i] = "none"

LetsGo(s) ==
    /\ job' = [job EXCEPT ![s] = NoOp]
    /\ UNCHANGED effect
    /\ \/ UNCHANGED row
       \/ \E word \in Terminal :
             /\ FailOperation(job[s], word)
             /\ word = "succeeded" => \A i \in Positions : Done(job[s], i)

(* Seen from the contract, a step of a slot is silent, begins a plan step, or reports. *)
LEMMA WorkKinds ==
    ASSUME IndInv, Trail, NEW s \in Slots, Work(s)
    PROVE  pc[s] # "idle" /\ (Quiet(s) \/ Execute(s) \/ LetsGo(s))
<1>0. SlotOK /\ StepOK /\ TrailAt(s) /\ ProgressAt(s)
  BY DEF IndInv, TypeOK, Progress, Trail
<1>1. pc[s] # "idle"
  BY DEF Work, Process, StepLoop, SetPrechecking, ResolveArtifactInputs, Precheck,
         SetRunningStep, SetRunning, ReserveEffects, Execute, ExecuteReturns, SetVerifyingStep,
         SetVerifying, Verify, PersistStepOutputs, CaptureDiscovery, CompleteEffects,
         SetSucceeded, Cleanup, Stop, StopStep, StopOperation, FailStep, FailOp, Finish,
         CompleteOperation
<1>2. job[s] \in Ops /\ position[s] \in Positions
  BY <1>1 DEF IndInv, TypeOK, Busy, SlotOK
<1>3. ASSUME UNCHANGED <<job, effect>>,
             UNCHANGED row \/ \E v \in Active : SetOperationStatus(s, v)
      PROVE  Quiet(s)
  BY <1>3 DEF Quiet, RowKept, SetOperationStatus
<1>4. CASE Process(s) \/ StepLoop(s) \/ SetPrechecking(s) \/ ResolveArtifactInputs(s)
           \/ Precheck(s) \/ SetRunningStep(s) \/ SetRunning(s) \/ ReserveEffects(s)
  <2>1. UNCHANGED <<job, effect>> /\ (UNCHANGED row \/ \E v \in Active : SetOperationStatus(s, v))
    BY <1>4 DEF Process, StepLoop, SetPrechecking, ResolveArtifactInputs, Precheck,
         SetRunningStep, SetRunning, ReserveEffects, SetStepState, SetOperationStatus, Active,
         Proceed, Leave, Fail, StopOrFail
  <2> QED
    BY <1>1, <1>3, <2>1
<1>5. CASE SetVerifyingStep(s) \/ SetVerifying(s) \/ Verify(s) \/ PersistStepOutputs(s)
           \/ CaptureDiscovery(s) \/ CompleteEffects(s) \/ SetSucceeded(s)
  <2>1. UNCHANGED <<job, effect>> /\ (UNCHANGED row \/ \E v \in Active : SetOperationStatus(s, v))
    BY <1>5 DEF SetVerifyingStep, SetVerifying, Verify, PersistStepOutputs, CaptureDiscovery,
         CompleteEffects, SetSucceeded, SetStepState, SetOperationStatus, Active,
         Proceed, Leave, Fail, StopOrFail, RollBack
  <2> QED
    BY <1>1, <1>3, <2>1
<1>6. CASE Stop(s) \/ StopStep(s) \/ FailStep(s) \/ Finish(s)
  <2>1. UNCHANGED <<job, effect, row>>
    BY <1>6 DEF Stop, StopStep, FailStep, Finish, Proceed, Leave
  <2> QED
    BY <1>1, <1>3, <2>1
<1>7. CASE ExecuteReturns(s) \/ Cleanup(s)
  <2>1. UNCHANGED <<job, row>> /\ effect[job[s]][position[s]] # "none"
    BY <1>0, <1>7 DEF ExecuteReturns, Cleanup, Proceed, Leave, Fail, StopOrFail, RollBack, TrailAt
  <2>2. UNCHANGED effect \/ \E v \in {"applied", "undone", "residue"} :
            effect' = [effect EXCEPT ![job[s]][position[s]] = v]
    BY <1>7 DEF ExecuteReturns, Cleanup
  <2>3. \A o \in Ops : \A i \in Positions : effect'[o][i] = "none" <=> effect[o][i] = "none"
    <3>1. ASSUME NEW v \in {"applied", "undone", "residue"},
                 effect' = [effect EXCEPT ![job[s]][position[s]] = v],
                 NEW o \in Ops, NEW i \in Positions
          PROVE  effect'[o][i] = "none" <=> effect[o][i] = "none"
      <4>1. CASE o = job[s] /\ i = position[s]
        BY <1>0, <2>1, <3>1, <4>1 DEF StepOK
      <4>2. CASE ~(o = job[s] /\ i = position[s])
        BY <1>0, <3>1, <4>2 DEF StepOK
      <4> QED
        BY <4>1, <4>2
    <3> QED
      BY <2>2, <3>1
  <2> QED
    BY <1>1, <2>1, <2>3 DEF Quiet, RowKept
<1>8. CASE StopOperation(s) \/ FailOp(s)
  BY <1>1, <1>8 DEF StopOperation, FailOp, Return, LetsGo, Terminal
<1>9. CASE CompleteOperation(s)
  <2>1. \A i \in Positions : Done(job[s], i)
    BY <1>0, <1>9 DEF CompleteOperation, ProgressAt
  <2> QED
    BY <1>1, <1>9, <2>1 DEF CompleteOperation, Return, LetsGo, Terminal
<1> QED
  BY <1>1, <1>4, <1>5, <1>6, <1>7, <1>8, <1>9 DEF Work

(* A quiet step stutters, or takes back the sweeper's presumption.         *)
LEMMA QuietContract ==
    ASSUME IndInv, NEW s \in Slots, pc[s] # "idle", Quiet(s)
    PROVE  [Contract!Next]_(Contract!vars)
<1>1. /\ job[s] \in Ops /\ status[job[s]] \in Active \cup {"failed"}
      /\ status \in [Ops -> OperationStatus]
  BY DEF IndInv, TypeOK, Busy, SlotOK, Runs, RowOK
<1>2. UNCHANGED <<Runner, Begun>>
  <2>1. UNCHANGED Runner
    BY DEF Quiet, Runner
  <2>2. UNCHANGED Begun
    BY DEF Quiet, Begun
  <2> QED
    BY <2>1, <2>2
<1>3. UNCHANGED Taken
  BY <1>1 DEF Quiet, RowKept, Taken, Active
<1>4. CASE UNCHANGED Outcome
  BY <1>2, <1>3, <1>4 DEF Contract!vars
<1>5. CASE ~ UNCHANGED Outcome
  <2>1. PICK v \in Active : status' = [status EXCEPT ![job[s]] = v]
    BY <1>5 DEF Quiet, RowKept, Outcome
  <2>2. status[job[s]] = "failed"
    BY <1>1, <1>5, <2>1 DEF Outcome, Active, Terminal
  <2>3. Contract!Resume(job[s])
    <3>1. Runner[job[s]]
      BY <1>1 DEF Runner
    <3>2. Outcome[job[s]] = "failed"
      BY <1>1, <2>2 DEF Outcome, Terminal
    <3>3. Outcome' = [Outcome EXCEPT ![job[s]] = "none"]
      BY <1>1, <2>1, <2>2 DEF Outcome, Active, Terminal
    <3> QED
      BY <1>2, <1>3, <3>1, <3>2, <3>3 DEF Contract!Resume
  <2> QED
    BY <1>1, <2>3 DEF Contract!Next
<1> QED
  BY <1>4, <1>5

(* Steps begin in the order of the plan.                                   *)
LEMMA ExecuteContract ==
    ASSUME IndInv, NEW s \in Slots, Execute(s)
    PROVE  [Contract!Next]_(Contract!vars)
<1>1. /\ job[s] \in Ops /\ position[s] \in Positions /\ position[s] \in Nat /\ StepOK
      /\ ProgressAt(s) /\ pc[s] = "execute"
  BY ConstantsAssumption DEF IndInv, TypeOK, Busy, SlotOK, Progress, Execute, Positions
<1>2. UNCHANGED <<Taken, Runner, Outcome>>
  BY DEF Execute, Proceed, Taken, Runner, Outcome
<1>3. Runner[job[s]]
  BY <1>1 DEF Runner
<1>4. \A i \in Positions : effect[job[s]][i] # "none" <=> i < position[s]
  BY <1>1, ConstantsAssumption DEF ProgressAt, BeforeExecution, Done, Positions
<1>5. Begun[job[s]] = 1 .. position[s] - 1
  <2>1. Begun[job[s]] = {i \in Positions : i < position[s]}
    BY <1>1, <1>4 DEF Begun
  <2> QED
    BY <1>1, <2>1, ConstantsAssumption DEF Positions
<1>6. Begun' = [Begun EXCEPT ![job[s]] = 1 .. position[s]]
  <2>1. {i \in Positions : effect'[job[s]][i] # "none"} = 1 .. position[s]
    <3>1. \A i \in Positions : effect'[job[s]][i] # "none" <=> i <= position[s]
      BY <1>1, <1>4, ConstantsAssumption DEF Execute, StepOK, Positions
    <3> QED
      BY <1>1, <3>1, ConstantsAssumption DEF Positions
  <2>2. \A o \in Ops \ {job[s]} : effect'[o] = effect[o]
    BY <1>1 DEF Execute, StepOK
  <2> QED
    BY <1>1, <2>1, <2>2 DEF Begun
<1>7. Contract!Advance(job[s], position[s])
  BY <1>2, <1>3, <1>5, <1>6 DEF Contract!Advance
<1> QED
  BY <1>1, <1>7 DEF Contract!Next, Positions

(* A slot that lets go reports, or vanishes when its report is lost.       *)
LEMMA LetsGoContract ==
    ASSUME IndInv, NEW s \in Slots, job[s] \in Ops, LetsGo(s)
    PROVE  [Contract!Next]_(Contract!vars)
<1>1. /\ status[job[s]] \in Active \cup {"failed"} /\ status \in [Ops -> OperationStatus]
      /\ job \in [Slots -> Ops \cup {NoOp}] /\ StepOK
  BY ConstantsAssumption DEF IndInv, TypeOK, Busy, SlotOK, Runs, RowOK
<1>2. Runner[job[s]] /\ UNCHANGED Begun
  BY <1>1 DEF Runner, Begun, LetsGo
<1>3. Runner' = [Runner EXCEPT ![job[s]] = FALSE]
  <2>1. \A t \in Slots \ {s} : job[t] # job[s]
    BY ConstantsAssumption DEF IndInv, SingleRunner
  <2>2. \A o \in Ops : (\E t \in Slots : job'[t] = o) <=> o # job[s] /\ \E t \in Slots : job[t] = o
    BY <1>1, <2>1, ConstantsAssumption DEF LetsGo
  <2> QED
    BY <2>2 DEF Runner
<1>4. CASE UNCHANGED row
  <2>1. Contract!Vanish(job[s])
    BY <1>2, <1>3, <1>4 DEF Contract!Vanish, Taken, Outcome
  <2> QED
    BY <2>1 DEF Contract!Next
<1>5. ASSUME NEW word \in Terminal, FailOperation(job[s], word),
             word = "succeeded" => \A i \in Positions : Done(job[s], i)
      PROVE  [Contract!Next]_(Contract!vars)
  <2>1. UNCHANGED Taken
    BY <1>1, <1>5 DEF FailOperation, Taken, Active, Terminal
  <2>2. Outcome' = [Outcome EXCEPT ![job[s]] = word]
    BY <1>1, <1>5 DEF FailOperation, Outcome, Terminal
  <2>3. word = "succeeded" => Begun[job[s]] = 1 .. NumSteps
    BY <1>5 DEF Begun, Done, Positions
  <2>4. Contract!Report(job[s], word)
    BY <1>2, <1>3, <2>1, <2>2, <2>3 DEF Contract!Report
  <2> QED
    BY <2>4 DEF Contract!Next, Terminal
<1> QED
  BY <1>4, <1>5 DEF LetsGo

(* Every step of the queue is a step of the contract, or a stutter.        *)
LEMMA NextContract ==
    ASSUME IndInv, Trail, [Next]_vars
    PROVE  [Contract!Next]_(Contract!vars)
<1>0. RowOK /\ SlotOK
  BY DEF IndInv, TypeOK
<1>1. ASSUME UNCHANGED <<status, job, effect>> PROVE [Contract!Next]_(Contract!vars)
  BY <1>1 DEF Contract!vars, Taken, Runner, Begun, Outcome
<1>2. ASSUME NEW o \in Ops, NEW accept \in BOOLEAN, QueueOperation(o, accept)
      PROVE  [Contract!Next]_(Contract!vars)
  <2>1. UNCHANGED <<Runner, Begun>>
    BY <1>2 DEF QueueOperation, Runner, Begun
  <2>2. UNCHANGED <<Taken, Outcome>>
    BY <1>0, <1>2 DEF QueueOperation, Taken, Outcome, RowOK, Terminal
  <2> QED
    BY <2>1, <2>2 DEF Contract!vars
<1>3. ASSUME NEW o \in Ops, RequestCancel(o) PROVE [Contract!Next]_(Contract!vars)
  <2>1. CASE status[o] \in {"ready", "queued"}
    <3>1. UNCHANGED <<Runner, Begun>>
      BY <1>3 DEF RequestCancel, Runner, Begun
    <3>2. ~Taken[o] /\ Taken' = [Taken EXCEPT ![o] = TRUE]
      BY <1>0, <1>3, <2>1 DEF RequestCancel, Taken, RowOK
    <3>3. Outcome' = [Outcome EXCEPT ![o] = "canceled"]
      BY <1>0, <1>3, <2>1 DEF RequestCancel, Outcome, RowOK, Terminal
    <3>4. Contract!Withdraw(o)
      BY <3>1, <3>2, <3>3 DEF Contract!Withdraw
    <3> QED
      BY <3>4 DEF Contract!Next
  <2>2. CASE status[o] \notin {"ready", "queued"}
    BY <1>0, <1>1, <1>3, <2>2 DEF RequestCancel, RowOK
  <2> QED
    BY <2>1, <2>2
<1>4. CASE FailExpiredOperations
  <2>1. Expired \in (SUBSET Ops) \ {{}}
    BY <1>4 DEF FailExpiredOperations, Expired
  <2>2. \A o \in Expired : Taken[o] /\ Outcome[o] = "none"
    BY DEF Expired, Taken, Outcome, Active, Terminal
  <2>3. Outcome' = [o \in Ops |-> IF o \in Expired THEN "failed" ELSE Outcome[o]]
    BY <1>0, <1>4 DEF FailExpiredOperations, Outcome, RowOK, Terminal
  <2>4. UNCHANGED Taken
    BY <1>0, <1>4 DEF FailExpiredOperations, Taken, RowOK, Expired, Active
  <2>5. UNCHANGED <<Runner, Begun>>
    BY <1>4 DEF FailExpiredOperations, Runner, Begun
  <2>6. Contract!Presume(Expired)
    BY <2>2, <2>3, <2>4, <2>5 DEF Contract!Presume
  <2> QED
    BY <2>1, <2>6 DEF Contract!Next
<1>5. ASSUME NEW s \in Slots, NEW o \in Ops, ClaimOperation(s, o)
      PROVE  [Contract!Next]_(Contract!vars)
  <2>1. UNCHANGED <<Begun, Outcome>>
    BY <1>0, <1>5 DEF ClaimOperation, Begun, Outcome, RowOK, Active, Terminal
  <2>2. ~Taken[o] /\ Taken' = [Taken EXCEPT ![o] = TRUE]
    BY <1>0, <1>5 DEF ClaimOperation, Taken, RowOK
  <2>3. job[s] = NoOp
    BY <1>5 DEF ClaimOperation, IndInv, Busy
  <2>4. Runner' = [Runner EXCEPT ![o] = TRUE]
    BY <1>0, <1>5, <2>3, ConstantsAssumption DEF ClaimOperation, Runner, SlotOK
  <2>5. Contract!Begin(o)
    BY <2>1, <2>2, <2>4 DEF Contract!Begin
  <2> QED
    BY <2>5 DEF Contract!Next
<1>6. ASSUME NEW s \in Slots, Work(s) PROVE [Contract!Next]_(Contract!vars)
  <2>1. pc[s] # "idle" /\ job[s] \in Ops
    BY <1>6, WorkKinds DEF IndInv, TypeOK, Busy, SlotOK
  <2> QED
    BY <1>6, <2>1, WorkKinds, QuietContract, ExecuteContract, LetsGoContract
<1>7. ASSUME NEW s \in Slots, Restart(s) PROVE [Contract!Next]_(Contract!vars)
  <2>1. CASE job[s] = NoOp
    BY <1>0, <1>1, <1>7, <2>1 DEF Restart, SlotOK
  <2>2. CASE job[s] \in Ops
    BY <1>7, <2>2, LetsGoContract DEF Restart, LetsGo
  <2> QED
    BY <1>0, <2>1, <2>2 DEF SlotOK
<1>8. ASSUME NEW s \in Slots, RenewLease(s) \/ MonitorCancels(s) \/ Shutdown(s)
      PROVE  [Contract!Next]_(Contract!vars)
  BY <1>1, <1>8 DEF RenewLease, MonitorCancels, Shutdown
<1>9. ASSUME NEW o \in Ops, LeaseLapses(o) PROVE [Contract!Next]_(Contract!vars)
  BY <1>1, <1>9 DEF LeaseLapses
<1>10. CASE UNCHANGED vars
  BY <1>1, <1>10
<1> QED
  BY <1>2, <1>3, <1>4, <1>5, <1>6, <1>7, <1>8, <1>9, <1>10 DEF Next

(* The queue and its slots implement the contract that the coordinator,    *)
(* the API and the user rely on.                                           *)
THEOREM ContractHonoured == Spec => HonoursContract
<1>1. Init => Contract!Init
  <2> SUFFICES ASSUME Init PROVE Contract!Init
    OBVIOUS
  <2>1. Taken = [o \in Ops |-> FALSE] /\ Outcome = [o \in Ops |-> "none"]
    BY DEF Init, Taken, Outcome, Terminal
  <2>2. Runner = [o \in Ops |-> FALSE]
    BY ConstantsAssumption DEF Init, Runner
  <2>3. Begun = [o \in Ops |-> {}]
    BY DEF Init, Begun
  <2> QED
    BY <2>1, <2>2, <2>3 DEF Contract!Init
<1>2. (IndInv /\ Trail) /\ [Next]_vars => [Contract!Next]_(Contract!vars)
  BY NextContract
<1> QED
  BY <1>1, <1>2, TrailAlways, PTL DEF Spec, HonoursContract, Contract!Spec
=============================================================================
