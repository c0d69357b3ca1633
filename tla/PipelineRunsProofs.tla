------------------------- MODULE PipelineRunsProofs -------------------------
(***************************************************************************)
(* For any pipeline, any number of coordinators and any number of stalls,  *)
(* crashes, errors and retries: the outcome of a run can be relied upon.   *)
(*                                                                         *)
(* The argument has two halves.  What a tick knows (Local) is true of the  *)
(* operations whoever owns the run, because it only speaks of operations   *)
(* that have started or ended, and those stay so.  What a tick must know   *)
(* to act for the run (Own), that it has seen every operation and the      *)
(* outcome that was decided, holds for the coordinator named in the lease: *)
(* a claim is followed by a fresh copy, and nobody else starts a stage or  *)
(* decides until the next claim.                                           *)
(***************************************************************************)
EXTENDS PipelineRuns, PipelinePlanProofs

(* GetPipeline does not fail.  When it does the run is failed on the spot, *)
(* without a drain and whatever was decided.                               *)
Reliable == "pipeline" \notin Failures

Deciding == {"sync get", "sync set", "initialize", "start", "fail stage", "begin", "complete"}
Stopping == {"stop get", "stop sync", "stop cancel"}
Rechecking == {"recheck", "recheck renew", "recover"}
Ending == {"clean", "clean sync", "fail"} \union Rechecking
Working == PCs \ {"idle", "read", "release"}

(* The operations as the run has to take them: one whose lease ran out has *)
(* failed, also while its worker goes on.  Its worker may still report     *)
(* another outcome, and after a success none.                              *)
Verdict == [i \in Stages |-> IF operation[i] = "running" /\ i \in expired THEN "failed" ELSE operation[i]]

Ended(op, S) == \A i \in S : op[i] \in Terminal

(* What the copy of the rows has as over has succeeded: a tick that finds  *)
(* another outcome goes no further.                                        *)
Synced(op, u, S) == \A i \in S : u.stage[i] \in Terminal => op[i] = "succeeded"

(* What was read of an operation: it is over, and a success is one. *)
Heard(op, i, seen) == (seen \in Terminal => op[i] \in Terminal) /\ (seen = "succeeded" => op[i] = "succeeded")

(* What the copy says of the operations. *)
Copied(op, u) ==
    /\ \A i \in u.started : op[i] # "none"
    /\ \A i \in Stages : u.stage[i] = "succeeded" => op[i] = "succeeded"

(* What the tick is about to report. *)
Reporting(to, u) ==
    /\ Reliable /\ u.terminal # "" => u.outcome = u.terminal
    /\ to \in Deciding \/ u.then \in {"sequential", "begin", "complete"} => u.terminal = ""

(* Every stage that is going to be started may be. *)
Chosen(op, u) ==
    /\ u.left \intersect u.started = {}
    /\ \A i \in u.left : InputsComplete(DependsOn, MaxParallelStages, op, i)
    /\ Gate # 0 /\ ~u.execution => \A i \in u.left : i < Gate
    /\ Synced(op, u, u.started)
    /\ Cardinality(ActiveStages(u.stage, u.started)) + Cardinality(u.left) <= Limit(MaxParallelStages)

(* The drain has stopped what it left behind. *)
Stopped(op, u) ==
    /\ u.left \subseteq u.started
    /\ u.then \in {"terminal", "sequential", "begin"}
    /\ u.stopped \/ u.started # {}
    /\ u.stopped /\ u.then # "begin" => Ended(op, u.started \ u.left)

(* What is true of a tick u at step to, the operations being op. *)
Local(op, to, u) ==
    /\ to \in PCs /\ u \in Ticks
    /\ Copied(op, u)
    /\ Reporting(to, u)
    /\ to \in {"sync get", "sync set", "start"} \union Stopping \union Rechecking => u.left # {}
    /\ to \in {"sync get", "sync set"} => u.left \subseteq u.started /\ Synced(op, u, u.started \ u.left)
    /\ to \in {"sync set", "stop sync"} => u.seen # "none" /\ Heard(op, Current(u), u.seen)
    /\ to = "initialize" => \A j \in 1..(Gate - 1) : op[j] = "succeeded"
    /\ to = "start" => Chosen(op, u)
    /\ to \in Stopping => Stopped(op, u)
    /\ to = "stop cancel" => ~u.stopped
    /\ to \in Ending /\ (to = "fail" => Reliable) => Ended(op, u.started)
    /\ to = "clean sync" => u.seen \in {"queued", "running"} \union Terminal

(* What the coordinator of the lease knows. *)
Own(c) ==
    lease_owner = c /\ pc[c] \in Working => tick[c].terminal = terminal_status /\ tick[c].started = Started

(* What a tick has read can only have grown. *)
Grown(c) ==
    /\ tick[c].execution => execution_requested
    /\ \A i \in Stages : tick[c].attempt[i] <= attempts[i]

Leased ==
    /\ lease_owner # NoCoordinator => status = "running"
    /\ status = "queued" => terminal_status = "" /\ Started = {}

Gated ==
    /\ execution_requested => initialized
    /\ initialized => \A j \in 1..(Gate - 1) : operation[j] = "succeeded"

Attempted ==
    \A i \in Stages :
        /\ attempts[i] <= retries + 1
        /\ cleanup_status[i] = "pending" => attempts[i] <= retries
        /\ cleanup_operation[i] <= attempts[i]
        /\ attempts[i] # 0 => cleanup_op[i] # "none"

SucceededRows == \A i \in Stages : stage[i] = "succeeded" => operation[i] = "succeeded"

(* Operations that have not succeeded: any of them may come to run again. *)
Unfinished == {i \in Stages : operation[i] \notin {"none", "succeeded"}}

Bounded == Cardinality(Unfinished) <= Limit(MaxParallelStages)

Lapsed == \A i \in late : operation[i] = "failed"

(* What holds of the run. *)
Sound ==
    /\ Leased /\ Gated /\ Attempted /\ SucceededRows /\ Bounded /\ Lapsed
    /\ StartedInOrder /\ GateHolds /\ SucceededIsComplete
    /\ Reliable => DrainedBeforeFinal

(* What holds of a coordinator. *)
Informed(c) == Local(Verdict, pc[c], tick[c]) /\ Own(c) /\ Grown(c)

IndInv == TypeOK /\ Sound /\ \A c \in Coordinators : Informed(c)

-----------------------------------------------------------------------------
(* Positions and sets of them.                                             *)

(* Stages are numbered from one. *)
LEMMA StagesAreNumbered == Stages = 1..Len(Kind) /\ Len(Kind) \in Nat /\ IsFiniteSet(Stages) /\ Stages \subseteq Nat
<1>1. Stages = 1..Len(Kind) /\ Len(Kind) \in Nat
    BY PipelineAssumption DEF Stages
<1> QED
    BY <1>1, FS_Interval

(* The last position is one of them. *)
LEMMA LastIsStage == Len(Kind) \in Stages
<1>1. Len(Kind) \in Nat \ {0}
    BY PipelineAssumption, EmptySeq
<1> QED
    BY <1>1, StagesAreNumbered

(* What is in front of the gate is a stage. *)
LEMMA GateInside == \A i \in 1..(Gate - 1) : i \in Stages
<1> SUFFICES ASSUME NEW i \in 1..(Gate - 1) PROVE i \in 1..Len(Kind)
    BY StagesAreNumbered
<1>1. Gate \in 1..Len(Kind) \/ Gate = 0
    BY StagesAreNumbered, PipelineAssumption
<1> QED
    BY <1>1, StagesAreNumbered

(* What the verdicts tell of the operations. *)
LEMMA VerdictReads ==
    ASSUME TypeOK
    PROVE  /\ Verdict \in [Stages -> OpStatuses]
           /\ \A i \in Stages :
                 /\ (Verdict[i] = "none") <=> (operation[i] = "none")
                 /\ (Verdict[i] = "succeeded") <=> (operation[i] = "succeeded")
                 /\ operation[i] \in Terminal => Verdict[i] = operation[i]
                 /\ Verdict[i] \in Terminal => OperationOver(i)
<1>1. operation \in [Stages -> OpStatuses]
    BY DEF TypeOK
<1>2. \A i \in Stages : Verdict[i] = IF operation[i] = "running" /\ i \in expired THEN "failed" ELSE operation[i]
    BY DEF Verdict
<1>3. Verdict \in [Stages -> OpStatuses]
    BY <1>1 DEF Verdict, OpStatuses, Terminal
<1> QED
    BY <1>2, <1>3 DEF Terminal, OperationOver, Settled

(* A tick visits one of the stages it has left. *)
LEMMA CurrentIsLeft ==
    ASSUME NEW t, t.left \subseteq Stages, t.left # {}
    PROVE  Current(t) \in t.left
<1>1. \E i \in t.left : \A j \in t.left : i <= j
    BY LeastOf, StagesAreNumbered
<1> QED
    BY <1>1 DEF Current

(* What readyPipelineStages picks may be started and has not been, and fits *)
(* beside what runs.                                                       *)
LEMMA ReadyFits ==
    ASSUME NEW st \in [Stages -> (OpStatuses \ {"none"}) \union {"pending"}], NEW begun \in SUBSET Stages,
           NEW ready, ready = readyPipelineStages(DependsOn, MaxParallelStages, st, begun)
    PROVE  /\ ready \subseteq Stages /\ ready \intersect begun = {}
           /\ \A i \in ready : InputsComplete(DependsOn, MaxParallelStages, st, i)
           /\ ready # {} => Cardinality(ActiveStages(st, begun)) + Cardinality(ready) <= Limit(MaxParallelStages)
<1>1. DOMAIN st = Stages /\ Stages = 1..Len(Kind) /\ Len(Kind) \in Nat /\ MaxParallelStages \in Nat
    BY StagesAreNumbered, PipelineAssumption
<1>2. /\ ready \subseteq Stages /\ ready \intersect begun = {}
      /\ \A i \in ready : InputsComplete(DependsOn, MaxParallelStages, st, i)
    BY <1>1, ReadyIsStartable
<1>3. ready # {} => Cardinality(ActiveStages(st, begun)) + Cardinality(ready) <= Limit(MaxParallelStages)
    BY <1>1, ReadyFitsTheLimit
<1> QED
    BY <1>2, <1>3
-----------------------------------------------------------------------------
(* The local control flow: from a tick t that knows enough, wherever it    *)
(* goes it knows what Local asks for there.                                *)

Same(u, t) == u.terminal = t.terminal /\ u.started = t.started /\ u.execution = t.execution /\ u.attempt = t.attempt

Lands(c, op, t) ==
    \E to \in PCs, u \in Ticks :
        /\ Go(c, to, u)
        /\ Local(op, to, u)
        /\ (to \in {"release", "idle"} /\ u = NoTick) \/ Same(u, t)

Base(op, t) == t \in Ticks /\ Copied(op, t)

(* A tick whose operations are over. *)
Over(op, t) == Base(op, t) /\ Reporting("fail", t) /\ Ended(op, t.started)

(* A tick that has let go of everything. *)
LEMMA NoTickIsLocal ==
    ASSUME NEW op, NEW to \in {"idle", "read", "release"}
    PROVE  Local(op, to, NoTick)
<1>1. NoTick \in Ticks
    BY PipelineAssumption DEF NoTick, Ticks, CleanupStatuses, OpStatuses
<1>2. Copied(op, NoTick) /\ Reporting(to, NoTick) /\ to \in PCs
    BY DEF Copied, Reporting, NoTick, Deciding, PCs
<1> QED
    BY <1>1, <1>2 DEF Local, Stopping, Rechecking, Ending

(* A tick that gives up lands at the release with nothing in hand. *)
LEMMA ReleaseLands ==
    ASSUME NEW c, NEW op, NEW t, Release(c)
    PROVE  Lands(c, op, t)
<1>1. NoTick \in Ticks /\ Local(op, "release", NoTick) /\ "release" \in PCs
    BY NoTickIsLocal DEF Local
<1> QED
    BY <1>1 DEF Lands, Release

(* The recheck of the next stage lands where its copies are right: at *)
(* that stage, or at the end.                                         *)
LEMMA RecheckNextLands ==
    ASSUME NEW c, NEW op, NEW t, Over(op, t), RecheckNext(c, t)
    PROVE  Lands(c, op, t)
<1>1. PICK to \in {"recheck", "complete", "fail"} :
         /\ Go(c, to, t)
         /\ to = "recheck" => t.left # {}
         /\ to = "complete" => t.then = "complete"
    BY DEF RecheckNext
<1>2. Local(op, to, t)
    BY <1>1 DEF Over, Base, Local, Reporting, Deciding, Stopping, Rechecking, Ending, PCs
<1> QED
    BY <1>1, <1>2 DEF Lands, Same, Local

(* So does the choice of the next cleanup. *)
LEMMA CleanupNextLands ==
    ASSUME NEW c, NEW op, NEW t, Over(op, t), CleanupNext(c, t)
    PROVE  Lands(c, op, t)
<1> DEFINE open == {i \in t.left : t.cleanup[i] \notin CleanupComplete}
           failed == {i \in Stages : t.cleanup[i] = "failed" /\ Kind[i] = "deploy"}
<1>1. CASE open # {}
  <2> DEFINE u == [t EXCEPT !.left = open]
  <2>1. Go(c, "clean", u)
      BY <1>1 DEF CleanupNext
  <2>2. Base(op, u) /\ Same(u, t) /\ Reporting("clean", u) /\ u.started = t.started
      BY DEF Over, Base, Copied, Ticks, Same, Reporting, Deciding
  <2>3. Local(op, "clean", u)
      BY <2>2 DEF Over, Base, Local, Stopping, Rechecking, Ending, PCs
  <2> QED
      BY <2>1, <2>2, <2>3 DEF Lands, Local
<1>2. CASE open = {}
  <2> DEFINE u == [t EXCEPT !.left = failed]
  <2>1. RecheckNext(c, u)
      BY <1>2 DEF CleanupNext
  <2>2. Over(op, u) /\ Same(u, t)
      BY DEF Over, Base, Copied, Ticks, Same, Reporting, Deciding
  <2> HIDE DEF u
  <2>3. Lands(c, op, u)
      BY <2>1, <2>2, RecheckNextLands
  <2> QED
      BY <2>2, <2>3 DEF Lands, Same
<1> QED
    BY <1>1, <1>2
(* The walk of a drain. *)
Draining(op, t) == Base(op, t) /\ Reporting("stop get", t) /\ Stopped(op, t)

(* To land is to go to a label whose copies are right there. *)
LEMMA LandsAt ==
    ASSUME NEW c, NEW op, NEW t, NEW to, NEW u, Go(c, to, u), Local(op, to, u), Same(u, t)
    PROVE  Lands(c, op, t)
BY DEF Lands, Local

(* Landing asks only for the copies a tick has in common with the one it came from. *)
LEMMA LandsLike ==
    ASSUME NEW c, NEW op, NEW t, NEW u, Lands(c, op, u), Same(u, t)
    PROVE  Lands(c, op, t)
BY DEF Lands, Same

(* The choice of the next operation to stop lands with right copies. *)
LEMMA DrainNextLands ==
    ASSUME NEW c, NEW op, NEW t, Draining(op, t), DrainNext(c, t)
    PROVE  Lands(c, op, t)
<1> USE DEF Draining
<1>0. Same(t, t)
    BY DEF Same
<1>1. CASE t.left # {}
  <2>1. Go(c, "stop get", t)
      BY <1>1 DEF DrainNext
  <2>2. Local(op, "stop get", t)
      BY <1>1 DEF Base, Local, Stopping, Rechecking, Ending, PCs
  <2> QED
      BY <2>1, <2>2, <1>0, LandsAt
<1>2. CASE t.left = {}
  <2>1. AfterDrain(c, t) /\ (t.stopped /\ t.then # "begin" => Ended(op, t.started))
      BY <1>2 DEF DrainNext, Stopped, Ended
  <2>2. CASE t.then = "terminal" /\ ~t.stopped
      BY <2>1, <2>2, ReleaseLands DEF AfterDrain
  <2>3. CASE t.then = "terminal" /\ t.stopped /\ CleanupAfterRun
    <3> DEFINE u == [t EXCEPT !.left = Stages]
    <3>1. CleanupNext(c, u)
        BY <2>1, <2>3 DEF AfterDrain
    <3>2. Over(op, u) /\ Same(u, t)
        BY <2>1, <2>3 DEF Over, Base, Copied, Ticks, Same, Reporting, Deciding
    <3> HIDE DEF u
    <3> QED
        BY <3>1, <3>2, CleanupNextLands, LandsLike
  <2>4. CASE t.then \in {"terminal", "sequential"} /\ t.stopped /\ (t.then = "terminal" => ~CleanupAfterRun)
    <3>1. Go(c, "fail", t)
        BY <2>1, <2>4 DEF AfterDrain
    <3>2. Local(op, "fail", t)
        BY <2>1, <2>4 DEF Base, Local, Reporting, Deciding, Stopping, Rechecking, Ending, PCs
    <3> QED
        BY <3>1, <3>2, <1>0, LandsAt
  <2>5. CASE t.then = "sequential" /\ ~t.stopped
    <3> DEFINE u == [t EXCEPT !.left = t.started, !.stopped = TRUE, !.then = "begin"]
    <3>1. Go(c, "stop get", u)
        BY <2>1, <2>5 DEF AfterDrain
    <3>2. Base(op, u) /\ Same(u, t) /\ Reporting("stop get", u) /\ Stopped(op, u) /\ u.left # {}
        BY <2>5 DEF Base, Copied, Ticks, Same, Reporting, Deciding, Stopped
    <3>3. Local(op, "stop get", u)
        BY <3>2 DEF Base, Local, Stopping, Rechecking, Ending, PCs
    <3> HIDE DEF u
    <3> QED
        BY <3>1, <3>2, <3>3, LandsAt
  <2>6. CASE t.then = "begin"
    <3>1. Go(c, "begin", t)
        BY <2>1, <2>6 DEF AfterDrain
    <3>2. Local(op, "begin", t)
        BY <2>6 DEF Base, Local, Reporting, Deciding, Stopping, Rechecking, Ending, PCs
    <3> QED
        BY <3>1, <3>2, <1>0, LandsAt
  <2> QED
      BY <2>2, <2>3, <2>4, <2>5, <2>6 DEF Stopped
<1> QED
    BY <1>1, <1>2

(* So does the beginning of a drain, whatever comes after it, *)
LEMMA DrainLands ==
    ASSUME NEW c, NEW op, NEW t, NEW then \in {"terminal", "sequential", "begin"},
           Base(op, t), then # "terminal" => t.terminal = "",
           Reliable /\ t.terminal # "" => t.outcome = t.terminal,
           Drain(c, t, then)
    PROVE  Lands(c, op, t)
<1> DEFINE u == [t EXCEPT !.left = t.started, !.stopped = TRUE, !.then = then]
<1>1. DrainNext(c, u)
    BY DEF Drain
<1>2. Draining(op, u) /\ Same(u, t)
    BY DEF Draining, Base, Copied, Ticks, Same, Reporting, Deciding, Stopped, Ended
<1> HIDE DEF u
<1> QED
    BY <1>1, <1>2, DrainNextLands, LandsLike

(* a drain before the sequential mode or the end of the run, *)
LEMMA DeferDrainLands ==
    ASSUME NEW c, NEW op, NEW t, Base(op, t), t.terminal = "", DeferDrain(c, t)
    PROVE  Lands(c, op, t)
<1>1. PICK then \in {"sequential", "begin"} : Drain(c, t, then)
    BY DEF DeferDrain
<1> QED
    BY <1>1, DrainLands

(* and a termination with its outcome decided. *)
LEMMA DeferTerminationLands ==
    ASSUME NEW c, NEW op, NEW t, Base(op, t), t.terminal = "",
           NEW position \in Stages \union {0}, NEW outcome \in {"failed", "canceled"},
           DeferTermination(c, t, position, outcome)
    PROVE  Lands(c, op, t)
<1> DEFINE u == [t EXCEPT !.position = position, !.outcome = outcome]
<1>1. Base(op, u) /\ Same(u, t) /\ u.terminal = ""
    BY DEF Base, Copied, Ticks, Same
<1>2. Go(c, "fail stage", u) \/ DeferDrain(c, u)
    BY DEF DeferTermination
<1>3. Local(op, "fail stage", u)
    BY <1>1 DEF Base, Local, Reporting, Deciding, Stopping, Rechecking, Ending, PCs
<1> HIDE DEF u
<1> QED
    BY <1>1, <1>2, <1>3, LandsAt, LandsLike, DeferDrainLands

(* The end of a tick that found nothing to start lands with right copies. *)
LEMMA ConcludeLands ==
    ASSUME NEW c, NEW op, NEW t, Base(op, t), t.terminal = "", Conclude(c, t)
    PROVE  Lands(c, op, t)
<1>0. Same(t, t)
    BY DEF Same
<1>1. CASE \E i \in Stages : t.stage[i] # "succeeded"
    BY <1>1, ReleaseLands DEF Conclude
<1>2. CASE Go(c, "complete", t)
  <2>1. Local(op, "complete", t)
      BY DEF Base, Local, Reporting, Deciding, Stopping, Rechecking, Ending, PCs
  <2> QED
      BY <1>2, <2>1, <1>0, LandsAt
<1>3. CASE DeferTermination(c, t, Len(Kind), "failed")
    BY <1>3, LastIsStage, DeferTerminationLands
<1> DEFINE u == [t EXCEPT !.left = Stages, !.then = "complete", !.outcome = "failed"]
<1>4. CASE CleanupNext(c, u) /\ \A i \in Stages : t.stage[i] = "succeeded"
  <2>1. Base(op, u) /\ Same(u, t) /\ Reporting("fail", u)
      BY DEF Base, Copied, Ticks, Same, Reporting, Deciding
  <2>2. Ended(op, u.started)
      BY <1>4 DEF Base, Copied, Ticks, Ended, Terminal
  <2> HIDE DEF u
  <2> QED
      BY <1>4, <2>1, <2>2, CleanupNextLands, LandsLike DEF Over
<1> QED
    BY <1>1, <1>2, <1>3, <1>4 DEF Conclude

(* The next of the chosen stages, or the end of the tick when none is left. *)
LEMMA StartNextLands ==
    ASSUME NEW c, NEW op, NEW t, Base(op, t), t.terminal = "", t.left # {} => Chosen(op, t), StartNext(c, t)
    PROVE  Lands(c, op, t)
<1>1. CASE t.left # {}
  <2>1. Go(c, "start", t) /\ Same(t, t)
      BY <1>1 DEF StartNext, Same
  <2>2. Local(op, "start", t)
      BY <1>1 DEF Base, Local, Reporting, Deciding, Stopping, Rechecking, Ending, PCs
  <2> QED
      BY <2>1, <2>2, LandsAt
<1>2. CASE t.left = {}
    BY <1>2, ConcludeLands DEF StartNext
<1> QED
    BY <1>1, <1>2
(* What is ready fits, also when the gate keeps some of it back. *)
LEMMA ReadyIsChosen ==
    ASSUME NEW op, NEW t, Base(op, t), Synced(op, t, t.started), NEW picked, picked # {},
           picked \subseteq readyPipelineStages(DependsOn, MaxParallelStages, t.stage, t.started),
           Gate # 0 /\ ~t.execution => \A i \in picked : i < Gate
    PROVE  Chosen(op, [t EXCEPT !.left = picked]) /\ picked \subseteq Stages
<1> DEFINE ready == readyPipelineStages(DependsOn, MaxParallelStages, t.stage, t.started)
           a == Cardinality(ActiveStages(t.stage, t.started))
           u == [t EXCEPT !.left = picked]
<1>0. t.stage \in [Stages -> (OpStatuses \ {"none"}) \union {"pending"}] /\ t.started \in SUBSET Stages
    BY DEF Base, Ticks
<1>1. /\ ready \subseteq Stages /\ ready \intersect t.started = {}
      /\ \A i \in ready : InputsComplete(DependsOn, MaxParallelStages, t.stage, i)
      /\ a + Cardinality(ready) <= Limit(MaxParallelStages)
    BY <1>0, ReadyFits
<1> HIDE DEF ready
<1>2. picked \subseteq ready /\ picked \in SUBSET Stages
    BY <1>1 DEF ready
<1>3. \A i \in picked : InputsComplete(DependsOn, MaxParallelStages, op, i)
  <2> SUFFICES ASSUME NEW i \in picked PROVE InputsComplete(DependsOn, MaxParallelStages, op, i)
      OBVIOUS
  <2>1. InputsComplete(DependsOn, MaxParallelStages, t.stage, i) /\ i \in Stages
      BY <1>1, <1>2
  <2>2. i > 1 => i - 1 \in Stages
      BY <2>1, StagesAreNumbered
  <2>3. DependsOn[i] \subseteq Stages
      BY <2>1, PipelineAssumption
  <2> QED
      BY <2>1, <2>2, <2>3 DEF InputsComplete, Base, Copied
<1>4. a + Cardinality(picked) <= Limit(MaxParallelStages)
  <2>1. IsFiniteSet(ready)
      BY <1>1, FS_Subset, StagesAreNumbered
  <2>2. IsFiniteSet(picked) /\ Cardinality(picked) <= Cardinality(ready)
      BY <2>1, <1>2, FS_Subset
  <2>3. Cardinality(picked) \in Nat /\ Cardinality(ready) \in Nat
      BY <2>1, <2>2, FS_CardinalityType
  <2>4. a \in Nat
    <3>1. ActiveStages(t.stage, t.started) \in SUBSET Stages
        BY <1>0 DEF ActiveStages
    <3> QED
        BY <3>1, FS_Subset, FS_CardinalityType, StagesAreNumbered
  <2>5. Limit(MaxParallelStages) \in Nat
      BY PipelineAssumption DEF Limit
  <2> HIDE DEF a
  <2> QED
      BY <1>1, <2>2, <2>3, <2>4, <2>5
<1>5. u.left = picked /\ u.started = t.started /\ u.stage = t.stage /\ u.execution = t.execution
    BY DEF Base, Ticks
<1> HIDE DEF u
<1>6. Chosen(op, u)
    BY <1>1, <1>2, <1>3, <1>4, <1>5 DEF Chosen, Synced
<1> QED
    BY <1>2, <1>6 DEF u

(* readyPipelineStages answers with stages of the run. *)
LEMMA ReadyAreStages ==
    ASSUME NEW op, NEW t, Base(op, t)
    PROVE  readyPipelineStages(DependsOn, MaxParallelStages, t.stage, t.started) \subseteq Stages
<1>1. t.stage \in [Stages -> (OpStatuses \ {"none"}) \union {"pending"}] /\ t.started \in SUBSET Stages
    BY DEF Base, Ticks
<1> QED
    BY <1>1, ReadyFits

(* The decisions after the synchronisation land with right copies, the *)
(* chosen stages among them.                                           *)
LEMMA DecideLands ==
    ASSUME NEW c, NEW op, NEW t, Base(op, t), t.terminal = "", Synced(op, t, t.started), Decide(c, t)
    PROVE  Lands(c, op, t)
<1> DEFINE ready == readyPipelineStages(DependsOn, MaxParallelStages, t.stage, t.started)
           before == {i \in ready : i < Gate}
<1>1. CASE t.cancel
    BY <1>1, DeferTerminationLands DEF Decide
<1>2. ASSUME NEW picked \in {ready, before}, StartNext(c, [t EXCEPT !.left = picked]),
             Gate # 0 /\ ~t.execution => \A i \in picked : i < Gate
      PROVE  Lands(c, op, t)
  <2> DEFINE u == [t EXCEPT !.left = picked]
  <2>1. ready \subseteq Stages
      BY ReadyAreStages
  <2>2. picked \subseteq ready /\ picked \in SUBSET Stages
      BY <1>2, <2>1
  <2>3. Base(op, u) /\ Same(u, t) /\ u.terminal = "" /\ u.left = picked
      BY <2>2 DEF Base, Copied, Ticks, Same
  <2>4. picked # {} => Chosen(op, u)
      BY <1>2, <2>2, ReadyIsChosen
  <2> HIDE DEF u, ready
  <2>5. Lands(c, op, u)
      BY <1>2, <2>3, <2>4, StartNextLands DEF u
  <2> QED
      BY <2>3, <2>5, LandsLike
<1>3. CASE ~t.cancel /\ (Gate = 0 \/ t.execution)
    BY <1>2, <1>3 DEF Decide
<1>4. CASE ~t.cancel /\ ~(Gate = 0 \/ t.execution)
  <2>1. CASE \A i \in 1..(Gate - 1) : t.stage[i] = "succeeded"
    <3>0. \A i \in 1..(Gate - 1) : i \in Stages
        BY GateInside
    <3>1. \A i \in 1..(Gate - 1) : op[i] = "succeeded"
        BY <2>1, <3>0 DEF Base, Copied
    <3>2. Local(op, "initialize", t) /\ Same(t, t)
        BY <3>1 DEF Base, Local, Reporting, Deciding, Stopping, Rechecking, Ending, PCs, Same
    <3> QED
        BY <1>4, <2>1, <3>2, LandsAt, ReleaseLands DEF Decide
  <2>2. CASE ~ \A i \in 1..(Gate - 1) : t.stage[i] = "succeeded"
      BY <1>2, <1>4, <2>2 DEF Decide
  <2> QED
      BY <2>1, <2>2
<1> QED
    BY <1>1, <1>3, <1>4

(* The next stage to synchronise, or the decisions when all have been. *)
LEMMA SyncNextLands ==
    ASSUME NEW c, NEW op, NEW t, Base(op, t), t.terminal = "", t.left \subseteq t.started,
           Synced(op, t, t.started \ t.left), SyncNext(c, t)
    PROVE  Lands(c, op, t)
<1>1. CASE t.left # {}
  <2>1. Go(c, "sync get", t) /\ Same(t, t)
      BY <1>1 DEF SyncNext, Same
  <2>2. Local(op, "sync get", t)
      BY <1>1 DEF Base, Local, Reporting, Deciding, Stopping, Rechecking, Ending, PCs
  <2> QED
      BY <2>1, <2>2, LandsAt
<1>2. CASE t.left = {}
    BY <1>2, DecideLands DEF SyncNext, Synced
<1> QED
    BY <1>1, <1>2
-----------------------------------------------------------------------------
(* What a step leaves true.                                                *)

(* Operations go on: none is forgotten, what is over stays so, and what has *)
(* succeeded has succeeded for good.                                       *)
Moves(op, next) ==
    \A i \in Stages : /\ op[i] # "none" => next[i] # "none"
                      /\ op[i] \in Terminal => next[i] \in Terminal
                      /\ op[i] = "succeeded" => next[i] = "succeeded"

(* What a tick knows of operations stays true while operations only advance. *)
LEMMA LocalStable ==
    ASSUME NEW op, NEW next, NEW to, NEW u, Local(op, to, u), Moves(op, next)
    PROVE  Local(next, to, u)
<1>1. u.started \subseteq Stages /\ u.left \subseteq Stages
    BY DEF Local, Ticks
<1>2. \A i \in Stages : op[i] = "succeeded" => next[i] = "succeeded"
    BY DEF Moves
<1>3. Copied(next, u)
    BY <1>1, <1>2 DEF Local, Copied, Moves
<1>4. ASSUME NEW S \in SUBSET u.started
      PROVE  /\ Ended(op, S) => Ended(next, S)
             /\ Synced(op, u, S) => Synced(next, u, S)
    BY <1>1, <1>4 DEF Ended, Synced, Moves
<1>5. ASSUME to \in {"sync set", "stop sync"}
      PROVE  Heard(next, Current(u), u.seen)
  <2>1. Current(u) \in Stages
      BY <1>1, <1>5, CurrentIsLeft DEF Local, Stopping
  <2> QED
      BY <1>5, <2>1 DEF Local, Moves, Heard
<1>6. to = "initialize" => \A j \in 1..(Gate - 1) : next[j] = "succeeded"
    BY <1>2, GateInside DEF Local
<1>7. ASSUME to = "start" PROVE Chosen(next, u)
  <2>1. Chosen(op, u)
      BY <1>7 DEF Local
  <2>2. Synced(next, u, u.started)
      BY <2>1, <1>4 DEF Chosen
  <2>3. ASSUME NEW i \in u.left PROVE InputsComplete(DependsOn, MaxParallelStages, next, i)
    <3>1. InputsComplete(DependsOn, MaxParallelStages, op, i) /\ i \in Stages
        BY <2>1, <2>3, <1>1 DEF Chosen
    <3>2. i > 1 => i - 1 \in Stages
        BY <3>1, StagesAreNumbered
    <3>3. DependsOn[i] \subseteq Stages
        BY <3>1, PipelineAssumption
    <3> QED
        BY <3>1, <3>2, <3>3, <1>2 DEF InputsComplete
  <2> QED
      BY <2>1, <2>2, <2>3 DEF Chosen
<1>8. to \in Stopping => Stopped(next, u)
    BY <1>4 DEF Local, Stopped
<1>9. to \in {"sync get", "sync set"} => Synced(next, u, u.started \ u.left)
    BY <1>4 DEF Local
<1>10. to \in Ending /\ (to = "fail" => Reliable) => Ended(next, u.started)
    BY <1>4 DEF Local
<1> QED
    BY <1>3, <1>5, <1>6, <1>7, <1>8, <1>9, <1>10 DEF Local

(* The step of somebody else. *)
Aside(d) ==
    /\ pc'[d] = pc[d] /\ tick'[d] = tick[d]
    /\ lease_owner' = d => lease_owner = d /\ terminal_status' = terminal_status /\ Started' = Started

(* What has been read stays below what is stored. *)
Growing ==
    /\ Moves(Verdict, Verdict')
    /\ execution_requested => execution_requested'
    /\ \A i \in Stages : attempts[i] \in Nat /\ attempts'[i] \in Nat /\ attempts[i] <= attempts'[i]

(* A coordinator that stands aside stays informed while the others take steps. *)
LEMMA InformedStays ==
    ASSUME NEW d \in Coordinators, TypeOK, Informed(d), Aside(d), Growing
    PROVE  Informed(d)'
<1>1. Local(Verdict', pc[d], tick[d])
    BY LocalStable DEF Informed, Growing
<1>2. Local(Verdict, pc[d], tick[d])'
    BY <1>1 DEF Aside
<1>3. Own(d)'
    BY DEF Informed, Aside, Own
<1>4. Grown(d)'
  <2>1. \A i \in Stages : tick[d].attempt[i] \in Nat
    <3>1. tick[d].attempt \in [Stages -> 0..(MaxRetries + 1)]
        BY DEF TypeOK, Ticks
    <3> QED
        BY <3>1, PipelineAssumption
  <2>2. tick'[d] = tick[d] /\ Grown(d)
      BY DEF Informed, Aside
  <2> QED
      BY <2>1, <2>2 DEF Growing, Grown
<1> QED
    BY <1>2, <1>3, <1>4 DEF Informed

(* What the coordinator that takes the step must know, in the next state. *)
Knows(c, t) ==
    /\ lease_owner = c => t.terminal = terminal_status /\ t.started = Started
    /\ t.execution => execution_requested
    /\ \A i \in Stages : t.attempt[i] <= attempts[i]

(* A coordinator that lands is informed where it lands. *)
LEMMA InformedLands ==
    ASSUME NEW c \in Coordinators, TypeOK, NEW t, Lands(c, Verdict', t), Knows(c, t)',
           \A i \in Stages : attempts'[i] \in Nat
    PROVE  Informed(c)' /\ pc' \in [Coordinators -> PCs] /\ tick' \in [Coordinators -> Ticks]
<1>1. PICK to \in PCs, u \in Ticks :
         /\ Go(c, to, u)
         /\ Local(Verdict', to, u)
         /\ (to \in {"release", "idle"} /\ u = NoTick) \/ Same(u, t)
    BY DEF Lands
<1>2. pc' = [pc EXCEPT ![c] = to] /\ tick' = [tick EXCEPT ![c] = u]
    BY <1>1 DEF Go
<1>3. pc' \in [Coordinators -> PCs] /\ tick' \in [Coordinators -> Ticks] /\ pc'[c] = to /\ tick'[c] = u
    BY <1>2 DEF TypeOK
<1>4. Own(c)' /\ Grown(c)'
  <2>1. CASE to \in {"release", "idle"} /\ u = NoTick
    <3>1. to \notin Working /\ u.execution = FALSE /\ \A i \in Stages : u.attempt[i] = 0
        BY <2>1 DEF Working, NoTick
    <3> QED
        BY <3>1, <1>3 DEF Own, Grown
  <2>2. CASE Same(u, t)
      BY <2>2, <1>3 DEF Own, Grown, Same, Knows
  <2> QED
      BY <1>1, <2>1, <2>2
<1> QED
    BY <1>1, <1>3, <1>4 DEF Informed
(* A step of one coordinator: the others stand aside. *)
LEMMA TickStep ==
    ASSUME IndInv, NEW c \in Coordinators, NEW t, Lands(c, Verdict', t), Knows(c, t)', Growing,
           \A d \in Coordinators \ {c} :
               lease_owner' = d => lease_owner = d /\ terminal_status' = terminal_status /\ Started' = Started
    PROVE  /\ \A d \in Coordinators : Informed(d)'
           /\ pc' \in [Coordinators -> PCs] /\ tick' \in [Coordinators -> Ticks]
<1>1. Informed(c)' /\ pc' \in [Coordinators -> PCs] /\ tick' \in [Coordinators -> Ticks]
    BY InformedLands DEF IndInv, Growing
<1>2. ASSUME NEW d \in Coordinators \ {c} PROVE Informed(d)'
  <2>1. pc'[d] = pc[d] /\ tick'[d] = tick[d]
      BY <1>2 DEF Lands, Go, IndInv, TypeOK
  <2>2. Aside(d)
      BY <2>1, <1>2 DEF Aside
  <2> QED
      BY <1>2, <2>2, InformedStays DEF IndInv
<1> QED
    BY <1>1, <1>2

(* A step of somebody who is no coordinator. *)
LEMMA OutsideStep ==
    ASSUME IndInv, UNCHANGED <<pc, tick>>, Growing,
           \A d \in Coordinators :
               lease_owner' = d => lease_owner = d /\ terminal_status' = terminal_status /\ Started' = Started
    PROVE  /\ \A d \in Coordinators : Informed(d)'
           /\ pc' \in [Coordinators -> PCs] /\ tick' \in [Coordinators -> Ticks]
<1>1. \A d \in Coordinators : Aside(d)
    BY DEF Aside
<1> QED
    BY <1>1, InformedStays DEF IndInv, TypeOK

(* Nothing but rows changes, and those as they should. *)
Still ==
    /\ UNCHANGED <<run, lease_owner, operation, expired, late, attempts, retries>>
    /\ \A i \in Stages : stage'[i] = "succeeded" => operation[i] = "succeeded"
    /\ \A i \in Stages : /\ cleanup_status'[i] = "pending" => cleanup_status[i] = "pending"
                         /\ cleanup_operation'[i] = cleanup_operation[i]
                         /\ cleanup_op[i] # "none" => cleanup_op'[i] # "none"

(* A step that leaves operations and the status of the run alone keeps it sound. *)
LEMMA SoundStill ==
    ASSUME Sound, Still
    PROVE  Sound'
<1>1. Started' = Started
    BY DEF Still, Started
<1>2. Leased' /\ Gated' /\ SucceededRows' /\ GateHolds' /\ SucceededIsComplete'
    BY <1>1 DEF Sound, Still, run, Leased, Gated, SucceededRows, GateHolds, SucceededIsComplete
<1>3. Attempted'
    BY DEF Sound, Still, Attempted
<1>4. StartedInOrder' /\ (Reliable => DrainedBeforeFinal')
    BY <1>1 DEF Sound, Still, run, StartedInOrder, DrainedBeforeFinal, OperationOver
<1>5. Bounded' /\ Lapsed'
    BY DEF Sound, Still, Bounded, Unfinished, Lapsed
<1> QED
    BY <1>2, <1>3, <1>4, <1>5 DEF Sound

(* Attempts are counted, which the provers want to be told. *)
LEMMA AttemptsAreNumbers == TypeOK => \A i \in Stages : attempts[i] \in Nat
<1> SUFFICES ASSUME TypeOK PROVE \A i \in Stages : attempts[i] \in Nat
    OBVIOUS
<1>1. attempts \in [Stages -> 0..(MaxRetries + 1)]
    BY DEF TypeOK
<1> QED
    BY <1>1, PipelineAssumption

(* A store call that changes no more than rows: from what the tick knew,   *)
(* through t, to where it lands.                                           *)
LEMMA QuietTick ==
    ASSUME IndInv, NEW c \in Coordinators, NEW t, Lands(c, Verdict, t), Knows(c, t), Still,
           UNCHANGED <<run, lease, ran, cleanup_op, cleanup_operation, swept, bounds>>,
           stage' \in [Stages -> (OpStatuses \ {"none"}) \union {"pending"}],
           cleanup_status' \in [Stages -> CleanupStatuses]
    PROVE  IndInv'
<1>1. Verdict' = Verdict /\ operation' = operation /\ attempts' = attempts /\ Started' = Started
    BY DEF Still, Started, Verdict
<1>2. Growing
    BY <1>1, AttemptsAreNumbers DEF Growing, Moves, IndInv, run
<1>3. Knows(c, t)'
    BY <1>1 DEF Knows, run, lease
<1>4. Lands(c, Verdict', t)
    BY <1>1
<1>5. /\ \A d \in Coordinators : Informed(d)'
      /\ pc' \in [Coordinators -> PCs] /\ tick' \in [Coordinators -> Ticks]
    BY <1>1, <1>2, <1>3, <1>4, TickStep DEF run, lease
<1>6. Sound'
    BY SoundStill DEF IndInv
<1>7. TypeOK'
    BY <1>1, <1>5 DEF IndInv, TypeOK, run, lease, bounds, swept
<1> QED
    BY <1>5, <1>6, <1>7 DEF IndInv
-----------------------------------------------------------------------------
(* The store calls of a tick that change rows at most.                     *)

(* What a working coordinator knows. *)
LEMMA WorkingKnows ==
    ASSUME IndInv, NEW c \in Coordinators, pc[c] \in Working, NEW t, t = tick[c]
    PROVE  Local(Verdict, pc[c], t) /\ Base(Verdict, t) /\ Knows(c, t) /\ t \in Ticks /\ Same(t, t)
<1>1. Informed(c)
    BY DEF IndInv
<1>2. Local(Verdict, pc[c], t)
    BY <1>1 DEF Informed
<1>3. Base(Verdict, t) /\ t \in Ticks
    BY <1>2 DEF Local, Base
<1>4. Knows(c, t)
    BY <1>1 DEF Informed, Own, Grown, Knows
<1> QED
    BY <1>2, <1>3, <1>4 DEF Same

(* A tick that differs in nothing that is known. *)
LEMMA KnowsLike ==
    ASSUME NEW c, NEW t, NEW u, Knows(c, t), Same(u, t)
    PROVE  Knows(c, u)
BY DEF Knows, Same

(* A stage is taken off the list. *)
LEMMA VisitedIsTick ==
    ASSUME NEW t \in Ticks, t.left # {}
    PROVE  /\ Current(t) \in t.left /\ Current(t) \in Stages
           /\ Visited(t) \in Ticks /\ Visited(t).left = t.left \ {Current(t)}
           /\ Visited(t) = [t EXCEPT !.left = t.left \ {Current(t)}]
<1>1. t.left \subseteq Stages
    BY DEF Ticks
<1>2. Current(t) \in t.left /\ Current(t) \in Stages
    BY <1>1, CurrentIsLeft
<1> QED
    BY <1>1, <1>2 DEF Visited, Ticks

(* The tick goes on and nothing else changes. *)
LEMMA LocalTick ==
    ASSUME IndInv, NEW c \in Coordinators, NEW t, NEW op, op = Verdict, Lands(c, op, t), Knows(c, t),
           UNCHANGED <<run, lease, rows, ops, bounds>>
    PROVE  IndInv'
<1>1. Still
    BY DEF Still, rows, ops, swept, bounds, lease, IndInv, Sound, SucceededRows
<1> QED
    BY <1>1, QuietTick DEF IndInv, TypeOK, rows, ops, swept

(* The invariant is kept, action by action: the read of the run and its stages, *)
LEMMA ReadKept ==
    ASSUME IndInv, NEW c \in Coordinators, GetPipelineRun(c)
    PROVE  IndInv'
<1>1. PICK t : t = [NoTick EXCEPT
                !.terminal = terminal_status, !.cancel = cancel_requested,
                !.execution = execution_requested, !.initialized = initialized,
                !.stage = stage, !.started = Started,
                !.cleanup = cleanup_status, !.attempt = cleanup_operation]
    OBVIOUS
<1>2. /\ t.terminal = terminal_status /\ t.execution = execution_requested
      /\ t.stage = stage /\ t.started = Started /\ t.attempt = cleanup_operation /\ t.then = ""
    BY <1>1 DEF NoTick
<1>3. t \in Ticks
  <2>1. NoTick \in Ticks
      BY NoTickIsLocal DEF Local
  <2>2. /\ terminal_status \in {"", "failed", "canceled"} /\ cancel_requested \in BOOLEAN
        /\ execution_requested \in BOOLEAN /\ initialized \in BOOLEAN
        /\ stage \in [Stages -> (OpStatuses \ {"none"}) \union {"pending"}]
        /\ Started \in SUBSET Stages
        /\ cleanup_status \in [Stages -> CleanupStatuses]
        /\ cleanup_operation \in [Stages -> 0..(MaxRetries + 1)]
      BY DEF IndInv, TypeOK, Started
  <2> QED
      BY <1>1, <2>1, <2>2, ZenonT(60) DEF Ticks
<1>4. Copied(Verdict, t) /\ Knows(c, t)
    BY <1>2, VerdictReads DEF IndInv, Sound, SucceededRows, Attempted, Copied, Knows, Started
<1>5. /\ pc[c] = "read"
      /\ \/ t.terminal # "" /\ Drain(c, [t EXCEPT !.outcome = t.terminal], "terminal")
         \/ t.terminal = "" /\ SyncNext(c, [t EXCEPT !.left = t.started])
         \/ "pipeline" \in Failures /\ Go(c, "fail", [t EXCEPT !.outcome = "failed"])
      /\ UNCHANGED <<run, lease, rows, ops, bounds>>
    BY <1>1 DEF GetPipelineRun
<1>6. PICK op : op = Verdict
    OBVIOUS
<1>7. Base(op, t)
    BY <1>3, <1>4, <1>6 DEF Base
<1>8. Lands(c, op, t)
  <2>1. CASE t.terminal # "" /\ Drain(c, [t EXCEPT !.outcome = t.terminal], "terminal")
    <3> DEFINE u == [t EXCEPT !.outcome = t.terminal]
    <3>1. Base(op, u) /\ Same(u, t) /\ u.outcome = u.terminal
        BY <1>7, <2>1 DEF Base, Copied, Ticks, Same
    <3>2. Drain(c, u, "terminal")
        BY <2>1
    <3> HIDE DEF u
    <3>3. Lands(c, op, u)
        BY <3>1, <3>2, DrainLands
    <3> QED
        BY <3>1, <3>3, LandsLike
  <2>2. CASE t.terminal = "" /\ SyncNext(c, [t EXCEPT !.left = t.started])
    <3> DEFINE u == [t EXCEPT !.left = t.started]
    <3>1. Base(op, u) /\ Same(u, t) /\ u.terminal = "" /\ u.left = u.started
        BY <1>7, <2>2 DEF Base, Copied, Ticks, Same
    <3>2. SyncNext(c, u)
        BY <2>2
    <3> HIDE DEF u
    <3>3. Lands(c, op, u)
        BY <3>1, <3>2, SyncNextLands DEF Synced
    <3> QED
        BY <3>1, <3>3, LandsLike
  <2>3. CASE "pipeline" \in Failures /\ Go(c, "fail", [t EXCEPT !.outcome = "failed"])
    <3> DEFINE u == [t EXCEPT !.outcome = "failed"]
    <3>1. Base(op, u) /\ Same(u, t) /\ u.then = ""
        BY <1>2, <1>7, <2>3 DEF Base, Copied, Ticks, Same
    <3>2. Local(op, "fail", u)
        BY <3>1, <2>3 DEF Base, Local, Reporting, Reliable, Deciding, Stopping, Rechecking, Ending, PCs
    <3>3. Go(c, "fail", u)
        BY <2>3
    <3> HIDE DEF u
    <3> QED
        BY <3>1, <3>2, <3>3, LandsAt
  <2> QED
      BY <1>5, <2>1, <2>2, <2>3
<1> QED
    BY <1>4, <1>5, <1>6, <1>8, LocalTick

(* the read of the operation of a stage, *)
LEMMA SyncGetKept ==
    ASSUME IndInv, NEW c \in Coordinators, SyncGet(c)
    PROVE  IndInv'
<1>1. PICK t, op : t = tick[c] /\ op = Verdict
    OBVIOUS
<1>2. Local(op, "sync get", t) /\ Base(op, t) /\ Knows(c, t) /\ t \in Ticks /\ Same(t, t)
    BY <1>1, WorkingKnows DEF SyncGet, Working, PCs
<1>3. /\ t.left # {} /\ t.left \subseteq t.started /\ t.terminal = ""
      /\ Synced(op, t, t.started \ t.left) /\ Copied(op, t) /\ Reporting("sync get", t)
    BY <1>2 DEF Local, Reporting, Deciding
<1>4. Current(t) \in t.left /\ Current(t) \in Stages
    BY <1>2, <1>3, VisitedIsTick
<1>5. PICK seen : seen = operation[Current(t)]
    OBVIOUS
<1>6. \/ Go(c, "sync set", [t EXCEPT !.seen = seen])
      \/ DeferTermination(c, t, Current(t), "failed")
    BY <1>1, <1>5 DEF SyncGet
<1>7. seen \in OpStatuses /\ seen # "none" /\ Heard(op, Current(t), seen)
    BY <1>1, <1>3, <1>4, <1>5, VerdictReads DEF IndInv, TypeOK, Copied, Heard
<1>8. Lands(c, op, t)
  <2>1. CASE Go(c, "sync set", [t EXCEPT !.seen = seen])
    <3> DEFINE u == [t EXCEPT !.seen = seen]
    <3>1. /\ u \in Ticks /\ Same(u, t) /\ Copied(op, u) /\ Reporting("sync set", u)
          /\ u.left # {} /\ u.left \subseteq u.started /\ Synced(op, u, u.started \ u.left)
        BY <1>2, <1>3, <1>7 DEF Ticks, Same, Copied, Reporting, Deciding, Synced
    <3>2. Current(u) = Current(t) /\ u.seen = seen
        BY <1>2 DEF Current, Ticks
    <3>3. Local(op, "sync set", u)
        BY <3>1, <3>2, <1>7 DEF Local, Stopping, Rechecking, Ending, PCs
    <3>4. Go(c, "sync set", u)
        BY <2>1
    <3> HIDE DEF u
    <3> QED
        BY <3>1, <3>3, <3>4, LandsAt
  <2>2. CASE DeferTermination(c, t, Current(t), "failed")
      BY <2>2, <1>2, <1>3, <1>4, DeferTerminationLands
  <2> QED
      BY <1>6, <2>1, <2>2
<1> QED
    BY <1>1, <1>2, <1>8, LocalTick DEF SyncGet

(* the write of its status to the stage row, *)
LEMMA SyncSetKept ==
    ASSUME IndInv, NEW c \in Coordinators, SyncSet(c)
    PROVE  IndInv'
<1>1. PICK t, op : t = tick[c] /\ op = Verdict
    OBVIOUS
<1>2. Local(op, "sync set", t) /\ Base(op, t) /\ Knows(c, t) /\ t \in Ticks /\ Same(t, t)
    BY <1>1, WorkingKnows DEF SyncSet, Working, PCs
<1>3. /\ t.left # {} /\ t.left \subseteq t.started /\ t.terminal = "" /\ Synced(op, t, t.started \ t.left)
      /\ t.seen # "none" /\ Heard(op, Current(t), t.seen)
    BY <1>2 DEF Local, Reporting, Deciding
<1>4. PICK i : i = Current(t)
    OBVIOUS
<1>5. i \in t.left /\ i \in Stages /\ Visited(t) = [t EXCEPT !.left = t.left \ {i}] /\ Visited(t) \in Ticks
    BY <1>2, <1>3, <1>4, VisitedIsTick
<1>6. PICK u : u = [Visited(t) EXCEPT !.stage[i] = t.seen, !.seen = "none"]
    OBVIOUS
<1>7. t.seen \in OpStatuses \ {"none"}
    BY <1>2, <1>3 DEF Ticks
<1>8. /\ u.left = t.left \ {i} /\ u.started = t.started /\ u.terminal = "" /\ Same(u, t)
      /\ u.stage = [t.stage EXCEPT ![i] = t.seen]
    BY <1>2, <1>3, <1>5, <1>6 DEF Ticks, Same
<1>9. u \in Ticks
  <2>1. [t.stage EXCEPT ![i] = t.seen] \in [Stages -> (OpStatuses \ {"none"}) \union {"pending"}]
      BY <1>2, <1>7 DEF Ticks
  <2>2. u = [t EXCEPT !.left = t.left \ {i}, !.stage = [t.stage EXCEPT ![i] = t.seen], !.seen = "none"]
      BY <1>2, <1>5, <1>6 DEF Ticks
  <2> QED
      BY <1>2, <2>1, <2>2 DEF Ticks, OpStatuses
<1>10. t.stage \in [Stages -> (OpStatuses \ {"none"}) \union {"pending"}] /\ t.started \subseteq Stages
    BY <1>2 DEF Ticks
<1>11. Base(op, u) /\ (t.seen \notin {"failed", "canceled"} => Synced(op, u, u.started \ u.left))
  <2>1. Copied(op, u)
      BY <1>2, <1>3, <1>4, <1>5, <1>8, <1>10 DEF Base, Copied, Heard
  <2>2. t.seen \notin {"failed", "canceled"} => Synced(op, u, u.started \ u.left)
      BY <1>3, <1>4, <1>8, <1>10 DEF Synced, Heard, Terminal
  <2> QED
      BY <1>9, <2>1, <2>2 DEF Base
<1>12. /\ stage' = [stage EXCEPT ![i] = t.seen]
       /\ IF t.seen \in {"failed", "canceled"} THEN DeferTermination(c, u, i, t.seen) ELSE SyncNext(c, u)
       /\ UNCHANGED <<run, lease, cleanup_status, cleanup_operation, ops, bounds>>
    BY <1>1, <1>4, <1>6 DEF SyncSet
<1>13. Lands(c, op, u)
    BY <1>3, <1>5, <1>8, <1>11, <1>12, DeferTerminationLands, SyncNextLands
<1>14. stage' \in [Stages -> (OpStatuses \ {"none"}) \union {"pending"}]
    BY <1>7, <1>12 DEF IndInv, TypeOK
<1>15. Still
  <2>1. \A k \in Stages : stage'[k] = "succeeded" => operation[k] = "succeeded"
      BY <1>1, <1>3, <1>4, <1>12, VerdictReads DEF IndInv, TypeOK, Sound, SucceededRows, Heard
  <2> QED
      BY <1>12, <2>1 DEF Still, lease, ops, swept, bounds
<1>16. Knows(c, u)
    BY <1>2, <1>8, KnowsLike
<1>17. cleanup_status' \in [Stages -> CleanupStatuses]
    BY <1>12 DEF IndInv, TypeOK
<1> QED
    BY <1>1, <1>12, <1>13, <1>14, <1>15, <1>16, <1>17, QuietTick DEF ops, swept
(* the record of a stage that could not be started, *)
LEMMA FailStageKept ==
    ASSUME IndInv, NEW c \in Coordinators, FailPipelineRunStage(c)
    PROVE  IndInv'
<1>1. PICK t, op : t = tick[c] /\ op = Verdict
    OBVIOUS
<1>2. Local(op, "fail stage", t) /\ Base(op, t) /\ Knows(c, t)
    BY <1>1, WorkingKnows DEF FailPipelineRunStage, Working, PCs
<1>3. t.terminal = ""
    BY <1>2 DEF Local, Reporting, Deciding
<1>4. Lands(c, op, t)
    BY <1>1, <1>2, <1>3, DeferDrainLands DEF FailPipelineRunStage
<1>5. /\ \E s \in {"canceled", "failed"} :
            stage' = [stage EXCEPT ![t.position] = IF @ \in Terminal THEN @ ELSE s]
      /\ UNCHANGED <<run, lease, cleanup_status, cleanup_operation, ops, bounds>>
    BY <1>1 DEF FailPipelineRunStage
<1>6. /\ stage' \in [Stages -> (OpStatuses \ {"none"}) \union {"pending"}]
      /\ \A i \in Stages : stage'[i] = "succeeded" => stage[i] = "succeeded"
    BY <1>5 DEF IndInv, TypeOK, OpStatuses, Terminal
<1>7. Still
    BY <1>5, <1>6 DEF Still, lease, ops, swept, bounds, IndInv, Sound, SucceededRows
<1>8. cleanup_status' \in [Stages -> CleanupStatuses]
    BY <1>5 DEF IndInv, TypeOK
<1> QED
    BY <1>1, <1>2, <1>4, <1>5, <1>6, <1>7, <1>8, QuietTick DEF ops, swept

(* the read of an operation that is to be stopped, *)
LEMMA StopGetKept ==
    ASSUME IndInv, NEW c \in Coordinators, StopGet(c)
    PROVE  IndInv'
<1>1. PICK t, op : t = tick[c] /\ op = Verdict
    OBVIOUS
<1>2. Local(op, "stop get", t) /\ Base(op, t) /\ Knows(c, t) /\ t \in Ticks
    BY <1>1, WorkingKnows DEF StopGet, Working, PCs
<1>3. t.left # {} /\ Stopped(op, t) /\ Copied(op, t) /\ Reporting("stop get", t)
    BY <1>2 DEF Local, Stopping
<1>4. Current(t) \in t.left /\ Current(t) \in Stages
    BY <1>2, <1>3, VisitedIsTick
<1>5. PICK seen : seen = operation[Current(t)]
    OBVIOUS
<1>6. seen \in OpStatuses /\ seen # "none" /\ Heard(op, Current(t), seen)
    BY <1>1, <1>3, <1>4, <1>5, VerdictReads DEF IndInv, TypeOK, Copied, Stopped, Heard
<1> DEFINE u == [t EXCEPT !.seen = seen]
<1>7. Go(c, "stop sync", u)
    BY <1>1, <1>5 DEF StopGet
<1>8. /\ u \in Ticks /\ Same(u, t) /\ Copied(op, u) /\ Reporting("stop sync", u)
      /\ u.left # {} /\ Stopped(op, u)
    BY <1>2, <1>3, <1>6 DEF Ticks, Same, Copied, Reporting, Deciding, Stopped
<1>9. Current(u) = Current(t) /\ u.seen = seen
    BY <1>2 DEF Current, Ticks
<1>10. Local(op, "stop sync", u)
    BY <1>6, <1>8, <1>9 DEF Local, Stopping, Rechecking, Ending, PCs
<1> HIDE DEF u
<1>11. Lands(c, op, t)
    BY <1>7, <1>8, <1>10, LandsAt
<1> QED
    BY <1>1, <1>2, <1>11, LocalTick DEF StopGet

(* the write of the status it was found with, *)
LEMMA StopSyncKept ==
    ASSUME IndInv, NEW c \in Coordinators, StopSync(c)
    PROVE  IndInv'
<1>1. PICK t, op : t = tick[c] /\ op = Verdict
    OBVIOUS
<1>2. Local(op, "stop sync", t) /\ Base(op, t) /\ Knows(c, t) /\ t \in Ticks
    BY <1>1, WorkingKnows DEF StopSync, Working, PCs
<1>3. /\ t.left # {} /\ Stopped(op, t) /\ Copied(op, t) /\ Reporting("stop sync", t)
      /\ t.seen # "none" /\ Heard(op, Current(t), t.seen)
    BY <1>2 DEF Local, Stopping
<1>4. PICK i : i = Current(t)
    OBVIOUS
<1>5. i \in t.left /\ i \in Stages /\ Visited(t) = [t EXCEPT !.left = t.left \ {i}] /\ Visited(t) \in Ticks
    BY <1>2, <1>3, <1>4, VisitedIsTick
<1>6. t.seen \in OpStatuses \ {"none"}
    BY <1>2, <1>3 DEF Ticks
<1>7. /\ stage' = [stage EXCEPT ![i] = t.seen]
      /\ IF t.seen \in Terminal
         THEN DrainNext(c, [Visited(t) EXCEPT !.seen = "none"])
         ELSE Go(c, "stop cancel", [t EXCEPT !.seen = "none", !.stopped = FALSE])
      /\ UNCHANGED <<run, lease, cleanup_status, cleanup_operation, ops, bounds>>
    BY <1>1, <1>4 DEF StopSync
<1>8. Lands(c, op, t)
  <2>1. CASE t.seen \in Terminal
    <3> DEFINE u == [Visited(t) EXCEPT !.seen = "none"]
    <3>1. DrainNext(c, u)
        BY <1>7, <2>1
    <3>2. /\ u \in Ticks /\ Same(u, t) /\ u.stage = t.stage /\ u.left = t.left \ {i} /\ u.then = t.then
          /\ u.stopped = t.stopped /\ u.outcome = t.outcome
        BY <1>2, <1>5 DEF Ticks, Same, OpStatuses
    <3> HIDE DEF u
    <3>3. Copied(op, u) /\ Reporting("stop get", u)
        BY <1>3, <3>2 DEF Copied, Reporting, Deciding, Same
    <3>4. Stopped(op, u)
        BY <1>3, <1>4, <1>5, <2>1, <3>2 DEF Stopped, Ended, Same, Heard
    <3> QED
        BY <3>1, <3>2, <3>3, <3>4, DrainNextLands, LandsLike DEF Draining, Base
  <2>2. CASE t.seen \notin Terminal
    <3> DEFINE u == [t EXCEPT !.seen = "none", !.stopped = FALSE]
    <3>1. Go(c, "stop cancel", u)
        BY <1>7, <2>2
    <3>2. /\ u \in Ticks /\ Same(u, t) /\ u.stage = t.stage /\ u.left = t.left /\ u.then = t.then
          /\ ~u.stopped /\ u.outcome = t.outcome
        BY <1>2 DEF Ticks, Same, OpStatuses
    <3> HIDE DEF u
    <3>3. Copied(op, u) /\ Reporting("stop cancel", u) /\ Stopped(op, u)
        BY <1>3, <1>5, <3>2 DEF Copied, Reporting, Deciding, Same, Stopped
    <3>4. Local(op, "stop cancel", u)
        BY <1>3, <3>2, <3>3 DEF Local, Stopping, Rechecking, Ending, PCs
    <3> QED
        BY <3>1, <3>2, <3>4, LandsAt
  <2> QED
      BY <2>1, <2>2
<1>9. stage' \in [Stages -> (OpStatuses \ {"none"}) \union {"pending"}]
    BY <1>6, <1>7 DEF IndInv, TypeOK
<1>10. Still
  <2>1. \A k \in Stages : stage'[k] = "succeeded" => operation[k] = "succeeded"
      BY <1>1, <1>3, <1>4, <1>7, VerdictReads DEF IndInv, TypeOK, Sound, SucceededRows, Heard
  <2> QED
      BY <1>7, <2>1 DEF Still, lease, ops, swept, bounds
<1>11. cleanup_status' \in [Stages -> CleanupStatuses]
    BY <1>7 DEF IndInv, TypeOK
<1> QED
    BY <1>1, <1>2, <1>7, <1>8, <1>9, <1>10, <1>11, QuietTick DEF ops, swept
(* While a run is cleaned up its operations are over. *)
LEMMA EndingIsOver ==
    ASSUME NEW op, NEW to \in Ending \ {"fail"}, NEW t, Local(op, to, t)
    PROVE  Over(op, t)
BY DEF Local, Over, Base, Reporting, Ending, Rechecking, Deciding

(* A tick that differs in its walk only. *)
Like(u, t) == Same(u, t) /\ u.stage = t.stage /\ u.outcome = t.outcome /\ u.then = t.then

(* With the operations of one tick over, they are over in every tick *)
(* that differs in its walk only.                                    *)
LEMMA OverLike ==
    ASSUME NEW op, NEW t, NEW u \in Ticks, Over(op, t), Like(u, t)
    PROVE  Over(op, u)
BY DEF Over, Base, Copied, Reporting, Deciding, Like, Same

(* An error of the cleanup. *)
LEMMA FailLands ==
    ASSUME NEW c, NEW op, NEW t, Over(op, t), Go(c, "fail", t)
    PROVE  Lands(c, op, t)
<1>1. Local(op, "fail", t) /\ Same(t, t)
    BY DEF Over, Base, Local, Reporting, Deciding, Stopping, Rechecking, Ending, PCs, Same
<1> QED
    BY <1>1, LandsAt

(* the skip of the cleanup of a stage that has none, *)
LEMMA SkipKept ==
    ASSUME IndInv, NEW c \in Coordinators, SkipPipelineRunStageCleanup(c)
    PROVE  IndInv'
<1>1. PICK t, op, i : t = tick[c] /\ op = Verdict /\ i = NextCleanup(t)
    OBVIOUS
<1>2. Local(op, "clean", t) /\ Knows(c, t) /\ t \in Ticks
    BY <1>1, WorkingKnows DEF SkipPipelineRunStageCleanup, Working, PCs
<1>3. Over(op, t)
    BY <1>2, EndingIsOver DEF Ending
<1>4. /\ \/ /\ cleanup_status' = [cleanup_status EXCEPT ![i] = "skipped"]
            /\ CleanupNext(c, Cleaned(t, i))
         \/ UNCHANGED cleanup_status /\ Go(c, "fail", t)
      /\ UNCHANGED <<run, lease, stage, cleanup_operation, ops, bounds>>
    BY <1>1 DEF SkipPipelineRunStageCleanup
<1>5. Over(op, Cleaned(t, i)) /\ Same(Cleaned(t, i), t)
    BY <1>2, <1>3 DEF Over, Base, Copied, Ticks, Same, Reporting, Deciding, Cleaned
<1>6. Lands(c, op, t)
    BY <1>3, <1>4, <1>5, CleanupNextLands, LandsLike, FailLands
<1>7. /\ cleanup_status' \in [Stages -> CleanupStatuses]
      /\ \A k \in Stages : cleanup_status'[k] = "pending" => cleanup_status[k] = "pending"
    BY <1>4 DEF IndInv, TypeOK, CleanupStatuses, CleanupComplete
<1>8. Still
    BY <1>4, <1>7 DEF Still, lease, ops, swept, bounds, IndInv, Sound, SucceededRows
<1>9. stage' \in [Stages -> (OpStatuses \ {"none"}) \union {"pending"}]
    BY <1>4 DEF IndInv, TypeOK
<1> QED
    BY <1>1, <1>2, <1>4, <1>6, <1>7, <1>8, <1>9, QuietTick DEF ops, swept

(* a cleanup that cannot be loaded or planned, *)
LEMMA BreaksKept ==
    ASSUME IndInv, NEW c \in Coordinators, CleanupBreaks(c)
    PROVE  IndInv'
<1>1. PICK t, op : t = tick[c] /\ op = Verdict
    OBVIOUS
<1>2. Local(op, "clean", t) /\ Knows(c, t)
    BY <1>1, WorkingKnows DEF CleanupBreaks, Working, PCs
<1>3. Over(op, t)
    BY <1>2, EndingIsOver DEF Ending
<1>4. Lands(c, op, t)
    BY <1>1, <1>3, FailLands DEF CleanupBreaks
<1> QED
    BY <1>1, <1>2, <1>4, LocalTick DEF CleanupBreaks

(* the read of the cleanup operation of a stage, *)
LEMMA CleanupGetKept ==
    ASSUME IndInv, NEW c \in Coordinators, CleanupGet(c)
    PROVE  IndInv'
<1>1. PICK t, op, i : t = tick[c] /\ op = Verdict /\ i = NextCleanup(t)
    OBVIOUS
<1>2. Local(op, "clean", t) /\ Knows(c, t) /\ t \in Ticks
    BY <1>1, WorkingKnows DEF CleanupGet, Working, PCs
<1>3. Over(op, t)
    BY <1>2, EndingIsOver DEF Ending
<1>4. PICK seen \in AttemptStatus(i, t.attempt[i]) : Go(c, "clean sync", [t EXCEPT !.seen = seen])
    BY <1>1 DEF CleanupGet
<1>5. i \in Stages /\ t.attempt[i] # 0
    BY <1>1, <1>2 DEF CleanupGet, Ticks
<1>6. seen \in {"queued", "running"} \union Terminal
  <2>1. CASE t.attempt[i] = attempts[i]
    <3>1. cleanup_op[i] # "none" /\ cleanup_op[i] \in OpStatuses
        BY <1>5, <2>1 DEF IndInv, TypeOK, Sound, Attempted
    <3> QED
        BY <1>4, <2>1, <3>1 DEF AttemptStatus, OpStatuses
  <2>2. CASE t.attempt[i] # attempts[i]
      BY <1>4, <2>2 DEF AttemptStatus, Terminal
  <2> QED
      BY <2>1, <2>2
<1> DEFINE u == [t EXCEPT !.seen = seen]
<1>8. Go(c, "clean sync", u)
    BY <1>4
<1>11. u \in Ticks /\ u.seen = seen /\ Like(u, t)
    BY <1>2, <1>6 DEF Ticks, OpStatuses, Like, Same
<1> HIDE DEF u
<1>7. Over(op, u) /\ Same(u, t) /\ u \in Ticks /\ u.seen = seen
    BY <1>3, <1>11, OverLike DEF Like
<1>9. Local(op, "clean sync", u)
    BY <1>6, <1>7 DEF Over, Base, Local, Reporting, Deciding, Stopping, Rechecking, Ending, PCs
<1>10. Lands(c, op, t)
    BY <1>7, <1>8, <1>9, LandsAt
<1> QED
    BY <1>1, <1>2, <1>10, LocalTick DEF CleanupGet

(* the write of its status, *)
LEMMA CleanupSyncKept ==
    ASSUME IndInv, NEW c \in Coordinators, CleanupSync(c)
    PROVE  IndInv'
<1>1. PICK t, op, i : t = tick[c] /\ op = Verdict /\ i = NextCleanup(t)
    OBVIOUS
<1>2. Local(op, "clean sync", t) /\ Knows(c, t) /\ t \in Ticks
    BY <1>1, WorkingKnows DEF CleanupSync, Working, PCs
<1>3. Over(op, t) /\ t.seen \in {"queued", "running"} \union Terminal
    BY <1>2, EndingIsOver DEF Ending, Local
<1>4. PICK u : u = [Cleaned(t, i) EXCEPT !.cleanup[i] = t.seen, !.seen = "none"]
    OBVIOUS
<1>5. /\ cleanup_status' = [cleanup_status EXCEPT ![i] =
                               IF cleanup_operation[i] = t.attempt[i] THEN t.seen ELSE @]
      /\ IF t.seen \in CleanupComplete THEN CleanupNext(c, u) ELSE Release(c)
      /\ UNCHANGED <<run, lease, stage, cleanup_operation, ops, bounds>>
    BY <1>1, <1>4 DEF CleanupSync
<1>6. t.seen \in CleanupStatuses /\ t.seen # "pending"
    BY <1>3 DEF CleanupStatuses, CleanupComplete, Terminal
<1>7. u = [t EXCEPT !.left = t.left \ {i}, !.cleanup = [t.cleanup EXCEPT ![i] = t.seen], !.seen = "none"]
    BY <1>2, <1>4 DEF Ticks, Cleaned
<1>8. u \in Ticks
  <2>1. [t.cleanup EXCEPT ![i] = t.seen] \in [Stages -> CleanupStatuses]
      BY <1>2, <1>6 DEF Ticks
  <2> QED
      BY <1>2, <1>7, <2>1 DEF Ticks, OpStatuses
<1>9. Over(op, u) /\ Same(u, t)
  <2>1. Like(u, t)
      BY <1>2, <1>7 DEF Ticks, Like, Same
  <2> QED
      BY <1>3, <1>8, <2>1, OverLike DEF Like
<1>10. Lands(c, op, t)
    BY <1>5, <1>9, CleanupNextLands, LandsLike, ReleaseLands
<1>11. /\ cleanup_status' \in [Stages -> CleanupStatuses]
       /\ \A k \in Stages : cleanup_status'[k] = "pending" => cleanup_status[k] = "pending"
    BY <1>5, <1>6 DEF IndInv, TypeOK
<1>12. Still
    BY <1>5, <1>11 DEF Still, lease, ops, swept, bounds, IndInv, Sound, SucceededRows
<1>13. stage' \in [Stages -> (OpStatuses \ {"none"}) \union {"pending"}]
    BY <1>5 DEF IndInv, TypeOK
<1> QED
    BY <1>1, <1>2, <1>5, <1>10, <1>11, <1>12, <1>13, QuietTick DEF ops, swept
(* The walk over the failed cleanups goes on. *)
LEMMA RecheckGoesOn ==
    ASSUME NEW op, NEW to \in Rechecking, NEW t, Local(op, to, t)
    PROVE  /\ Over(op, t) /\ Current(t) \in Stages
           /\ Over(op, Visited(t)) /\ Like(Visited(t), t)
           /\ LET r == [Visited(t) EXCEPT !.recovered = @ \union {Current(t)}]
              IN Over(op, r) /\ Like(r, t)
<1>1. Over(op, t)
    BY EndingIsOver DEF Ending, Rechecking
<1>2. t \in Ticks /\ t.left # {}
    BY DEF Local
<1>3. PICK i : i = Current(t)
    OBVIOUS
<1>4. i \in Stages /\ Visited(t) = [t EXCEPT !.left = t.left \ {i}] /\ Visited(t) \in Ticks
    BY <1>2, <1>3, VisitedIsTick
<1>5. Like(Visited(t), t)
    BY <1>2, <1>4 DEF Ticks, Like, Same
<1> DEFINE r == [Visited(t) EXCEPT !.recovered = @ \union {i}]
<1>6. r \in Ticks /\ Like(r, t)
    BY <1>2, <1>4 DEF Ticks, Like, Same
<1> QED
    BY <1>1, <1>3, <1>4, <1>5, <1>6, OverLike

(* a recheck that leaves a failed cleanup failed, *)
LEMMA NotRecoveredKept ==
    ASSUME IndInv, NEW c \in Coordinators, NotRecovered(c)
    PROVE  IndInv'
<1>1. PICK t, op : t = tick[c] /\ op = Verdict
    OBVIOUS
<1>2. Local(op, "recheck", t) /\ Knows(c, t)
    BY <1>1, WorkingKnows DEF NotRecovered, Working, PCs
<1>3. Over(op, Visited(t)) /\ Same(Visited(t), t)
    BY <1>2, RecheckGoesOn DEF Rechecking, Like
<1>4. RecheckNext(c, Visited(t))
    BY <1>1 DEF NotRecovered
<1>5. Lands(c, op, t)
    BY <1>3, <1>4, RecheckNextLands, LandsLike
<1> QED
    BY <1>1, <1>2, <1>5, LocalTick DEF NotRecovered

(* the renewals of the lease before and after the health gate, *)
LEMMA RenewKept ==
    ASSUME IndInv, NEW c \in Coordinators, RecheckHealthy(c) \/ RecheckRenew(c)
    PROVE  IndInv'
<1>1. PICK t, op : t = tick[c] /\ op = Verdict
    OBVIOUS
<1>2. PICK from \in {"recheck", "recheck renew"}, to \in {"recheck renew", "recover"} :
         pc[c] = from /\ RenewPipelineRunLease(c, tick[c], to) /\ UNCHANGED <<run, lease, rows, ops, bounds>>
    BY DEF RecheckHealthy, RecheckRenew
<1>3. Local(op, from, t) /\ Knows(c, t) /\ Same(t, t)
    BY <1>1, <1>2, WorkingKnows DEF Working, PCs
<1>4. Over(op, t) /\ t.left # {}
    BY <1>3, RecheckGoesOn DEF Rechecking, Local
<1>5. Go(c, to, t) \/ Go(c, "fail", t)
    BY <1>1, <1>2 DEF RenewPipelineRunLease
<1>6. Local(op, to, t)
    BY <1>4 DEF Over, Base, Local, Reporting, Deciding, Stopping, Rechecking, Ending, PCs
<1>7. Lands(c, op, t)
    BY <1>3, <1>4, <1>5, <1>6, LandsAt, FailLands
<1> QED
    BY <1>1, <1>2, <1>3, <1>7, LocalTick

(* a failed cleanup that the recheck finds done after all. *)
LEMMA RecoverKept ==
    ASSUME IndInv, NEW c \in Coordinators, Recover(c)
    PROVE  IndInv'
<1>1. PICK t, op, i : t = tick[c] /\ op = Verdict /\ i = Current(t)
    OBVIOUS
<1>2. Local(op, "recover", t) /\ Knows(c, t)
    BY <1>1, WorkingKnows DEF Recover, Working, PCs
<1>3. PICK r : r = [Visited(t) EXCEPT !.recovered = @ \union {i}]
    OBVIOUS
<1>4. Over(op, r) /\ Same(r, t)
    BY <1>1, <1>2, <1>3, RecheckGoesOn DEF Rechecking, Like
<1>5. /\ cleanup_status' = [cleanup_status EXCEPT ![i] =
                               IF cleanup_operation[i] = t.attempt[i] THEN "succeeded" ELSE @]
      /\ RecheckNext(c, r)
      /\ UNCHANGED <<run, lease, stage, cleanup_operation, ops, bounds>>
    BY <1>1, <1>3 DEF Recover
<1>6. Lands(c, op, t)
    BY <1>4, <1>5, RecheckNextLands, LandsLike
<1>7. /\ cleanup_status' \in [Stages -> CleanupStatuses]
      /\ \A k \in Stages : cleanup_status'[k] = "pending" => cleanup_status[k] = "pending"
    BY <1>5 DEF IndInv, TypeOK, CleanupStatuses, CleanupComplete, Terminal
<1>8. Still
    BY <1>5, <1>7 DEF Still, lease, ops, swept, bounds, IndInv, Sound, SucceededRows
<1>9. stage' \in [Stages -> (OpStatuses \ {"none"}) \union {"pending"}]
    BY <1>5 DEF IndInv, TypeOK
<1> QED
    BY <1>1, <1>2, <1>5, <1>6, <1>7, <1>8, <1>9, QuietTick DEF ops, swept
-----------------------------------------------------------------------------
(* The store calls that change the run, its lease or its operations.       *)

(* A tick begins or ends, with nothing known. *)
LEMMA LetGo ==
    ASSUME IndInv, NEW c \in Coordinators, NEW to \in {"idle", "read", "release"}, Go(c, to, NoTick), Growing,
           \A d \in Coordinators \ {c} :
               lease_owner' = d => lease_owner = d /\ terminal_status' = terminal_status /\ Started' = Started
    PROVE  /\ \A d \in Coordinators : Informed(d)'
           /\ pc' \in [Coordinators -> PCs] /\ tick' \in [Coordinators -> Ticks]
<1>1. NoTick \in Ticks /\ to \in PCs /\ Local(Verdict', to, NoTick)
    BY NoTickIsLocal DEF Local
<1>2. pc' = [pc EXCEPT ![c] = to] /\ tick' = [tick EXCEPT ![c] = NoTick]
    BY DEF Go
<1>3. pc' \in [Coordinators -> PCs] /\ tick' \in [Coordinators -> Ticks] /\ pc'[c] = to /\ tick'[c] = NoTick
    BY <1>1, <1>2 DEF IndInv, TypeOK
<1>4. Informed(c)'
  <2>1. to \notin Working /\ NoTick.execution = FALSE /\ \A i \in Stages : NoTick.attempt[i] = 0
      BY DEF Working, NoTick
  <2>2. Own(c)' /\ Grown(c)'
      BY <2>1, <1>3 DEF Own, Grown, Growing
  <2> QED
      BY <2>2, <1>1, <1>3 DEF Informed
<1>5. ASSUME NEW d \in Coordinators \ {c} PROVE Informed(d)'
  <2>1. Aside(d)
      BY <1>2, <1>5 DEF Aside, IndInv, TypeOK
  <2> QED
      BY <1>5, <2>1, InformedStays DEF IndInv
<1> QED
    BY <1>3, <1>4, <1>5

(* A step that leaves operations and attempts alone lets nothing shrink. *)
LEMMA GrowingSame ==
    ASSUME TypeOK, UNCHANGED <<operation, expired, attempts>>, execution_requested => execution_requested'
    PROVE  Growing
<1>1. Verdict' = Verdict
    BY DEF Verdict
<1> QED
    BY <1>1, AttemptsAreNumbers DEF Growing, Moves

(* A run that waits at its gate is marked initialized. *)
LEMMA InitializedKept ==
    ASSUME IndInv, NEW c \in Coordinators, MarkPipelineInitialized(c)
    PROVE  IndInv'
<1>1. PICK t, op : t = tick[c] /\ op = Verdict
    OBVIOUS
<1>2. Local(op, "initialize", t)
    BY <1>1, WorkingKnows DEF MarkPipelineInitialized, Working, PCs
<1>3. \A j \in 1..(Gate - 1) : operation[j] = "succeeded"
    BY <1>1, <1>2, GateInside, VerdictReads DEF Local, IndInv
<1>4. /\ initialized' \in BOOLEAN /\ (initialized => initialized')
      /\ Go(c, "release", NoTick)
      /\ UNCHANGED <<status, terminal_status, cancel_requested, execution_requested, lease, rows, ops, bounds>>
    BY DEF MarkPipelineInitialized, Release, IndInv, TypeOK
<1>5. Started' = Started
    BY <1>4 DEF Started, ops, swept
<1>6. Growing
    BY <1>4, GrowingSame DEF IndInv, ops, swept
<1>7. /\ \A d \in Coordinators : Informed(d)'
      /\ pc' \in [Coordinators -> PCs] /\ tick' \in [Coordinators -> Ticks]
    BY <1>4, <1>5, <1>6, LetGo DEF lease
<1>8. Sound'
  <2>1. Gated'
      BY <1>3, <1>4 DEF IndInv, Sound, Gated, ops, swept
  <2>2. Leased' /\ Attempted' /\ SucceededRows' /\ GateHolds' /\ SucceededIsComplete'
      BY <1>4, <1>5 DEF IndInv, Sound, Leased, Attempted, SucceededRows, GateHolds, SucceededIsComplete, ops, swept, rows, lease, bounds
  <2>3. StartedInOrder' /\ Bounded' /\ Lapsed' /\ (Reliable => DrainedBeforeFinal')
      BY <1>4, <1>5 DEF IndInv, Sound, StartedInOrder, Bounded, Unfinished, Lapsed, DrainedBeforeFinal, OperationOver, ops, swept
  <2> QED
      BY <2>1, <2>2, <2>3 DEF Sound
<1>9. TypeOK'
    BY <1>4, <1>7 DEF IndInv, TypeOK, ops, swept, rows, lease, bounds
<1> QED
    BY <1>7, <1>8, <1>9 DEF IndInv

(* Successes last. *)
Lasting == \A i \in Stages : operation[i] = "succeeded" => operation'[i] = "succeeded"

(* Operations run and settle, and none is started. *)
Proceeds ==
    /\ Lasting
    /\ \A i \in Stages : /\ (operation'[i] = "none") <=> (operation[i] = "none")
                         /\ OperationOver(i) => OperationOver(i)'

(* There are finitely many unfinished operations, so that they can be counted. *)
LEMMA UnfinishedIsFinite == IsFiniteSet(Unfinished) /\ Cardinality(Unfinished) \in Nat /\ Unfinished \subseteq Stages
<1>1. Unfinished \in SUBSET Stages
    BY DEF Unfinished
<1> QED
    BY <1>1, StagesAreNumbered, FS_Subset, FS_CardinalityType

(* Those that are active are among them. *)
LEMMA BoundedIsEnough ==
    ASSUME NEW op, Cardinality({i \in Stages : op[i] \notin {"none", "succeeded"}}) <= Limit(MaxParallelStages)
    PROVE  Cardinality({i \in Stages : ~Settled(op[i])}) <= Limit(MaxParallelStages)
<1> DEFINE active == {i \in Stages : ~Settled(op[i])}
           unfinished == {i \in Stages : op[i] \notin {"none", "succeeded"}}
<1>1. active \subseteq unfinished /\ unfinished \in SUBSET Stages
    BY DEF Settled, Terminal
<1> HIDE DEF active, unfinished
<1>2. IsFiniteSet(unfinished)
    BY <1>1, StagesAreNumbered, FS_Subset
<1>3. Cardinality(active) <= Cardinality(unfinished) /\ IsFiniteSet(active)
    BY <1>1, <1>2, FS_Subset
<1>4. Cardinality(active) \in Nat /\ Cardinality(unfinished) \in Nat /\ Limit(MaxParallelStages) \in Nat
    BY <1>2, <1>3, FS_CardinalityType, PipelineAssumption DEF Limit
<1> QED
    BY <1>3, <1>4 DEF active, unfinished

(* Stages that were started in order stay so, and so does the gate. *)
LEMMA OrderStays ==
    ASSUME NEW i \in Stages, Lasting, InputsComplete(DependsOn, MaxParallelStages, operation, i)
    PROVE  InputsComplete(DependsOn, MaxParallelStages, operation', i)
<1>1. i > 1 => i - 1 \in Stages
    BY StagesAreNumbered
<1>2. DependsOn[i] \subseteq Stages
    BY PipelineAssumption
<1> QED
    BY <1>1, <1>2 DEF InputsComplete, Lasting

(* A run stays sound while its operations proceed. *)
LEMMA SoundMoves ==
    ASSUME Sound, Proceeds, Lapsed', UNCHANGED <<run, lease_owner, rows, attempts, cleanup_op, retries>>
    PROVE  Sound' /\ Started' = Started
<1>0. Started' = Started /\ Unfinished' \subseteq Unfinished /\ Lasting
    BY DEF Proceeds, Lasting, Started, Unfinished
<1>1. \A i \in Stages : operation[i] = "succeeded" => operation'[i] = "succeeded"
    BY <1>0 DEF Lasting
<1>2. Leased' /\ Attempted' /\ SucceededRows' /\ SucceededIsComplete'
    BY <1>0, <1>1 DEF Sound, Leased, Attempted, SucceededRows, SucceededIsComplete, run, rows
<1>3. Gated' /\ GateHolds'
    BY <1>0, <1>1, GateInside DEF Sound, Gated, GateHolds, run
<1>4. StartedInOrder' /\ Bounded'
  <2>1. \A i \in Started' : InputsComplete(DependsOn, MaxParallelStages, operation', i)
      BY <1>0, OrderStays DEF Sound, StartedInOrder, Started
  <2>2. Cardinality(Unfinished') <= Cardinality(Unfinished) /\ Cardinality(Unfinished') \in Nat
      BY <1>0, UnfinishedIsFinite, FS_Subset, FS_CardinalityType
  <2>3. Limit(MaxParallelStages) \in Nat
      BY PipelineAssumption DEF Limit
  <2>4. Cardinality(Unfinished) <= Limit(MaxParallelStages)
      BY DEF Sound, Bounded
  <2>5. Cardinality(Unfinished') <= Limit(MaxParallelStages)
      BY <2>2, <2>3, <2>4, UnfinishedIsFinite
  <2> QED
      BY <2>1, <2>5, BoundedIsEnough DEF StartedInOrder, Bounded, Unfinished
<1>5. Reliable => DrainedBeforeFinal'
    BY DEF Sound, DrainedBeforeFinal, Proceeds, run
<1> QED
    BY <1>0, <1>2, <1>3, <1>4, <1>5 DEF Sound
(* The cancellation of an operation that is to be stopped. *)
LEMMA StopCancelKept ==
    ASSUME IndInv, NEW c \in Coordinators, StopCancel(c)
    PROVE  IndInv'
<1>1. PICK t, op, i : t = tick[c] /\ op = Verdict' /\ i = Current(t)
    OBVIOUS
<1>2. Local(Verdict, "stop cancel", t) /\ Knows(c, t) /\ t \in Ticks
    BY <1>1, WorkingKnows DEF StopCancel, Working, PCs
<1>3. t.left # {} /\ ~t.stopped
    BY <1>2 DEF Local, Stopping
<1>4. /\ operation' = [operation EXCEPT ![i] = IF @ = "queued" THEN "canceled" ELSE @]
      /\ DrainNext(c, Visited(t))
      /\ UNCHANGED <<run, lease, rows, ran, cleanup_op, attempts, swept, bounds>>
    BY <1>1 DEF StopCancel
<1>5. i \in t.left /\ i \in Stages /\ Visited(t) = [t EXCEPT !.left = t.left \ {i}] /\ Visited(t) \in Ticks
    BY <1>1, <1>2, <1>3, VisitedIsTick
<1>18. operation' \in [Stages -> OpStatuses]
    BY <1>4 DEF IndInv, TypeOK, OpStatuses, Terminal
<1>19. \A k \in Stages : operation'[k] = operation[k] \/ (operation[k] = "queued" /\ operation'[k] = "canceled")
    BY <1>4 DEF IndInv, TypeOK
<1>6. operation' \in [Stages -> OpStatuses] /\ Moves(Verdict, Verdict')
    BY <1>4, <1>18, <1>19 DEF swept, Verdict, Terminal, Moves
<1>7. Proceeds /\ Lapsed' /\ Started' = Started
    BY <1>4, <1>19 DEF IndInv, TypeOK, Sound, Started, Proceeds, Lasting, Lapsed, OperationOver, Settled, Terminal, swept
<1>8. Local(op, "stop cancel", t)
    BY <1>1, <1>2, <1>6, LocalStable
<1>9. Stopped(op, t) /\ Copied(op, t) /\ Reporting("stop cancel", t)
    BY <1>8 DEF Local, Stopping
<1> DEFINE u == Visited(t)
<1>10. /\ Same(u, t) /\ u.stage = t.stage /\ u.left = t.left \ {i} /\ u.then = t.then
       /\ u.stopped = t.stopped /\ u.outcome = t.outcome
    BY <1>2, <1>5 DEF Ticks, Same
<1>11. Draining(op, u)
  <2> HIDE DEF u
  <2>1. Copied(op, u) /\ Reporting("stop get", u)
      BY <1>9, <1>10 DEF Copied, Reporting, Deciding, Same
  <2>2. Stopped(op, u)
      BY <1>3, <1>5, <1>9, <1>10 DEF Stopped, Ended, Same
  <2> QED
      BY <1>5, <2>1, <2>2 DEF Draining, Base, u
<1>12. Lands(c, Verdict', t)
    BY <1>1, <1>4, <1>10, <1>11, DrainNextLands, LandsLike
<1>13. Growing
    BY <1>4, <1>6, AttemptsAreNumbers DEF Growing, IndInv, run
<1>14. Knows(c, t)'
    BY <1>2, <1>4, <1>7 DEF Knows, run, lease
<1>15. /\ \A d \in Coordinators : Informed(d)'
       /\ pc' \in [Coordinators -> PCs] /\ tick' \in [Coordinators -> Ticks]
    BY <1>4, <1>7, <1>12, <1>13, <1>14, TickStep DEF run, lease
<1>16. Sound'
    BY <1>4, <1>7, SoundMoves DEF IndInv, lease, bounds
<1>17. TypeOK'
    BY <1>4, <1>6, <1>15 DEF IndInv, TypeOK, run, lease, rows, bounds, swept
<1> QED
    BY <1>15, <1>16, <1>17 DEF IndInv

(* Inputs are complete by the verdicts when they are by the operations. *)
LEMMA InputsAreVerdicts ==
    ASSUME TypeOK, NEW i \in Stages, InputsComplete(DependsOn, MaxParallelStages, Verdict, i)
    PROVE  InputsComplete(DependsOn, MaxParallelStages, operation, i)
<1>1. i > 1 => i - 1 \in Stages
    BY StagesAreNumbered
<1>2. DependsOn[i] \subseteq Stages
    BY PipelineAssumption
<1>3. \A k \in Stages : Verdict[k] = "succeeded" => operation[k] = "succeeded"
    BY VerdictReads
<1> QED
    BY <1>1, <1>2, <1>3 DEF InputsComplete

(* The tick after a stage was started. *)
LEMMA StartedTick ==
    ASSUME NEW t \in Ticks, NEW left \in SUBSET Stages, NEW begun \in SUBSET Stages,
           NEW st \in [Stages -> (OpStatuses \ {"none"}) \union {"pending"}]
    PROVE  [t EXCEPT !.left = left, !.stage = st, !.started = begun] \in Ticks
BY DEF Ticks

(* A stage is started by the owner of the run: its copy is up to date. *)
LEMMA StartCreates ==
    ASSUME IndInv, NEW c \in Coordinators, pc[c] = "start", NEW t, t = tick[c], NEW i, i = Current(t),
           MayCreate(c, i),
           operation' = [operation EXCEPT ![i] = "queued"],
           stage' = [stage EXCEPT ![i] = "queued"],
           StartNext(c, [Visited(t) EXCEPT !.stage[i] = "queued", !.started = @ \union {i}]),
           UNCHANGED <<run, lease, cleanup_status, cleanup_operation, ran, cleanup_op, attempts, swept, bounds>>
    PROVE  IndInv'
<1>1. PICK op, u : op = Verdict' /\ u = [Visited(t) EXCEPT !.stage[i] = "queued", !.started = @ \union {i}]
    OBVIOUS
<1>2. Local(Verdict, "start", t) /\ Knows(c, t) /\ t \in Ticks
    BY WorkingKnows DEF Working, PCs
<1>3. t.left # {} /\ Chosen(Verdict, t) /\ Copied(Verdict, t) /\ t.terminal = ""
    BY <1>2 DEF Local, Reporting, Deciding
<1>4. i \in t.left /\ i \in Stages /\ Visited(t) = [t EXCEPT !.left = t.left \ {i}]
    BY <1>2, <1>3, VisitedIsTick
<1>5. /\ status = "running" /\ lease_owner = c /\ terminal_status = "" /\ t.started = Started
    BY <1>2, <1>3 DEF MayCreate, Owns, Knows
<1>6. i \notin Started /\ operation[i] = "none"
    BY <1>3, <1>4, <1>5 DEF Chosen, Started
<1>7. operation' \in [Stages -> OpStatuses] /\ Moves(Verdict, Verdict') /\ Started' = Started \union {i}
  <2>1. operation' \in [Stages -> OpStatuses] /\ operation'[i] = "queued"
      BY <1>4 DEF IndInv, TypeOK, OpStatuses
  <2>2. \A k \in Stages \ {i} : operation'[k] = operation[k]
      BY DEF IndInv, TypeOK
  <2>3. Moves(Verdict, Verdict')
      BY <1>6, <2>1, <2>2 DEF Verdict, swept, Moves, Terminal
  <2>4. Started' = Started \union {i}
      BY <1>4, <2>1, <2>2 DEF Started
  <2> QED
      BY <2>1, <2>3, <2>4
<1>8. /\ u = [t EXCEPT !.left = t.left \ {i}, !.stage = [t.stage EXCEPT ![i] = "queued"],
                       !.started = t.started \union {i}]
      /\ t.stage \in [Stages -> (OpStatuses \ {"none"}) \union {"pending"}] /\ t.started \subseteq Stages
    BY <1>1, <1>2, <1>4 DEF Ticks
<1>9. /\ u.left = t.left \ {i} /\ u.stage = [t.stage EXCEPT ![i] = "queued"] /\ u.started = t.started \union {i}
      /\ u.terminal = t.terminal /\ u.execution = t.execution /\ u.attempt = t.attempt
    BY <1>2, <1>8 DEF Ticks
<1>10. u \in Ticks
  <2>1. [t.stage EXCEPT ![i] = "queued"] \in [Stages -> (OpStatuses \ {"none"}) \union {"pending"}]
      BY <1>8 DEF OpStatuses
  <2>2. t.left \ {i} \in SUBSET Stages /\ t.started \union {i} \in SUBSET Stages
      BY <1>2, <1>4 DEF Ticks
  <2> QED
      BY <1>2, <1>8, <2>1, <2>2, StartedTick
<1>11. Chosen(op, t) /\ Copied(op, t)
  <2>1. Local(op, "start", t)
      BY <1>1, <1>2, <1>7, LocalStable
  <2> QED
      BY <2>1 DEF Local
<1>26. u.stage[i] = "queued" /\ \A k \in Stages \ {i} : u.stage[k] = t.stage[k]
    BY <1>4, <1>8, <1>9
<1>12. Copied(op, u)
  <2>1. op[i] # "none"
      BY <1>1, <1>4, <1>7 DEF Started, Verdict
  <2> QED
      BY <1>9, <1>11, <1>26, <2>1 DEF Copied
<1> DEFINE active == ActiveStages(t.stage, t.started)
<1>13. ActiveStages(u.stage, u.started) = active \union {i} /\ i \notin active
  <2>1. i \notin t.started /\ t.started \subseteq Stages
      BY <1>5, <1>6, <1>8
  <2>2. \A k \in t.started : u.stage[k] = t.stage[k]
      BY <2>1, <1>26
  <2> QED
      BY <2>1, <2>2, <1>9, <1>26 DEF ActiveStages, Terminal
<1>14. /\ IsFiniteSet(active) /\ Cardinality(active) \in Nat
       /\ Cardinality(active \union {i}) = Cardinality(active) + 1
       /\ IsFiniteSet(active \union {i})
  <2>1. active \in SUBSET Stages
      BY <1>8 DEF ActiveStages
  <2>2. IsFiniteSet(active) /\ Cardinality(active) \in Nat
      BY <2>1, StagesAreNumbered, FS_Subset, FS_CardinalityType
  <2> HIDE DEF active
  <2> QED
      BY <2>2, <1>13, FS_AddElement
<1>15. /\ Cardinality(t.left) \in Nat /\ Cardinality(t.left \ {i}) = Cardinality(t.left) - 1
       /\ Cardinality(t.left \ {i}) \in Nat
  <2>1. t.left \in SUBSET Stages
      BY <1>2 DEF Ticks
  <2>2. IsFiniteSet(t.left) /\ Cardinality(t.left) \in Nat
      BY <2>1, StagesAreNumbered, FS_Subset, FS_CardinalityType
  <2> QED
      BY <2>2, <1>4, FS_RemoveElement, FS_CardinalityType
<1>16. Limit(MaxParallelStages) \in Nat
    BY PipelineAssumption DEF Limit
<1>17. Cardinality(active) + Cardinality(t.left) <= Limit(MaxParallelStages)
    BY <1>3 DEF Chosen
<1>18. Chosen(op, u)
  <2> HIDE DEF active
  <2>1. Synced(op, u, u.started)
      BY <1>4, <1>8, <1>9, <1>11 DEF Chosen, Synced, Terminal
  <2>2. Cardinality(ActiveStages(u.stage, u.started)) + Cardinality(u.left) <= Limit(MaxParallelStages)
    <3>1. Cardinality(active \union {i}) + Cardinality(t.left \ {i}) <= Limit(MaxParallelStages)
        BY <1>14, <1>15, <1>16, <1>17
    <3> QED
        BY <3>1, <1>9, <1>13
  <2> QED
      BY <2>1, <2>2, <1>9, <1>11 DEF Chosen
<1>19. Lands(c, op, u)
    BY <1>1, <1>3, <1>9, <1>10, <1>12, <1>18, StartNextLands DEF Base
<1>20. Knows(c, u)'
    BY <1>2, <1>5, <1>7, <1>9 DEF Knows, run, lease
<1>21. Growing
    BY <1>7, AttemptsAreNumbers DEF Growing, IndInv, run
<1>22. NoCoordinator \notin Coordinators /\ lease_owner' = lease_owner
    BY PipelineAssumption DEF lease
<1>23. /\ \A d \in Coordinators : Informed(d)'
       /\ pc' \in [Coordinators -> PCs] /\ tick' \in [Coordinators -> Ticks]
    BY <1>1, <1>5, <1>19, <1>20, <1>21, <1>22, TickStep
<1>24. Sound'
  <2>1. Unfinished' \subseteq active \union {i}
    <3>1. \A k \in Started : operation[k] # "succeeded" => t.stage[k] \notin Terminal
        BY <1>3, <1>5, VerdictReads DEF Chosen, Synced, IndInv, Started
    <3>2. \A k \in Unfinished' : k = i \/ (k \in Started /\ operation[k] # "succeeded")
        BY DEF Unfinished, Started, IndInv, TypeOK
    <3> QED
        BY <3>1, <3>2, <1>5 DEF ActiveStages
  <2> HIDE DEF active
  <2>4. \A k \in Stages : operation[k] = "succeeded" => operation'[k] = "succeeded"
      BY <1>6 DEF IndInv, TypeOK
  <2>2. Cardinality(Unfinished') <= Limit(MaxParallelStages)
    <3>1. Cardinality(Unfinished') <= Cardinality(active) + 1 /\ IsFiniteSet(Unfinished')
        BY <2>1, <1>14, FS_Subset
    <3>2. Cardinality(Unfinished') \in Nat
        BY <3>1, FS_CardinalityType
    <3>3. Cardinality(t.left) >= 1
        BY <1>15
    <3> QED
        BY <3>1, <3>2, <3>3, <1>14, <1>15, <1>16, <1>17
  <2>3. StartedInOrder'
    <3>1. ASSUME NEW k \in Started' PROVE InputsComplete(DependsOn, MaxParallelStages, operation', k)
      <4>1. k \in Stages /\ InputsComplete(DependsOn, MaxParallelStages, operation, k)
        <5>1. CASE k \in Started
            BY <5>1 DEF IndInv, Sound, StartedInOrder, Started
        <5>2. CASE k = i
            BY <5>2, <1>3, <1>4, InputsAreVerdicts DEF Chosen, IndInv
        <5> QED
            BY <3>1, <1>7, <5>1, <5>2
      <4> QED
          BY <4>1, <2>4, OrderStays DEF Lasting
    <3> QED
        BY <3>1, <2>2, BoundedIsEnough DEF StartedInOrder, Bounded, Unfinished
  <2>9. Bounded' /\ Lapsed'
    <3>1. Lapsed'
        BY <1>6 DEF IndInv, TypeOK, Sound, Lapsed, swept
    <3> QED
        BY <3>1, <2>2 DEF Bounded
  <2>5. Gated'
      BY <2>4, GateInside DEF IndInv, Sound, Gated, run
  <2>6. GateHolds'
    <3>1. Gate # 0 /\ i >= Gate => execution_requested
      <4>1. Gate # 0 /\ ~t.execution => i < Gate
          BY <1>3, <1>4 DEF Chosen
      <4>2. t.execution => execution_requested
          BY <1>2 DEF Knows
      <4>3. Gate \in Nat /\ i \in Nat
          BY <1>4, StagesAreNumbered, PipelineAssumption
      <4> QED
          BY <4>1, <4>2, <4>3
    <3>2. execution_requested => \A j \in 1..(Gate - 1) : operation[j] = "succeeded"
        BY DEF IndInv, Sound, Gated
    <3> QED
        BY <3>1, <3>2, <2>4, <1>7, GateInside DEF IndInv, Sound, GateHolds, run
  <2>7. SucceededRows'
      BY <2>4 DEF IndInv, Sound, SucceededRows, TypeOK
  <2>8. Leased' /\ Attempted' /\ SucceededIsComplete' /\ DrainedBeforeFinal'
      BY <1>5 DEF IndInv, Sound, Leased, Attempted, SucceededIsComplete, DrainedBeforeFinal, run, lease, bounds, Terminal
  <2> QED
      BY <2>3, <2>5, <2>6, <2>7, <2>8, <2>9 DEF Sound
<1>25. TypeOK'
  <2>1. stage' \in [Stages -> (OpStatuses \ {"none"}) \union {"pending"}]
      BY DEF IndInv, TypeOK, OpStatuses
  <2> QED
      BY <2>1, <1>7, <1>23 DEF IndInv, TypeOK, run, lease, bounds, swept
<1> QED
    BY <1>23, <1>24, <1>25 DEF IndInv
(* The start of a stage: its operation begins queued. *)
LEMMA StartKept ==
    ASSUME IndInv, NEW c \in Coordinators, startPipelineStage(c)
    PROVE  IndInv'
<1>1. PICK t, op, i : t = tick[c] /\ op = Verdict /\ i = Current(t)
    OBVIOUS
<1>2. Local(op, "start", t) /\ Base(op, t) /\ Knows(c, t) /\ t \in Ticks
    BY <1>1, WorkingKnows DEF startPipelineStage, Working, PCs
<1>3. t.left # {} /\ t.terminal = ""
    BY <1>2 DEF Local, Reporting, Deciding
<1>4. i \in Stages
    BY <1>1, <1>2, <1>3, VisitedIsTick
<1>5. CASE MayCreate(c, i) /\ operation' = [operation EXCEPT ![i] = "queued"]
           /\ stage' = [stage EXCEPT ![i] = "queued"]
           /\ StartNext(c, [Visited(t) EXCEPT !.stage[i] = "queued", !.started = @ \union {i}])
    BY <1>1, <1>5, StartCreates DEF startPipelineStage
<1>6. CASE DeferTermination(c, t, i, "failed") /\ UNCHANGED <<operation, stage>>
  <2>1. Lands(c, op, t)
      BY <1>2, <1>3, <1>4, <1>6, DeferTerminationLands
  <2>2. UNCHANGED <<run, lease, rows, ops, bounds>>
      BY <1>6 DEF startPipelineStage, rows, ops, swept
  <2> QED
      BY <1>1, <1>2, <2>1, <2>2, LocalTick
<1> QED
    BY <1>1, <1>5, <1>6 DEF startPipelineStage

(* The record of the decided outcome, before the cleanup begins. *)
LEMMA BeginKept ==
    ASSUME IndInv, NEW c \in Coordinators, BeginPipelineRunTermination(c)
    PROVE  IndInv'
<1>1. PICK t, op : t = tick[c] /\ op = Verdict
    OBVIOUS
<1>2. t \in Ticks
    BY <1>1, WorkingKnows DEF BeginPipelineRunTermination, Working, PCs
<1>3. /\ terminal_status' = IF lease_owner = c /\ status = "running" THEN t.outcome ELSE terminal_status
      /\ Go(c, "release", NoTick)
      /\ UNCHANGED <<status, cancel_requested, execution_requested, initialized, lease, rows, ops, bounds>>
    BY <1>1 DEF BeginPipelineRunTermination, Release
<1>4. Started' = Started /\ terminal_status' \in {"", "failed", "canceled"}
    BY <1>2, <1>3 DEF Started, ops, swept, Ticks, IndInv, TypeOK
<1>5. Growing
    BY <1>3, GrowingSame DEF IndInv, ops, swept
<1>6. /\ \A d \in Coordinators : Informed(d)'
      /\ pc' \in [Coordinators -> PCs] /\ tick' \in [Coordinators -> Ticks]
    BY <1>3, <1>4, <1>5, LetGo DEF lease
<1>7. Sound'
  <2>1. Leased' /\ SucceededIsComplete'
      BY <1>3, <1>4 DEF IndInv, Sound, Leased, SucceededIsComplete, ops, swept, lease
  <2>2. Gated' /\ Attempted' /\ SucceededRows' /\ GateHolds'
      BY <1>3, <1>4 DEF IndInv, Sound, Gated, Attempted, SucceededRows, GateHolds, ops, swept, rows, lease, bounds
  <2>3. StartedInOrder' /\ Bounded' /\ Lapsed' /\ (Reliable => DrainedBeforeFinal')
      BY <1>3, <1>4 DEF IndInv, Sound, StartedInOrder, Bounded, Unfinished, Lapsed, DrainedBeforeFinal, OperationOver, ops, swept
  <2> QED
      BY <2>1, <2>2, <2>3 DEF Sound
<1>8. TypeOK'
    BY <1>3, <1>4, <1>6 DEF IndInv, TypeOK, ops, swept, rows, lease, bounds
<1> QED
    BY <1>6, <1>7, <1>8 DEF IndInv

(* The run ends: nothing but its status and its lease changes. *)
LEMMA RunEnds ==
    ASSUME IndInv, NEW c \in Coordinators, lease_owner = c, status = "running", NEW final \in Terminal,
           status' = final, lease_owner' = NoCoordinator, lease_until' = "null", Stop(c),
           final = "succeeded" => terminal_status = "" /\ \A i \in Stages : operation[i] = "succeeded",
           Reliable => \A i \in Stages : OperationOver(i),
           UNCHANGED <<terminal_status, cancel_requested, execution_requested, initialized, rows, ops, bounds>>
    PROVE  IndInv'
<1>1. Started' = Started /\ NoCoordinator \notin Coordinators
    BY PipelineAssumption DEF Started, ops, swept
<1>2. Growing
    BY GrowingSame DEF IndInv, ops, swept
<1>3. /\ \A d \in Coordinators : Informed(d)'
      /\ pc' \in [Coordinators -> PCs] /\ tick' \in [Coordinators -> Ticks]
    BY <1>1, <1>2, LetGo DEF Stop
<1>4. Sound'
  <2>1. Leased' /\ SucceededIsComplete' /\ (Reliable => DrainedBeforeFinal')
      BY <1>1 DEF Leased, SucceededIsComplete, DrainedBeforeFinal, OperationOver, ops, swept, Terminal
  <2>2. Gated' /\ Attempted' /\ SucceededRows' /\ GateHolds'
      BY <1>1 DEF IndInv, Sound, Gated, Attempted, SucceededRows, GateHolds, ops, swept, rows, bounds
  <2>3. StartedInOrder' /\ Bounded' /\ Lapsed'
      BY <1>1 DEF IndInv, Sound, StartedInOrder, Bounded, Unfinished, Lapsed, ops, swept
  <2> QED
      BY <2>1, <2>2, <2>3 DEF Sound
<1>5. TypeOK'
    BY <1>3 DEF IndInv, TypeOK, ops, swept, rows, bounds
<1> QED
    BY <1>3, <1>4, <1>5 DEF IndInv

(* The tick gives up and releases the run. *)
LEMMA GivesUp ==
    ASSUME IndInv, NEW c \in Coordinators, Release(c), UNCHANGED <<run, lease, rows, ops, bounds>>
    PROVE  IndInv'
<1>1. Growing
    BY GrowingSame DEF IndInv, ops, swept, run
<1>2. Started' = Started
    BY DEF Started, ops, swept
<1>3. /\ \A d \in Coordinators : Informed(d)'
      /\ pc' \in [Coordinators -> PCs] /\ tick' \in [Coordinators -> Ticks]
    BY <1>1, <1>2, LetGo DEF Release, run, lease
<1>4. Still
    BY DEF Still, rows, ops, swept, bounds, lease, IndInv, Sound, SucceededRows
<1>5. Sound'
    BY <1>4, SoundStill DEF IndInv
<1>6. TypeOK'
    BY <1>3 DEF IndInv, TypeOK, run, lease, rows, ops, swept, bounds
<1> QED
    BY <1>3, <1>5, <1>6 DEF IndInv

(* A run that fails or is canceled, on the spot or after its cleanup. *)
LEMMA FailRunKept ==
    ASSUME IndInv, NEW c \in Coordinators, FailPipelineRun(c)
    PROVE  IndInv'
<1>1. PICK t, op : t = tick[c] /\ op = Verdict
    OBVIOUS
<1>2. Local(op, "fail", t) /\ Knows(c, t) /\ t \in Ticks
    BY <1>1, WorkingKnows DEF FailPipelineRun, Working, PCs
<1>3. CASE lease_owner = c /\ status = "running"
  <2>1. t.outcome \in Terminal /\ t.outcome # "succeeded"
      BY <1>2 DEF Ticks, Terminal
  <2>2. ASSUME Reliable PROVE \A i \in Stages : OperationOver(i)
    <3>1. Ended(Verdict, Started)
        BY <1>1, <1>2, <1>3, <2>2 DEF Local, Ending, Knows
    <3> QED
        BY <3>1, VerdictReads DEF Ended, Started, Settled, OperationOver, IndInv
  <2>3. /\ status' = t.outcome /\ lease_owner' = NoCoordinator /\ lease_until' = "null" /\ Stop(c)
        /\ UNCHANGED <<terminal_status, cancel_requested, execution_requested, initialized, rows, ops, bounds>>
      BY <1>1, <1>3 DEF FailPipelineRun
  <2> QED
      BY <1>3, <2>1, <2>2, <2>3, RunEnds
<1>4. CASE ~(lease_owner = c /\ status = "running")
    BY <1>4, GivesUp DEF FailPipelineRun, run
<1> QED
    BY <1>3, <1>4

(* A run that completes after all of its cleanups. *)
LEMMA CompleteKept ==
    ASSUME IndInv, NEW c \in Coordinators, CompletePipelineRun(c)
    PROVE  IndInv'
<1>1. PICK t, op : t = tick[c] /\ op = Verdict
    OBVIOUS
<1>2. Local(op, "complete", t) /\ Knows(c, t)
    BY <1>1, WorkingKnows DEF CompletePipelineRun, Working, PCs
<1> DEFINE completes == lease_owner = c /\ status = "running" /\ \A i \in Stages : stage[i] = "succeeded"
<1>3. CASE completes
  <2>1. terminal_status = "" /\ \A i \in Stages : operation[i] = "succeeded"
      BY <1>2, <1>3 DEF Local, Reporting, Deciding, Knows, IndInv, Sound, SucceededRows
  <2>2. \A i \in Stages : OperationOver(i)
      BY <2>1 DEF OperationOver, Settled, Terminal
  <2>3. /\ status' = "succeeded" /\ lease_owner' = NoCoordinator /\ lease_until' = "null" /\ Stop(c)
        /\ UNCHANGED <<terminal_status, cancel_requested, execution_requested, initialized, rows, ops, bounds>>
      BY <1>3 DEF CompletePipelineRun
  <2>4. "succeeded" \in Terminal
      BY DEF Terminal
  <2> QED
      BY <1>3, <2>1, <2>2, <2>3, <2>4, RunEnds
<1>4. CASE ~completes
    BY <1>4, GivesUp DEF CompletePipelineRun, run
<1> QED
    BY <1>3, <1>4
(* The creation of a cleanup operation, the first of a stage or a later one. *)
LEMMA CreateCleanupKept ==
    ASSUME IndInv, NEW c \in Coordinators, CreatePipelineCleanupOperation(c)
    PROVE  IndInv'
<1>1. PICK t, op, i : t = tick[c] /\ op = Verdict /\ i = NextCleanup(t)
    OBVIOUS
<1>2. Local(op, "clean", t) /\ Knows(c, t) /\ t \in Ticks
    BY <1>1, WorkingKnows DEF CreatePipelineCleanupOperation, Working, PCs
<1>3. i \in Stages
    BY <1>1, <1>2 DEF CreatePipelineCleanupOperation, Ticks
<1> DEFINE creates == Owns(c) /\ stage[i] \in Terminal /\ cleanup_status[i] = "pending"
<1>4. CASE ~creates
  <2>1. Over(op, t)
      BY <1>2, EndingIsOver DEF Ending
  <2>2. Go(c, "fail", t) /\ UNCHANGED <<run, lease, rows, ops, bounds>>
      BY <1>1, <1>4 DEF CreatePipelineCleanupOperation, rows, ops, swept
  <2>3. Lands(c, op, t)
      BY <2>1, <2>2, FailLands
  <2> QED
      BY <1>1, <1>2, <2>2, <2>3, LocalTick
<1>5. CASE creates
  <2>1. /\ cleanup_op' = [cleanup_op EXCEPT ![i] = "queued"]
        /\ attempts' = [attempts EXCEPT ![i] = @ + 1]
        /\ cleanup_operation' = [cleanup_operation EXCEPT ![i] = attempts'[i]]
        /\ cleanup_status' = [cleanup_status EXCEPT ![i] = "queued"]
        /\ Go(c, "release", NoTick)
        /\ cleanup_late' \subseteq cleanup_late
        /\ UNCHANGED <<run, lease, stage, operation, ran, expired, late, cleanup_expired, bounds>>
      BY <1>1, <1>5 DEF CreatePipelineCleanupOperation, Release
  <2>2. attempts \in [Stages -> 0..(MaxRetries + 1)] /\ retries \in 0..MaxRetries /\ MaxRetries \in Nat
      BY PipelineAssumption DEF IndInv, TypeOK
  <2>3. attempts[i] \in Nat /\ attempts[i] <= retries
      BY <1>3, <1>5, <2>2 DEF IndInv, Sound, Attempted
  <2>4. /\ attempts'[i] = attempts[i] + 1 /\ attempts'[i] \in 1..(MaxRetries + 1)
        /\ \A k \in Stages \ {i} : attempts'[k] = attempts[k]
        /\ attempts' \in [Stages -> 0..(MaxRetries + 1)]
      BY <1>3, <2>1, <2>2, <2>3
  <2>5. /\ cleanup_op' \in [Stages -> OpStatuses] /\ cleanup_status' \in [Stages -> CleanupStatuses]
        /\ cleanup_operation' \in [Stages -> 0..(MaxRetries + 1)]
        /\ cleanup_op'[i] = "queued" /\ cleanup_status'[i] = "queued" /\ cleanup_operation'[i] = attempts'[i]
        /\ \A k \in Stages \ {i} : /\ cleanup_op'[k] = cleanup_op[k] /\ cleanup_status'[k] = cleanup_status[k]
                                   /\ cleanup_operation'[k] = cleanup_operation[k]
      BY <1>3, <2>1, <2>4 DEF IndInv, TypeOK, OpStatuses, CleanupStatuses
  <2>6. Growing
    <3>1. \A k \in Stages : attempts[k] \in Nat /\ attempts'[k] \in Nat /\ attempts[k] <= attempts'[k]
        BY <2>2, <2>3, <2>4
    <3>2. Verdict' = Verdict
        BY <2>1 DEF Verdict
    <3> QED
        BY <3>1, <3>2, <2>1 DEF Growing, Moves, run
  <2>7. Started' = Started
      BY <2>1 DEF Started
  <2>8. /\ \A d \in Coordinators : Informed(d)'
        /\ pc' \in [Coordinators -> PCs] /\ tick' \in [Coordinators -> Ticks]
      BY <2>1, <2>6, <2>7, LetGo DEF run, lease
  <2>9. Sound'
    <3>1. Attempted'
      <4> SUFFICES ASSUME NEW k \in Stages
                   PROVE  /\ attempts'[k] <= retries + 1
                          /\ cleanup_status'[k] = "pending" => attempts'[k] <= retries
                          /\ cleanup_operation'[k] <= attempts'[k]
                          /\ attempts'[k] # 0 => cleanup_op'[k] # "none"
          BY <2>1 DEF Attempted, bounds
      <4>1. CASE k = i
          BY <4>1, <2>2, <2>3, <2>4, <2>5
      <4>2. CASE k # i
          BY <4>2, <2>4, <2>5 DEF IndInv, Sound, Attempted
      <4> QED
          BY <4>1, <4>2
    <3>2. Leased' /\ Gated' /\ SucceededRows' /\ GateHolds' /\ SucceededIsComplete'
        BY <2>1, <2>7 DEF IndInv, Sound, Leased, Gated, SucceededRows, GateHolds, SucceededIsComplete, run, lease
    <3>3. StartedInOrder' /\ Bounded' /\ Lapsed' /\ (Reliable => DrainedBeforeFinal')
        BY <2>1, <2>7 DEF IndInv, Sound, StartedInOrder, Bounded, Unfinished, Lapsed, DrainedBeforeFinal, OperationOver, run
    <3> QED
        BY <3>1, <3>2, <3>3 DEF Sound
  <2>10. TypeOK'
      BY <2>1, <2>4, <2>5, <2>8 DEF IndInv, TypeOK, run, lease, bounds
  <2> QED
      BY <2>8, <2>9, <2>10 DEF IndInv
<1> QED
    BY <1>4, <1>5

(* Steps that begin or end a tick and change the lease at most. *)
LEMMA LeaseKept ==
    ASSUME IndInv, NEW c \in Coordinators, NEW to \in {"idle", "read", "release"}, Go(c, to, NoTick),
           UNCHANGED <<terminal_status, cancel_requested, execution_requested, initialized, rows, ops, retries, expiries>>,
           status' = status \/ (status = "queued" /\ status' = "running"),
           lease_owner' \in {c, NoCoordinator, lease_owner},
           lease_owner' = c => lease_owner = c \/ status' = "running",
           lease_until' \in {"null", "valid", "lapsed"},
           interrupts' \in 0..MaxInterrupts, stalls' \in 0..MaxStalls
    PROVE  IndInv'
<1>1. Started' = Started /\ NoCoordinator \notin Coordinators
    BY PipelineAssumption DEF Started, ops, swept
<1>2. Growing
    BY GrowingSame DEF IndInv, ops, swept
<1>3. /\ \A d \in Coordinators : Informed(d)'
      /\ pc' \in [Coordinators -> PCs] /\ tick' \in [Coordinators -> Ticks]
    BY <1>1, <1>2, LetGo
<1>4. Sound'
  <2>1. Leased' /\ SucceededIsComplete' /\ (Reliable => DrainedBeforeFinal')
      BY <1>1 DEF IndInv, Sound, Leased, SucceededIsComplete, DrainedBeforeFinal, OperationOver, ops, swept, Terminal
  <2>2. Gated' /\ Attempted' /\ SucceededRows' /\ GateHolds'
      BY <1>1 DEF IndInv, Sound, Gated, Attempted, SucceededRows, GateHolds, ops, swept, rows
  <2>3. StartedInOrder' /\ Bounded' /\ Lapsed'
      BY <1>1 DEF IndInv, Sound, StartedInOrder, Bounded, Unfinished, Lapsed, ops, swept
  <2> QED
      BY <2>1, <2>2, <2>3 DEF Sound
<1>5. TypeOK'
    BY <1>3 DEF IndInv, TypeOK, ops, swept, rows
<1> QED
    BY <1>3, <1>4, <1>5 DEF IndInv

(* A claim of a run that is queued, or whose coordinator has let its lease lapse. *)
LEMMA ClaimKept ==
    ASSUME IndInv, NEW c \in Coordinators, ClaimPipelineRun(c)
    PROVE  IndInv'
<1>1. /\ Go(c, "read", NoTick) /\ status \in {"queued", "running"} /\ status' = "running"
      /\ lease_owner' = c /\ lease_until' = "valid"
      /\ UNCHANGED <<terminal_status, cancel_requested, execution_requested, initialized, rows, ops, bounds>>
    BY DEF ClaimPipelineRun
<1>2. interrupts' \in 0..MaxInterrupts /\ stalls' \in 0..MaxStalls /\ retries' = retries /\ expiries' = expiries
    BY <1>1 DEF IndInv, TypeOK, bounds
<1> QED
    BY <1>1, <1>2, LeaseKept

(* The release at the end of a tick, which asks for the owner it had. *)
LEMMA ReleaseKept ==
    ASSUME IndInv, NEW c \in Coordinators, ReleasePipelineRun(c)
    PROVE  IndInv'
<1>1. /\ Go(c, "idle", NoTick) /\ lease_owner' \in {NoCoordinator, lease_owner}
      /\ lease_until' \in {"null", "valid", lease_until}
      /\ lease_owner' = c => lease_owner = c \/ NoCoordinator = c
      /\ UNCHANGED <<run, rows, ops, bounds>>
    BY DEF ReleasePipelineRun, Stop, lease
<1>2. /\ interrupts' \in 0..MaxInterrupts /\ stalls' \in 0..MaxStalls /\ retries' = retries /\ expiries' = expiries
      /\ lease_until' \in {"null", "valid", "lapsed"}
    BY <1>1 DEF IndInv, TypeOK, bounds
<1>3. c # NoCoordinator
    BY PipelineAssumption
<1> QED
    BY <1>1, <1>2, <1>3, LeaseKept DEF run

(* A crash, or a tick that an error ends. *)
LEMMA InterruptKept ==
    ASSUME IndInv, NEW c \in Coordinators, Crash(c) \/ Abandon(c)
    PROVE  IndInv'
<1>1. /\ Go(c, "idle", NoTick) \/ Go(c, "release", NoTick)
      /\ interrupts < MaxInterrupts /\ interrupts' = interrupts + 1
      /\ UNCHANGED <<run, lease, rows, ops, retries, stalls, expiries>>
    BY DEF Crash, Abandon, Stop, Release
<1>2. interrupts' \in 0..MaxInterrupts /\ stalls' \in 0..MaxStalls
  <2>1. interrupts \in 0..MaxInterrupts /\ stalls \in 0..MaxStalls /\ MaxInterrupts \in Nat
      BY PipelineAssumption DEF IndInv, TypeOK
  <2> QED
      BY <1>1, <2>1
<1>3. lease_until' \in {"null", "valid", "lapsed"} /\ lease_owner' = lease_owner
    BY <1>1 DEF IndInv, TypeOK, lease
<1> QED
    BY <1>1, <1>2, <1>3, LeaseKept DEF run
-----------------------------------------------------------------------------
(* What happens around a tick.                                             *)

(* The end of the lease of a coordinator that has stalled or crashed. *)
LEMMA LapseKept ==
    ASSUME IndInv, LeaseLapses
    PROVE  IndInv'
<1>1. /\ stalls' \in 0..MaxStalls /\ lease_until' = "lapsed"
      /\ UNCHANGED <<run, lease_owner, rows, ops, pc, tick, retries, interrupts, expiries>>
  <2>1. stalls \in 0..MaxStalls /\ MaxStalls \in Nat
      BY PipelineAssumption DEF IndInv, TypeOK
  <2>2. stalls' = stalls \/ (stalls < MaxStalls /\ stalls' = stalls + 1)
      BY DEF LeaseLapses
  <2>3. stalls' \in 0..MaxStalls
      BY <2>1, <2>2
  <2> QED
      BY <2>3 DEF LeaseLapses
<1>2. Started' = Started /\ Growing
    BY <1>1, GrowingSame DEF IndInv, Started, ops, swept, run
<1>3. /\ \A d \in Coordinators : Informed(d)'
      /\ pc' \in [Coordinators -> PCs] /\ tick' \in [Coordinators -> Ticks]
    BY <1>1, <1>2, OutsideStep DEF run
<1>4. Still
    BY <1>1 DEF Still, rows, ops, swept, IndInv, Sound, SucceededRows
<1>5. Sound'
    BY <1>4, SoundStill DEF IndInv
<1>6. TypeOK'
    BY <1>1, <1>3 DEF IndInv, TypeOK, run, rows, ops, swept
<1> QED
    BY <1>3, <1>5, <1>6 DEF IndInv

(* The worker's progress on an operation of a stage, *)
LEMMA OperationKept ==
    ASSUME IndInv, NEW i \in Stages,
           OperationRuns(i) \/ OperationSettles(i) \/ OperationExpires(i) \/ OperationRevives(i)
    PROVE  IndInv'
<1>0. Lapsed /\ late \subseteq expired /\ ran \subseteq Mutating
    BY DEF IndInv, Sound, TypeOK
<1>1. PICK s \in {"running"} \union Terminal :
         /\ operation' = [operation EXCEPT ![i] = s]
         /\ operation[i] \in {"queued", "running"} \/ (operation[i] = "failed" /\ i \in expired)
         /\ s = "running" => operation[i] = "queued" \/ i \in expired
         /\ expired' \in {expired, expired \union {i}}
         /\ late' = late \ {i} \/ (late' = late \union {i} /\ i \in expired' /\ s = "failed")
         /\ ran' \subseteq Mutating
  <2>1. CASE OperationRuns(i)
    <3>1. i \notin late
        BY <1>0, <2>1 DEF OperationRuns, Lapsed
    <3> QED
        BY <1>0, <2>1, <3>1 DEF OperationRuns, swept
  <2>2. CASE OperationSettles(i)
    <3>1. i \notin late
        BY <1>0, <2>2 DEF OperationSettles, Lapsed
    <3> QED
        BY <1>0, <2>2, <3>1 DEF OperationSettles, LastWord, swept, Terminal
  <2>3. CASE OperationExpires(i)
      BY <1>0, <2>3 DEF OperationExpires, LastWord, Terminal
  <2>4. CASE OperationRevives(i)
      BY <1>0, <2>4 DEF OperationRevives, LastWord, Lapsed
  <2> QED
      BY <2>1, <2>2, <2>3, <2>4
<1>8. /\ expiries' \in 0..MaxExpiries
      /\ UNCHANGED <<run, lease, rows, cleanup_op, attempts, cleanup_expired, cleanup_late, pc, tick,
                     retries, interrupts, stalls>>
  <2>1. expiries \in 0..MaxExpiries /\ MaxExpiries \in Nat
      BY PipelineAssumption DEF IndInv, TypeOK
  <2>2. expiries' = expiries \/ (expiries < MaxExpiries /\ expiries' = expiries + 1)
      BY DEF OperationRuns, OperationSettles, OperationExpires, OperationRevives
  <2>3. expiries' \in 0..MaxExpiries
      BY <2>1, <2>2
  <2> QED
      BY <2>3 DEF OperationRuns, OperationSettles, OperationExpires, OperationRevives, around, swept
<1>2. operation' \in [Stages -> OpStatuses] /\ operation'[i] = s /\ \A k \in Stages \ {i} : operation'[k] = operation[k]
    BY <1>1 DEF IndInv, TypeOK, OpStatuses
<1>9. \A k \in Stages : k # i => Verdict'[k] = Verdict[k]
    BY <1>1, <1>2 DEF Verdict
<1>10. Verdict'[i] # "none" /\ (Verdict[i] \in Terminal => Verdict'[i] \in Terminal /\ Verdict[i] # "succeeded")
    BY <1>1, <1>2 DEF Verdict, Terminal
<1>3. Moves(Verdict, Verdict')
    BY <1>9, <1>10 DEF Moves, Terminal
<1>11. Proceeds
    BY <1>1, <1>2 DEF Proceeds, Lasting, OperationOver, Settled, Terminal
<1>12. Lapsed' /\ late' \subseteq expired'
  <2>1. ASSUME NEW k \in late' PROVE operation'[k] = "failed" /\ k \in expired'
    <3>1. CASE k # i
      <4>1. k \in late /\ k \in expired /\ k \in Stages
          BY <2>1, <3>1, <1>0, <1>1 DEF IndInv, TypeOK
      <4> QED
          BY <4>1, <3>1, <1>0, <1>1, <1>2 DEF Lapsed
    <3>2. CASE k = i
        BY <3>2, <2>1, <1>0, <1>1, <1>2 DEF Lapsed
    <3> QED
        BY <3>1, <3>2
  <2> QED
      BY <2>1 DEF Lapsed
<1>6. Sound' /\ Started' = Started
    BY <1>8, <1>11, <1>12, SoundMoves DEF IndInv, lease
<1>4. Growing
    BY <1>3, <1>8, AttemptsAreNumbers DEF Growing, IndInv, run
<1>5. /\ \A d \in Coordinators : Informed(d)'
      /\ pc' \in [Coordinators -> PCs] /\ tick' \in [Coordinators -> Ticks]
    BY <1>4, <1>6, <1>8, OutsideStep DEF run, lease
<1>7. TypeOK'
    BY <1>1, <1>2, <1>5, <1>8, <1>12 DEF IndInv, TypeOK, run, lease, rows
<1> QED
    BY <1>5, <1>6, <1>7 DEF IndInv

(* and on a cleanup operation. *)
LEMMA CleanupRunsKept ==
    ASSUME IndInv, NEW i \in Stages, CleanupRuns(i) \/ CleanupExpires(i) \/ CleanupRevives(i)
    PROVE  IndInv'
<1>8. attempts[i] \in 0..(MaxRetries + 1)
    BY DEF IndInv, TypeOK
<1>1. PICK s \in {"running"} \union Terminal :
         /\ cleanup_op' = [cleanup_op EXCEPT ![i] = s]
         /\ cleanup_expired' \in {cleanup_expired, cleanup_expired \union {<<i, attempts[i]>>}}
         /\ cleanup_late' \in {cleanup_late, cleanup_late \union {i}, cleanup_late \ {i}}
         /\ expiries' = expiries \/ (expiries < MaxExpiries /\ expiries' = expiries + 1)
         /\ UNCHANGED <<around, operation, ran, attempts, expired, late>>
  <2>1. CASE CleanupRuns(i)
      BY <2>1 DEF CleanupRuns, swept, Terminal
  <2>2. CASE CleanupExpires(i)
      BY <2>2 DEF CleanupExpires, Terminal
  <2>3. CASE CleanupRevives(i)
      BY <2>3 DEF CleanupRevives
  <2> QED
      BY <2>1, <2>2, <2>3
<1>2. cleanup_op' \in [Stages -> OpStatuses] /\ \A k \in Stages : cleanup_op[k] # "none" => cleanup_op'[k] # "none"
    BY <1>1 DEF IndInv, TypeOK, OpStatuses, Terminal
<1>3. Started' = Started /\ Growing
    BY <1>1, GrowingSame DEF IndInv, Started, around, run
<1>4. /\ \A d \in Coordinators : Informed(d)'
      /\ pc' \in [Coordinators -> PCs] /\ tick' \in [Coordinators -> Ticks]
    BY <1>1, <1>3, OutsideStep DEF around, run, lease
<1>5. Still
    BY <1>1, <1>2 DEF Still, around, rows, lease, IndInv, Sound, SucceededRows
<1>6. Sound'
    BY <1>5, SoundStill DEF IndInv
<1>9. expiries' \in 0..MaxExpiries
  <2>1. expiries \in 0..MaxExpiries /\ MaxExpiries \in Nat
      BY PipelineAssumption DEF IndInv, TypeOK
  <2> QED
      BY <1>1, <2>1
<1>10. cleanup_expired' \subseteq Stages \X (0..(MaxRetries + 1)) /\ cleanup_late' \subseteq Stages
  <2>1. cleanup_expired \subseteq Stages \X (0..(MaxRetries + 1)) /\ cleanup_late \subseteq Stages
      BY DEF IndInv, TypeOK
  <2>2. <<i, attempts[i]>> \in Stages \X (0..(MaxRetries + 1))
      BY <1>8
  <2> QED
      BY <1>1, <2>1, <2>2, Zenon
<1>7. TypeOK'
    BY <1>1, <1>2, <1>4, <1>9, <1>10 DEF IndInv, TypeOK, around, run, lease, rows
<1> QED
    BY <1>4, <1>6, <1>7 DEF IndInv

(* A user cancels, starts the traffic or cancels the experiment: flags     *)
(* rise, and a queued run may end.                                         *)
LEMMA RequestKept ==
    ASSUME IndInv, RequestPipelineRunCancel \/ RequestExperimentCancel \/ StartExperimentTraffic
    PROVE  IndInv'
<1>1. /\ cancel_requested' \in BOOLEAN /\ execution_requested' \in BOOLEAN
      /\ execution_requested => execution_requested'
      /\ execution_requested' => execution_requested \/ initialized
      /\ stage' \in [Stages -> (OpStatuses \ {"none"}) \union {"pending"}]
      /\ \A i \in Stages : stage'[i] = "succeeded" => stage[i] = "succeeded"
      /\ \/ UNCHANGED <<status, lease>>
         \/ status = "queued" /\ status' = "canceled" /\ lease_owner' = NoCoordinator /\ lease_until' = "null"
      /\ UNCHANGED <<terminal_status, initialized, cleanup_status, cleanup_operation, ops, pc, tick, bounds>>
  <2>1. CASE RequestPipelineRunCancel
      BY <2>1 DEF RequestPipelineRunCancel, rows, IndInv, TypeOK
  <2>2. CASE RequestExperimentCancel
      BY <2>2 DEF RequestExperimentCancel, IndInv, TypeOK, OpStatuses, Terminal
  <2>3. CASE StartExperimentTraffic
      BY <2>3 DEF StartExperimentTraffic, rows, IndInv, TypeOK
  <2> QED
      BY <2>1, <2>2, <2>3
<1>2. Started' = Started /\ Growing /\ NoCoordinator \notin Coordinators
    BY <1>1, GrowingSame, PipelineAssumption DEF IndInv, Started, ops, swept
<1>3. /\ \A d \in Coordinators : Informed(d)'
      /\ pc' \in [Coordinators -> PCs] /\ tick' \in [Coordinators -> Ticks]
    BY <1>1, <1>2, OutsideStep DEF lease
<1>4. Sound'
  <2>1. Leased' /\ SucceededIsComplete'
      BY <1>1, <1>2 DEF IndInv, Sound, Leased, SucceededIsComplete, ops, swept, lease
  <2>2. Reliable => DrainedBeforeFinal'
      BY <1>1 DEF IndInv, Sound, Leased, DrainedBeforeFinal, OperationOver, Started, Settled, ops, swept, lease
  <2>3. Gated' /\ Attempted' /\ SucceededRows'
      BY <1>1 DEF IndInv, Sound, Gated, Attempted, SucceededRows, ops, swept, bounds
  <2>4. GateHolds' /\ StartedInOrder' /\ Bounded' /\ Lapsed'
      BY <1>1, <1>2 DEF IndInv, Sound, GateHolds, StartedInOrder, Bounded, Unfinished, Lapsed, ops, swept
  <2> QED
      BY <2>1, <2>2, <2>3, <2>4 DEF Sound
<1>5. TypeOK'
    BY <1>1, <1>3, PipelineAssumption DEF IndInv, TypeOK, ops, swept, bounds, lease, Terminal
<1> QED
    BY <1>3, <1>4, <1>5 DEF IndInv

(* A user's retry of the failed cleanups of a run that has ended. *)
LEMMA RetryKept ==
    ASSUME IndInv, RetryExperimentCleanup
    PROVE  IndInv'
<1>1. PICK failed \in SUBSET Stages :
         /\ cleanup_status' = [i \in Stages |-> IF i \in failed THEN "pending" ELSE cleanup_status[i]]
         /\ cleanup_operation' = [i \in Stages |-> IF i \in failed THEN 0 ELSE cleanup_operation[i]]
    BY DEF RetryExperimentCleanup
<1>11. retries < MaxRetries /\ retries' = retries + 1
    BY DEF RetryExperimentCleanup
<1>2. /\ terminal_status' \in {"", "failed", "canceled"} /\ status' = "running"
      /\ lease_owner' = NoCoordinator /\ lease_until' = "null"
      /\ UNCHANGED <<cancel_requested, execution_requested, initialized, stage, ops, pc, tick, interrupts, stalls, expiries>>
    BY DEF RetryExperimentCleanup, Terminal
<1>3. Started' = Started /\ Growing /\ NoCoordinator \notin Coordinators
    BY <1>2, GrowingSame, PipelineAssumption DEF IndInv, Started, ops, swept
<1>4. /\ \A d \in Coordinators : Informed(d)'
      /\ pc' \in [Coordinators -> PCs] /\ tick' \in [Coordinators -> Ticks]
    BY <1>2, <1>3, OutsideStep
<1>5. /\ attempts \in [Stages -> 0..(MaxRetries + 1)] /\ retries \in 0..MaxRetries /\ MaxRetries \in Nat
      /\ cleanup_operation \in [Stages -> 0..(MaxRetries + 1)] /\ cleanup_status \in [Stages -> CleanupStatuses]
    BY PipelineAssumption DEF IndInv, TypeOK
<1>6. retries' \in 0..MaxRetries /\ cleanup_operation' \in [Stages -> 0..(MaxRetries + 1)]
  <2>1. retries' \in 0..MaxRetries /\ 0 \in 0..(MaxRetries + 1)
      BY <1>5, <1>11
  <2> QED
      BY <1>1, <1>5, <2>1
<1>7. cleanup_status' \in [Stages -> CleanupStatuses]
    BY <1>1, <1>5 DEF CleanupStatuses
<1>8. Attempted'
  <2> SUFFICES ASSUME NEW k \in Stages
               PROVE  /\ attempts[k] <= retries' + 1
                      /\ cleanup_status'[k] = "pending" => attempts[k] <= retries'
                      /\ cleanup_operation'[k] <= attempts[k]
                      /\ attempts[k] # 0 => cleanup_op[k] # "none"
      BY <1>2 DEF Attempted, ops, swept
  <2>1. /\ attempts[k] <= retries + 1 /\ cleanup_operation[k] <= attempts[k]
        /\ attempts[k] # 0 => cleanup_op[k] # "none"
      BY DEF IndInv, Sound, Attempted
  <2>2. /\ attempts[k] \in Nat /\ cleanup_operation[k] \in Nat /\ retries \in Nat
        /\ cleanup_operation'[k] = 0 \/ cleanup_operation'[k] = cleanup_operation[k]
      BY <1>1, <1>5
  <2> QED
      BY <1>11, <2>1, <2>2
<1>9. Sound'
  <2>1. Leased' /\ SucceededIsComplete' /\ DrainedBeforeFinal'
      BY <1>2 DEF Leased, SucceededIsComplete, DrainedBeforeFinal, OperationOver, Terminal
  <2>2. Gated' /\ SucceededRows' /\ GateHolds' /\ StartedInOrder' /\ Bounded' /\ Lapsed'
      BY <1>2, <1>3 DEF IndInv, Sound, Gated, SucceededRows, GateHolds, StartedInOrder, Bounded, Unfinished, Lapsed, ops, swept
  <2> QED
      BY <1>8, <2>1, <2>2 DEF Sound
<1>10. TypeOK'
    BY <1>2, <1>4, <1>6, <1>7 DEF IndInv, TypeOK, ops, swept
<1> QED
    BY <1>4, <1>9, <1>10 DEF IndInv
-----------------------------------------------------------------------------
(* Counters begin inside of their bounds. *)
LEMMA ZeroInside == \A n \in Nat : 0 \in 0..n /\ 0 \in 0..(n + 1)
OBVIOUS

(* The invariant holds of a run that was just created. *)
LEMMA IndInvInit == Init => IndInv
<1> SUFFICES ASSUME Init PROVE IndInv
    OBVIOUS
<1>1. TypeOK
  <2>1. NoTick \in Ticks
      BY NoTickIsLocal DEF Local
  <2>2. /\ 0 \in 0..(MaxRetries + 1) /\ 0 \in 0..MaxRetries /\ 0 \in 0..MaxInterrupts /\ 0 \in 0..MaxStalls
        /\ 0 \in 0..MaxExpiries
    <3>1. MaxRetries \in Nat /\ MaxInterrupts \in Nat /\ MaxStalls \in Nat /\ MaxExpiries \in Nat
        BY PipelineAssumption
    <3> QED
        BY <3>1, ZeroInside
  <2> QED
      BY <2>1, <2>2 DEF Init, TypeOK, OpStatuses, CleanupStatuses, PCs
<1>2. Started = {} /\ Unfinished = {}
    BY DEF Init, Started, Unfinished, Settled
<1>3. Sound
  <2>1. StartedInOrder /\ Bounded /\ Lapsed
    <3>1. Cardinality(Unfinished) = 0
        BY <1>2, FS_EmptySet
    <3>2. Bounded
        BY <3>1, PipelineAssumption DEF Bounded, Limit
    <3> QED
        BY <1>2, <3>2, BoundedIsEnough DEF Init, StartedInOrder, Bounded, Unfinished, Lapsed
  <2>2. Attempted
    <3>1. \A i \in Stages : attempts[i] = 0 /\ cleanup_operation[i] = 0
        BY DEF Init
    <3>2. retries = 0
        BY DEF Init
    <3> QED
        BY <3>1, <3>2 DEF Attempted
  <2>3. Leased /\ Gated /\ SucceededRows /\ GateHolds /\ SucceededIsComplete /\ DrainedBeforeFinal
      BY <1>2 DEF Init, Leased, Gated, SucceededRows, GateHolds, SucceededIsComplete, DrainedBeforeFinal, OperationOver, Terminal
  <2> QED
      BY <2>1, <2>2, <2>3 DEF Sound
<1>4. ASSUME NEW c \in Coordinators PROVE Informed(c)
  <2>1. pc[c] = "idle" /\ tick[c] = NoTick
      BY <1>4 DEF Init
  <2>2. Local(Verdict, "idle", NoTick)
      BY NoTickIsLocal
  <2>3. NoTick.execution = FALSE /\ \A i \in Stages : NoTick.attempt[i] = 0 /\ attempts[i] = 0
      BY DEF NoTick, Init
  <2> QED
      BY <2>1, <2>2, <2>3 DEF Informed, Own, Grown, Working
<1> QED
    BY <1>1, <1>3, <1>4 DEF IndInv

(* Every statement of a tick keeps it. *)
LEMMA TickKept ==
    ASSUME IndInv, NEW c \in Coordinators, Tick(c)
    PROVE  IndInv'
BY ReadKept, SyncGetKept, SyncSetKept, InitializedKept, StartKept, FailStageKept, StopGetKept, StopSyncKept,
   StopCancelKept, BeginKept, FailRunKept, CompleteKept, SkipKept, CreateCleanupKept, BreaksKept, CleanupGetKept,
   CleanupSyncKept, NotRecoveredKept, RenewKept, RecoverKept, ReleaseKept DEF Tick

(* Every step preserves the inductive invariant. *)
LEMMA IndInvNext == IndInv /\ [Next]_vars => IndInv'
<1> SUFFICES ASSUME IndInv, [Next]_vars PROVE IndInv'
    OBVIOUS
<1>1. ASSUME NEW c \in Coordinators, ClaimPipelineRun(c) \/ Tick(c) \/ Crash(c) \/ Abandon(c) PROVE IndInv'
    BY <1>1, ClaimKept, TickKept, InterruptKept
<1>2. ASSUME NEW i \in Stages,
             \/ OperationRuns(i) \/ OperationSettles(i) \/ OperationExpires(i) \/ OperationRevives(i)
             \/ CleanupRuns(i) \/ CleanupExpires(i) \/ CleanupRevives(i)
      PROVE  IndInv'
    BY <1>2, OperationKept, CleanupRunsKept
<1>3. CASE LeaseLapses \/ RequestPipelineRunCancel \/ RequestExperimentCancel \/ StartExperimentTraffic
           \/ RetryExperimentCleanup
    BY <1>3, LapseKept, RequestKept, RetryKept
<1>4. CASE UNCHANGED vars
  <2>1. Started' = Started /\ Growing
      BY <1>4, GrowingSame DEF vars, run, ops, swept, IndInv, Started
  <2>2. /\ \A d \in Coordinators : Informed(d)'
        /\ pc' \in [Coordinators -> PCs] /\ tick' \in [Coordinators -> Ticks]
      BY <1>4, <2>1, OutsideStep DEF vars, run, lease
  <2>3. Still
      BY <1>4 DEF Still, vars, run, lease, rows, ops, swept, bounds, IndInv, Sound, SucceededRows
  <2>4. Sound'
      BY <2>3, SoundStill DEF IndInv
  <2>5. TypeOK'
      BY <1>4, <2>2 DEF IndInv, TypeOK, vars, run, lease, rows, ops, swept, bounds
  <2> QED
      BY <2>2, <2>4, <2>5 DEF IndInv
<1> QED
    BY <1>1, <1>2, <1>3, <1>4 DEF Next

(* The copies of the coordinators are right about the run: IndInv holds in *)
(* every state, whichever calls fail.                                      *)
THEOREM CopiesAreRight == Spec => []IndInv
BY IndInvInit, IndInvNext, PTL DEF Spec

(* The rows, the operations and the locals of every tick keep their types, *)
(* and no stage is cleaned up more than once per retry.                    *)
THEOREM PipelineTypes == Spec => []TypeOK
<1>1. IndInv => TypeOK
    BY DEF IndInv
<1> QED
    BY <1>1, CopiesAreRight, PTL

(* Whichever calls fail and whichever coordinators stall: stages start in  *)
(* order, within the limit and behind their gate, and a run succeeds only  *)
(* when all of its operations have.                                        *)
THEOREM StartsAreSound == Spec => [](StartedInOrder /\ GateHolds /\ SucceededIsComplete)
<1>1. IndInv => StartedInOrder /\ GateHolds /\ SucceededIsComplete
    BY DEF IndInv, Sound
<1> QED
    BY <1>1, CopiesAreRight, PTL

(* As long as the pipeline of the run can be loaded, nothing of a run that *)
(* is over still runs either, but for workers that outlive the lease of    *)
(* their operation: the whole of OutcomeIsSound.                           *)
THEOREM OutcomeAlwaysSound ==
    ASSUME "pipeline" \notin Failures
    PROVE  Spec => []OutcomeIsSound
<1>1. IndInv => OutcomeIsSound
    BY DEF IndInv, Sound, OutcomeIsSound, Reliable
<1> QED
    BY <1>1, CopiesAreRight, PTL
-----------------------------------------------------------------------------
(* The outcome that was decided.                                           *)

(* Most store calls neither start a stage nor touch the status. *)
LEMMA TickLeavesAlone ==
    ASSUME NEW c, Tick(c)
    PROVE  \/ UNCHANGED <<status, operation>>
           \/ startPipelineStage(c) \/ StopCancel(c) \/ FailPipelineRun(c) \/ CompletePipelineRun(c)
<1>1. CASE GetPipelineRun(c) \/ SyncGet(c) \/ SyncSet(c) \/ MarkPipelineInitialized(c) \/ FailPipelineRunStage(c)
    BY <1>1 DEF GetPipelineRun, SyncGet, SyncSet, MarkPipelineInitialized, FailPipelineRunStage, run, ops, swept
<1>2. CASE StopGet(c) \/ StopSync(c) \/ BeginPipelineRunTermination(c) \/ ReleasePipelineRun(c)
    BY <1>2 DEF StopGet, StopSync, BeginPipelineRunTermination, ReleasePipelineRun, run, ops, swept
<1>3. CASE SkipPipelineRunStageCleanup(c) \/ CreatePipelineCleanupOperation(c)
    BY <1>3 DEF SkipPipelineRunStageCleanup, CreatePipelineCleanupOperation, run, ops, swept
<1>4. CASE CleanupBreaks(c) \/ CleanupGet(c) \/ CleanupSync(c)
    BY <1>4 DEF CleanupBreaks, CleanupGet, CleanupSync, run, ops, swept
<1>5. CASE NotRecovered(c) \/ RecheckHealthy(c) \/ RecheckRenew(c) \/ Recover(c)
    BY <1>5 DEF NotRecovered, RecheckHealthy, RecheckRenew, Recover, run, ops, swept
<1> QED
    BY <1>1, <1>2, <1>3, <1>4, <1>5 DEF Tick

Decided ==
    /\ \A i \in Stages \ Started : operation'[i] = "none"
    /\ status' # status => status' \in {terminal_status, "running"}

(* No statement of a tick takes a decided outcome back or starts an operation after it. *)
LEMMA TickDecided ==
    ASSUME Reliable, IndInv, terminal_status # "", NEW c \in Coordinators, Tick(c)
    PROVE  Decided
<1>1. PICK t, op : t = tick[c] /\ op = Verdict
    OBVIOUS
<1>2. \A i \in Stages \ Started : operation[i] = "none"
    BY DEF Started
<1>3. CASE UNCHANGED <<status, operation>>
    BY <1>2, <1>3 DEF Decided
<1>4. CASE startPipelineStage(c)
  <2>1. Local(op, "start", t) /\ Knows(c, t)
      BY <1>1, <1>4, WorkingKnows DEF startPipelineStage, Working, PCs
  <2>2. t.terminal = ""
      BY <2>1 DEF Local, Reporting, Deciding
  <2>3. ~Owns(c)
      BY <2>1, <2>2 DEF Owns, Knows
  <2>4. UNCHANGED <<status, operation>>
      BY <1>4, <2>3 DEF startPipelineStage, MayCreate, run
  <2> QED
      BY <1>2, <2>4 DEF Decided
<1>5. CASE StopCancel(c)
  <2>1. PICK i : operation' = [operation EXCEPT ![i] = IF @ = "queued" THEN "canceled" ELSE @] /\ status' = status
      BY <1>5 DEF StopCancel, run
  <2> QED
      BY <1>2, <2>1 DEF Decided, IndInv, TypeOK
<1>6. CASE FailPipelineRun(c)
  <2>1. Local(op, "fail", t) /\ Knows(c, t)
      BY <1>1, <1>6, WorkingKnows DEF FailPipelineRun, Working, PCs
  <2>2. t.terminal # "" => t.outcome = t.terminal
      BY <2>1 DEF Local, Reporting
  <2>3. operation' = operation /\ (status' # status => lease_owner = c /\ status' = t.outcome)
      BY <1>1, <1>6 DEF FailPipelineRun, ops, swept
  <2> QED
      BY <1>2, <2>1, <2>2, <2>3 DEF Decided, Knows
<1>7. CASE CompletePipelineRun(c)
  <2>1. Local(op, "complete", t) /\ Knows(c, t)
      BY <1>1, <1>7, WorkingKnows DEF CompletePipelineRun, Working, PCs
  <2>2. t.terminal = ""
      BY <2>1 DEF Local, Reporting, Deciding
  <2>3. operation' = operation /\ status' = status
      BY <1>7, <2>1, <2>2 DEF CompletePipelineRun, Knows, ops, swept
  <2> QED
      BY <1>2, <2>3 DEF Decided
<1> QED
    BY <1>3, <1>4, <1>5, <1>6, <1>7, TickLeavesAlone

(* No step does. *)
LEMMA NextDecided ==
    ASSUME Reliable, IndInv, terminal_status # "", [Next]_vars
    PROVE  Decided
<1>1. \A i \in Stages \ Started : operation[i] = "none"
    BY DEF Started
<1>2. CASE UNCHANGED <<status, operation>>
    BY <1>1, <1>2 DEF Decided
<1>3. ASSUME NEW c \in Coordinators, ClaimPipelineRun(c) PROVE Decided
    BY <1>1, <1>3 DEF ClaimPipelineRun, ops, swept, Decided
<1>4. ASSUME NEW c \in Coordinators, Crash(c) \/ Abandon(c) PROVE Decided
    BY <1>2, <1>4 DEF Crash, Abandon, run, ops, swept
<1>5. ASSUME NEW i \in Stages, OperationRuns(i) \/ OperationSettles(i) \/ OperationExpires(i) \/ OperationRevives(i)
      PROVE  Decided
  <2>1. PICK s : /\ operation[i] \in {"queued", "running", "failed"} /\ status' = status
                 /\ operation' = [operation EXCEPT ![i] = s]
    <3>1. \A k \in late : operation[k] = "failed"
        BY DEF IndInv, Sound, Lapsed
    <3> QED
        BY <1>5, <3>1 DEF OperationRuns, OperationSettles, OperationExpires, OperationRevives, LastWord, around, run
  <2> QED
      BY <1>1, <2>1 DEF Decided, IndInv, TypeOK
<1>6. ASSUME NEW i \in Stages, CleanupRuns(i) \/ CleanupExpires(i) \/ CleanupRevives(i) PROVE Decided
    BY <1>2, <1>6 DEF CleanupRuns, CleanupExpires, CleanupRevives, around, run
<1>7. CASE LeaseLapses \/ RequestPipelineRunCancel \/ StartExperimentTraffic
    BY <1>2, <1>7 DEF LeaseLapses, RequestPipelineRunCancel, StartExperimentTraffic, run, ops, swept
<1>8. CASE RequestExperimentCancel
  <2>1. status # "queued"
      BY DEF IndInv, Sound, Leased
  <2> QED
      BY <1>2, <1>8, <2>1 DEF RequestExperimentCancel, ops, swept
<1>9. CASE RetryExperimentCleanup
    BY <1>1, <1>9 DEF RetryExperimentCleanup, ops, swept, Decided
<1>10. CASE UNCHANGED vars
    BY <1>2, <1>10 DEF vars, run, ops, swept
<1> QED
    BY <1>3, <1>4, <1>5, <1>6, <1>7, <1>8, <1>9, <1>10, TickDecided DEF Next

(* Once the outcome of a run is decided it stands, and no stage is started *)
(* any more, whichever coordinator still works on a copy from before; as   *)
(* long as the pipeline of the run can be loaded.                          *)
THEOREM DecidedAlwaysStands ==
    ASSUME "pipeline" \notin Failures
    PROVE  Spec => DecidedOutcomeStands
<1>1. IndInv /\ [Next]_vars => [terminal_status # "" => Decided]_vars
    BY NextDecided DEF Reliable
<1>2. Spec => [][terminal_status # "" => Decided]_vars
    BY <1>1, CopiesAreRight, PTL DEF Spec
<1> QED
    BY <1>2 DEF DecidedOutcomeStands, Decided

-----------------------------------------------------------------------------
(***************************************************************************)
(* The cleanups of a run, for any pipeline, any number of coordinators and *)
(* any number of stalls, crashes, errors and retries: they start in order, *)
(* one at a time and after everything they depend on.                      *)
(***************************************************************************)

(* What becomes known of the latest cleanup of each stage: one whose lease *)
(* ran out is failed, also when its worker reports that it goes on.        *)
CleanupVerdict ==
    [i \in Stages |-> IF cleanup_op[i] = "running" /\ <<i, attempts[i]>> \in cleanup_expired
                       THEN "failed" ELSE cleanup_op[i]]

(* A cleanup whose worker has not been heard of since its lease ran out.   *)
CleanupLapsed == \A i \in cleanup_late : cleanup_op[i] = "failed" /\ <<i, attempts[i]>> \in cleanup_expired

(* The cleanup of a stage is done with, by its row and its operation. *)
Clean(row, created, op, i) == row[i] = "skipped" \/ (created[i] # 0 /\ op[i] \in Terminal)

(* A row names its latest attempt or none, it is final only after its      *)
(* operation, and an operation runs only after those in front of it.       *)
CleanupRows ==
    \A i \in Stages :
        /\ cleanup_operation[i] \in {0, attempts[i]}
        /\ cleanup_status[i] \in {"pending", "skipped"} <=> cleanup_operation[i] = 0
        /\ cleanup_status[i] \in Terminal => CleanupVerdict[i] \in Terminal
        /\ ~Settled(CleanupVerdict[i]) =>
              /\ cleanup_operation[i] # 0
              /\ \A k \in Stages : CleanedBefore(Kind, k, i) => Clean(cleanup_status, cleanup_operation, CleanupVerdict, k)

(* What the copy u says of the cleanups is true of the attempts it names,  *)
(* latest being the attempts and op the status of their operations.        *)
Recalls(latest, op, u) ==
    \A i \in Stages :
        /\ u.attempt[i] = 0 <=> u.cleanup[i] \in {"pending", "skipped"}
        /\ u.cleanup[i] \in Terminal /\ u.attempt[i] = latest[i] => op[i] \in Terminal

(* The same for the status that a tick at step to has read last. *)
Tidy(latest, op, to, u) ==
    /\ Recalls(latest, op, u)
    /\ to \in {"clean", "clean sync"} => u.left # {}
    /\ to = "clean sync" =>
          LET i == NextCleanup(u)
          IN  u.attempt[i] # 0 /\ (u.seen \in Terminal /\ u.attempt[i] = latest[i] => op[i] \in Terminal)
    /\ to \in Rechecking => \A i \in u.left : u.cleanup[i] = "failed"

(* The coordinator of the lease knows the cleanups that were created and   *)
(* skips none that is not done with.                                       *)
Orderly(row, created, op, to, u) ==
    /\ \A i \in Stages : u.attempt[i] = created[i] /\ (u.cleanup[i] = "skipped" => row[i] = "skipped")
    /\ to \in {"clean", "clean sync"} => \A i \in Stages \ u.left : Clean(row, created, op, i)

CleanInv ==
    /\ CleanupRows /\ CleanupLapsed
    /\ \A c \in Coordinators :
          /\ Tidy(attempts, CleanupVerdict, pc[c], tick[c])
          /\ lease_owner = c /\ pc[c] \in Working =>
                Orderly(cleanup_status, cleanup_operation, CleanupVerdict, pc[c], tick[c])

(* What the verdicts tell of the cleanups. *)
LEMMA CleanupVerdictReads ==
    ASSUME TypeOK
    PROVE  /\ CleanupVerdict \in [Stages -> OpStatuses]
           /\ \A i \in Stages :
                 /\ (CleanupVerdict[i] = "none") <=> (cleanup_op[i] = "none")
                 /\ cleanup_op[i] \in Terminal => CleanupVerdict[i] = cleanup_op[i]
                 /\ Settled(cleanup_op[i]) => Settled(CleanupVerdict[i])
                 /\ Settled(CleanupVerdict[i]) => CleanupOver(i)
<1>1. cleanup_op \in [Stages -> OpStatuses]
    BY DEF TypeOK
<1>2. \A i \in Stages : CleanupVerdict[i] = IF cleanup_op[i] = "running" /\ <<i, attempts[i]>> \in cleanup_expired
                                            THEN "failed" ELSE cleanup_op[i]
    BY DEF CleanupVerdict
<1>3. CleanupVerdict \in [Stages -> OpStatuses]
    BY <1>1 DEF CleanupVerdict, OpStatuses, Terminal
<1> QED
    BY <1>2, <1>3 DEF Terminal, CleanupOver, Settled

(* No cleanup operation changes. *)
CleanupsStand == UNCHANGED <<cleanup_op, attempts, cleanup_expired, cleanup_late>>

LEMMA CleanupVerdictStands ==
    ASSUME CleanupsStand
    PROVE  CleanupVerdict' = CleanupVerdict /\ attempts' = attempts /\ (CleanupLapsed => CleanupLapsed')
BY DEF CleanupsStand, CleanupVerdict, CleanupLapsed

-----------------------------------------------------------------------------
(* Which cleanup is next.                                                  *)

(* The next cleanup is one that is left, and nothing that has to be        *)
(* cleaned up earlier is left.                                             *)
LEMMA NextCleanupIsFirst ==
    ASSUME NEW t, t.left \subseteq Stages, t.left # {}
    PROVE  /\ NextCleanup(t) \in t.left
           /\ \A j \in Stages : CleanedBefore(Kind, j, NextCleanup(t)) => j \notin t.left
<1>1. PICK o : o = pipelineCleanupOrder(Kind)
    OBVIOUS
<1>2. PICK n : n = Len(Kind) /\ n \in Nat /\ Stages = 1..n
    BY StagesAreNumbered
<1>3. /\ o \in Seq(Nat) /\ Len(o) = n
      /\ {o[p] : p \in 1..n} = 1..n
      /\ \A p, q \in 1..n : p < q => CleanedBefore(Kind, o[p], o[q])
  <2>1. PICK k : k = Kind
      OBVIOUS
  <2>2. k \in Seq(Kinds) /\ o = pipelineCleanupOrder(k)
      BY <1>1, <2>1, PipelineAssumption
  <2>3. PICK m : m = Len(o)
      OBVIOUS
  <2>4. /\ o \in Seq(Nat) /\ m = Len(k)
        /\ {o[p] : p \in 1..m} = 1..Len(k)
        /\ \A p, q \in 1..m : p < q => CleanedBefore(k, o[p], o[q])
      BY <2>2, <2>3, CleanupOrderIsRight
  <2>5. m = n
      BY <1>2, <2>1, <2>4
  <2> QED
      BY <2>1, <2>3, <2>4, <2>5, Zenon
<1>4. DOMAIN o = 1..n
    BY <1>3
<1> DEFINE open == {p \in 1..n : o[p] \in t.left}
<1>5. PICK p \in open : \A q \in open : p <= q
  <2>1. PICK i : i \in t.left
      OBVIOUS
  <2>2. PICK p \in 1..n : o[p] = i
      BY <1>2, <1>3, <2>1
  <2>3. p \in open
      BY <2>1, <2>2
  <2>4. open \in SUBSET Nat
      BY <1>2
  <2> QED
      BY <2>3, <2>4, LeastOf
<1>6. PICK P : P = CHOOSE k \in DOMAIN o : o[k] \in t.left /\ \A q \in 1..(k - 1) : o[q] \notin t.left
    OBVIOUS
<1>7. P \in 1..n /\ o[P] \in t.left /\ \A q \in 1..(P - 1) : o[q] \notin t.left
  <2>1. p \in 1..n /\ o[p] \in t.left
      BY <1>5
  <2>2. ASSUME NEW q \in 1..(p - 1) PROVE o[q] \notin t.left
    <3>1. q \in 1..n /\ ~(p <= q)
        BY <1>2, <2>1
    <3> QED
        BY <1>5, <3>1
  <2> QED
      BY <1>4, <1>6, <2>1, <2>2
<1>8. NextCleanup(t) = o[P]
    BY <1>1, <1>6 DEF NextCleanup
<1>9. ASSUME NEW j \in Stages, CleanedBefore(Kind, j, o[P]) PROVE j \notin t.left
  <2>1. PICK q \in 1..n : o[q] = j
      BY <1>2, <1>3
  <2>2. o[P] \in 1..n /\ j \in 1..n
      BY <1>2, <1>7
  <2>3. ~CleanedBefore(Kind, o[P], j)
      BY <1>2, <1>9, <2>2, RuleIsStrict, PipelineAssumption
  <2>4. q # P
      BY <1>2, <1>9, <2>1, <2>2, RuleIsStrict, PipelineAssumption
  <2>5. ~(P < q)
      BY <1>3, <1>7, <2>1, <2>3
  <2>6. q \in 1..(P - 1)
      BY <1>2, <1>7, <2>4, <2>5
  <2> QED
      BY <1>7, <2>1, <2>6
<1> QED
    BY <1>7, <1>8, <1>9
-----------------------------------------------------------------------------
(* The local control flow: a tick enters the cleanup with its copy of the  *)
(* cleanup rows, leaving out only what that copy says is complete.         *)

SameRows(u, t) == u.cleanup = t.cleanup /\ u.attempt = t.attempt

(* The tick t goes on to somewhere; the stages S are out of its way. *)
Enters(c, t, S) ==
    \E to, u :
        /\ Go(c, to, u)
        /\ \/ to \in {"idle", "read", "release"} /\ u = NoTick
           \/ /\ SameRows(u, t) /\ to # "clean sync"
              /\ to = "clean" =>
                    u.left # {} /\ \A i \in Stages \ u.left : i \in S \/ t.cleanup[i] \in CleanupComplete
              /\ to \in Rechecking => \A i \in u.left : t.cleanup[i] = "failed"

(* The tick goes to a step that is not of the cleanup. *)
LEMMA EntersElsewhere ==
    ASSUME NEW c, NEW t, NEW S, NEW to, NEW u, Go(c, to, u), SameRows(u, t),
           to \notin {"clean", "clean sync"} \union Rechecking
    PROVE  Enters(c, t, S)
BY DEF Enters

(* It is the copy of the rows that counts. *)
LEMMA EntersLike ==
    ASSUME NEW c, NEW t, NEW u, NEW S, Enters(c, u, S), SameRows(u, t)
    PROVE  Enters(c, t, S)
BY DEF Enters, SameRows

(* The tick is given up. *)
LEMMA EntersRelease ==
    ASSUME NEW c, NEW t, NEW S, Release(c) \/ Stop(c)
    PROVE  Enters(c, t, S)
BY DEF Enters, Release, Stop

(* The walk over the failed cleanups, *)
LEMMA RecheckNextEnters ==
    ASSUME NEW c, NEW t, NEW S, RecheckNext(c, t), \A i \in t.left : t.cleanup[i] = "failed"
    PROVE  Enters(c, t, S)
<1>1. PICK to \in {"recheck", "complete", "fail"} : Go(c, to, t)
    BY DEF RecheckNext
<1> QED
    BY <1>1 DEF Enters, SameRows

(* the walk over the cleanups, *)
LEMMA CleanupNextEnters ==
    ASSUME NEW c, NEW t \in Ticks, CleanupNext(c, t)
    PROVE  Enters(c, t, Stages \ t.left)
<1> DEFINE open == {i \in t.left : t.cleanup[i] \notin CleanupComplete}
           failed == {i \in Stages : t.cleanup[i] = "failed" /\ Kind[i] = "deploy"}
<1>1. CASE open # {}
  <2>1. PICK u : u = [t EXCEPT !.left = open]
      OBVIOUS
  <2>2. Go(c, "clean", u) /\ SameRows(u, t) /\ u.left = open
      BY <1>1, <2>1 DEF CleanupNext, SameRows, Ticks
  <2>3. \A i \in Stages \ open : i \in Stages \ t.left \/ t.cleanup[i] \in CleanupComplete
      OBVIOUS
  <2> HIDE DEF open
  <2>4. u.left # {} /\ \A i \in Stages \ u.left : i \in Stages \ t.left \/ t.cleanup[i] \in CleanupComplete
      BY <1>1, <2>2, <2>3
  <2>5. "clean" \notin Rechecking /\ "clean" # "clean sync"
      BY DEF Rechecking
  <2> QED
      BY <2>2, <2>4, <2>5 DEF Enters
<1>2. CASE open = {}
  <2>1. PICK u : u = [t EXCEPT !.left = failed]
      OBVIOUS
  <2>2. RecheckNext(c, u) /\ SameRows(u, t) /\ u.left = failed
      BY <1>2, <2>1 DEF CleanupNext, SameRows, Ticks
  <2>3. Enters(c, u, Stages \ t.left)
      BY <2>2, RecheckNextEnters DEF SameRows
  <2> QED
      BY <2>2, <2>3, EntersLike
<1> QED
    BY <1>1, <1>2

(* and a walk over all of them. *)
LEMMA CleanupStarts ==
    ASSUME NEW c, NEW t, NEW u \in Ticks, CleanupNext(c, u), u.left = Stages, SameRows(u, t)
    PROVE  Enters(c, t, {})
<1>1. Stages \ u.left = {}
    OBVIOUS
<1>2. Enters(c, u, {})
    BY <1>1, CleanupNextEnters
<1> QED
    BY <1>2, EntersLike

(* The drain. *)
LEMMA DrainNextEnters ==
    ASSUME NEW c, NEW t \in Ticks, DrainNext(c, t)
    PROVE  Enters(c, t, {})
<1>0. SameRows(t, t)
    BY DEF SameRows
<1>1. CASE t.left # {}
  <2>1. Go(c, "stop get", t)
      BY <1>1 DEF DrainNext
  <2> QED
      BY <1>0, <2>1, EntersElsewhere DEF Rechecking
<1>2. CASE t.left = {}
  <2>1. AfterDrain(c, t)
      BY <1>2 DEF DrainNext
  <2>2. CASE \E to \in {"fail", "begin"} : Go(c, to, t)
      BY <1>0, <2>2, EntersElsewhere DEF Rechecking
  <2>3. CASE Release(c)
      BY <2>3, EntersRelease
  <2>4. CASE CleanupNext(c, [t EXCEPT !.left = Stages])
    <3>1. PICK u : u = [t EXCEPT !.left = Stages]
        OBVIOUS
    <3>2. u \in Ticks /\ u.left = Stages /\ SameRows(u, t)
        BY <3>1 DEF Ticks, SameRows
    <3> QED
        BY <2>4, <3>1, <3>2, CleanupStarts
  <2>5. CASE Go(c, "stop get", [t EXCEPT !.left = t.started, !.stopped = TRUE, !.then = "begin"])
    <3>1. PICK u : u = [t EXCEPT !.left = t.started, !.stopped = TRUE, !.then = "begin"]
        OBVIOUS
    <3>2. SameRows(u, t)
        BY <3>1 DEF Ticks, SameRows
    <3>3. Go(c, "stop get", u)
        BY <2>5, <3>1
    <3>4. "stop get" \notin {"clean", "clean sync"} \union Rechecking
        BY DEF Rechecking
    <3> QED
        BY <3>2, <3>3, <3>4, EntersElsewhere
  <2> QED
      BY <2>1, <2>2, <2>3, <2>4, <2>5 DEF AfterDrain
<1> QED
    BY <1>1, <1>2

(* The beginning of a drain, *)
LEMMA DrainEnters ==
    ASSUME NEW c, NEW t \in Ticks, NEW then \in {"terminal", "sequential", "begin"}, Drain(c, t, then)
    PROVE  Enters(c, t, {})
<1>1. PICK u : u = [t EXCEPT !.left = t.started, !.stopped = TRUE, !.then = then]
    OBVIOUS
<1>2. DrainNext(c, u) /\ u \in Ticks /\ SameRows(u, t)
    BY <1>1 DEF Drain, Ticks, SameRows
<1> QED
    BY <1>2, DrainNextEnters, EntersLike

(* of one after which the run ends or goes on ending, *)
LEMMA DeferDrainEnters ==
    ASSUME NEW c, NEW t \in Ticks, DeferDrain(c, t)
    PROVE  Enters(c, t, {})
<1>1. PICK then \in {"sequential", "begin"} : Drain(c, t, then)
    BY DEF DeferDrain
<1> QED
    BY <1>1, DrainEnters

(* a termination, *)
LEMMA DeferTerminationEnters ==
    ASSUME NEW c, NEW t \in Ticks, NEW position \in Stages \union {0}, NEW outcome \in {"failed", "canceled"},
           DeferTermination(c, t, position, outcome)
    PROVE  Enters(c, t, {})
<1>1. PICK u : u = [t EXCEPT !.position = position, !.outcome = outcome]
    OBVIOUS
<1>2. u \in Ticks /\ SameRows(u, t) /\ (Go(c, "fail stage", u) \/ DeferDrain(c, u))
    BY <1>1 DEF DeferTermination, Ticks, SameRows
<1> QED
    BY <1>2, DeferDrainEnters, EntersLike, EntersElsewhere DEF Rechecking

(* the end of a tick that has started what it could, *)
LEMMA ConcludeEnters ==
    ASSUME NEW c, NEW t \in Ticks, Conclude(c, t)
    PROVE  Enters(c, t, {})
<1>0. SameRows(t, t) /\ Len(Kind) \in Stages \union {0}
    BY LastIsStage DEF SameRows
<1>1. CASE Release(c)
    BY <1>1, EntersRelease
<1>2. CASE Go(c, "complete", t)
    BY <1>0, <1>2, EntersElsewhere DEF Rechecking
<1>3. CASE DeferTermination(c, t, Len(Kind), "failed")
    BY <1>0, <1>3, DeferTerminationEnters
<1>4. CASE CleanupNext(c, [t EXCEPT !.left = Stages, !.then = "complete", !.outcome = "failed"])
  <2>1. PICK u : u = [t EXCEPT !.left = Stages, !.then = "complete", !.outcome = "failed"]
      OBVIOUS
  <2>2. u \in Ticks /\ u.left = Stages /\ SameRows(u, t)
      BY <2>1 DEF Ticks, SameRows
  <2> QED
      BY <1>4, <2>1, <2>2, CleanupStarts
<1> QED
    BY <1>1, <1>2, <1>3, <1>4 DEF Conclude

(* the walk over the stages to start, *)
LEMMA StartNextEnters ==
    ASSUME NEW c, NEW t \in Ticks, StartNext(c, t)
    PROVE  Enters(c, t, {})
<1>1. CASE t.left # {}
    BY <1>1, EntersElsewhere DEF StartNext, SameRows, Rechecking
<1>2. CASE t.left = {}
    BY <1>2, ConcludeEnters DEF StartNext
<1> QED
    BY <1>1, <1>2

(* and the walk over the stages to sync. *)
LEMMA SyncNextEnters ==
    ASSUME NEW c, NEW t \in Ticks, SyncNext(c, t)
    PROVE  Enters(c, t, {})
<1>0. SameRows(t, t)
    BY DEF SameRows
<1>1. CASE t.left # {}
    BY <1>0, <1>1, EntersElsewhere DEF SyncNext, Rechecking
<1>2. CASE t.left = {}
  <2>1. Decide(c, t)
      BY <1>2 DEF SyncNext
  <2>2. PICK ready : ready = readyPipelineStages(DependsOn, MaxParallelStages, t.stage, t.started)
      OBVIOUS
  <2>3. ready \subseteq Stages
    <3>1. t.stage \in [Stages -> (OpStatuses \ {"none"}) \union {"pending"}] /\ t.started \in SUBSET Stages
        BY DEF Ticks
    <3> QED
        BY <2>2, <3>1, ReadyFits
  <2>4. \/ DeferTermination(c, t, 0, "canceled")
        \/ \E S \in SUBSET Stages : StartNext(c, [t EXCEPT !.left = S])
        \/ Release(c)
        \/ Go(c, "initialize", t)
    <3>1. {i \in ready : i < Gate} \in SUBSET Stages
        BY <2>3
    <3> QED
        BY <2>1, <2>2, <2>3, <3>1 DEF Decide
  <2>5. ASSUME NEW S \in SUBSET Stages, StartNext(c, [t EXCEPT !.left = S]) PROVE Enters(c, t, {})
    <3>1. PICK u : u = [t EXCEPT !.left = S]
        OBVIOUS
    <3>2. u \in Ticks /\ SameRows(u, t)
        BY <3>1 DEF Ticks, SameRows
    <3> QED
        BY <2>5, <3>1, <3>2, StartNextEnters, EntersLike
  <2>6. CASE DeferTermination(c, t, 0, "canceled")
      BY <2>6, DeferTerminationEnters
  <2>7. CASE Go(c, "initialize", t)
      BY <1>0, <2>7, EntersElsewhere DEF Rechecking
  <2> QED
      BY <2>4, <2>5, <2>6, <2>7, EntersRelease
<1> QED
    BY <1>1, <1>2
-----------------------------------------------------------------------------
(* What a step leaves true of the cleanups.                                *)

(* What the coordinator of the lease has in its copy. *)
Known(row, created, u) == \A i \in Stages : u.attempt[i] = created[i] /\ (u.cleanup[i] = "skipped" => row[i] = "skipped")

(* A tick goes where what it recalls of the cleanups is right, and all of  *)
(* it when the run is its own.                                             *)
Recalled(c, row, created, latest, op, owned) ==
    \E to, u : /\ Go(c, to, u)
               /\ Tidy(latest, op, to, u)
               /\ owned /\ to \in Working => Orderly(row, created, op, to, u)

(* A tick that has let go of everything recalls nothing. *)
LEMMA NoTickIsTidy ==
    ASSUME NEW latest, NEW op, NEW to \in {"idle", "read", "release"}
    PROVE  Tidy(latest, op, to, NoTick) /\ to \notin Working
BY DEF Tidy, Recalls, NoTick, Rechecking, Working, Terminal

(* What the copy leaves out is done with. *)
LEMMA EntersRight ==
    ASSUME NEW c, NEW t, NEW S, Enters(c, t, S), NEW row, NEW created, NEW latest, NEW op,
           \A i \in Stages : created[i] \in {0, latest[i]},
           Recalls(latest, op, t), NEW owned \in BOOLEAN,
           owned => Known(row, created, t) /\ \A i \in S \intersect Stages : Clean(row, created, op, i)
    PROVE  Recalled(c, row, created, latest, op, owned)
<1>1. PICK to, u :
        /\ Go(c, to, u)
        /\ \/ to \in {"idle", "read", "release"} /\ u = NoTick
           \/ /\ SameRows(u, t) /\ to # "clean sync"
              /\ to = "clean" =>
                    u.left # {} /\ \A i \in Stages \ u.left : i \in S \/ t.cleanup[i] \in CleanupComplete
              /\ to \in Rechecking => \A i \in u.left : t.cleanup[i] = "failed"
    BY DEF Enters
<1>2. CASE to \in {"idle", "read", "release"} /\ u = NoTick
    BY <1>1, <1>2, NoTickIsTidy DEF Recalled
<1>3. CASE ~(to \in {"idle", "read", "release"} /\ u = NoTick)
  <2>1. Recalls(latest, op, u) /\ u.cleanup = t.cleanup /\ u.attempt = t.attempt
      BY <1>1, <1>3 DEF SameRows, Recalls
  <2>2. Tidy(latest, op, to, u)
      BY <1>1, <1>3, <2>1 DEF Tidy
  <2>3. ASSUME owned PROVE Orderly(row, created, op, to, u)
    <3>1. Known(row, created, t)
        BY <2>3
    <3>2. \A i \in Stages : u.attempt[i] = created[i] /\ (u.cleanup[i] = "skipped" => row[i] = "skipped")
        BY <2>1, <3>1 DEF Known
    <3>3. ASSUME to = "clean", NEW i \in Stages \ u.left PROVE Clean(row, created, op, i)
      <4>1. CASE i \in S
          BY <2>3, <4>1
      <4>2. CASE t.cleanup[i] = "skipped"
          BY <3>1, <4>2 DEF Clean, Known
      <4>3. CASE t.cleanup[i] \in Terminal
        <5>1. t.attempt[i] # 0
            BY <4>3 DEF Recalls, Terminal
        <5>2. created[i] # 0 /\ t.attempt[i] = latest[i]
            BY <3>1, <5>1 DEF Known
        <5> QED
            BY <4>3, <5>2 DEF Clean, Recalls
      <4> QED
          BY <1>1, <1>3, <3>3, <4>1, <4>2, <4>3 DEF CleanupComplete
    <3> QED
        BY <1>1, <1>3, <3>2, <3>3 DEF Orderly
  <2> QED
      BY <1>1, <2>2, <2>3 DEF Recalled
<1> QED
    BY <1>2, <1>3

(* Attempts only follow one another, and one that has settled stays so. *)
Later ==
    \A i \in Stages : /\ attempts[i] \in Nat /\ attempts'[i] \in Nat /\ attempts[i] <= attempts'[i]
                      /\ attempts'[i] = attempts[i] /\ CleanupVerdict[i] \in Terminal => CleanupVerdict'[i] \in Terminal

(* Nothing is taken back from the coordinator of the lease. *)
Kept ==
    \A i \in Stages : /\ cleanup_operation'[i] = cleanup_operation[i]
                      /\ cleanup_status[i] = "skipped" => cleanup_status'[i] = "skipped"
                      /\ CleanupVerdict[i] \in Terminal => CleanupVerdict'[i] \in Terminal

(* A copy that names the latest attempt after the step named it before. *)
LEMMA LatestStays ==
    ASSUME TypeOK, NEW d \in Coordinators, Grown(d), Later
    PROVE  \A i \in Stages : tick[d].attempt[i] = attempts'[i] =>
               tick[d].attempt[i] = attempts[i] /\ attempts'[i] = attempts[i]
<1>0. \A i \in Stages : tick[d].attempt[i] \in Nat
  <2>1. tick[d].attempt \in [Stages -> 0..(MaxRetries + 1)]
      BY DEF TypeOK, Ticks
  <2> QED
      BY <2>1, PipelineAssumption
<1> SUFFICES ASSUME NEW i \in Stages, tick[d].attempt[i] = attempts'[i]
             PROVE  tick[d].attempt[i] = attempts[i] /\ attempts'[i] = attempts[i]
    OBVIOUS
<1>1. PICK x, y, z : x = tick[d].attempt[i] /\ y = attempts[i] /\ z = attempts'[i]
    OBVIOUS
<1>2. x \in Nat /\ y \in Nat /\ z \in Nat /\ y <= z /\ x <= y /\ x = z
    BY <1>0, <1>1 DEF Later, Grown
<1>3. x = y
    BY <1>2
<1> QED
    BY <1>1, <1>3

(* What is recalled of an attempt stays true. *)
LEMMA TidyStays ==
    ASSUME Later, NEW to, NEW u, to \in {"clean", "clean sync"} => NextCleanup(u) \in Stages,
           \A i \in Stages : u.attempt[i] = attempts'[i] => u.attempt[i] = attempts[i] /\ attempts'[i] = attempts[i],
           Tidy(attempts, CleanupVerdict, to, u)
    PROVE  Tidy(attempts', CleanupVerdict', to, u)
<1>1. ASSUME NEW i \in Stages, u.attempt[i] = attempts'[i]
      PROVE  u.attempt[i] = attempts[i] /\ attempts'[i] = attempts[i]
    BY <1>1
<1>2. ASSUME NEW i \in Stages, u.attempt[i] = attempts'[i], CleanupVerdict[i] \in Terminal
      PROVE  CleanupVerdict'[i] \in Terminal
    BY <1>1, <1>2 DEF Later
<1>3. Recalls(attempts', CleanupVerdict', u)
    BY <1>1, <1>2 DEF Tidy, Recalls
<1> QED
    BY <1>1, <1>2, <1>3 DEF Tidy

(* What the coordinator of the lease knows stays true. *)
LEMMA OrderlyStays ==
    ASSUME Kept, NEW to, NEW u, Orderly(cleanup_status, cleanup_operation, CleanupVerdict, to, u)
    PROVE  Orderly(cleanup_status', cleanup_operation', CleanupVerdict', to, u)
BY DEF Kept, Orderly, Clean

(* The cleanup that a tick turns to is one of the stages. *)
LEMMA CleansStage ==
    ASSUME IndInv, CleanInv, NEW c \in Coordinators, pc[c] \in {"clean", "clean sync"}
    PROVE  /\ tick[c].left \subseteq Stages /\ tick[c].left # {} /\ NextCleanup(tick[c]) \in tick[c].left
           /\ \A j \in Stages : CleanedBefore(Kind, j, NextCleanup(tick[c])) => j \notin tick[c].left
<1>1. tick[c].left \subseteq Stages
    BY DEF IndInv, TypeOK, Ticks
<1>2. tick[c].left # {}
    BY DEF CleanInv, Tidy
<1> QED
    BY <1>1, <1>2, NextCleanupIsFirst

(* A coordinator that stands aside. *)
LEMMA CleanStays ==
    ASSUME IndInv, CleanInv, Later, NEW d \in Coordinators, pc'[d] = pc[d], tick'[d] = tick[d],
           lease_owner' = d => lease_owner = d /\ Kept
    PROVE  /\ Tidy(attempts', CleanupVerdict', pc'[d], tick'[d])
           /\ lease_owner' = d /\ pc'[d] \in Working =>
                 Orderly(cleanup_status', cleanup_operation', CleanupVerdict', pc'[d], tick'[d])
<1>1. /\ \A i \in Stages : tick[d].attempt[i] = attempts'[i] =>
                                 tick[d].attempt[i] = attempts[i] /\ attempts'[i] = attempts[i]
      /\ Tidy(attempts, CleanupVerdict, pc[d], tick[d])
    BY LatestStays DEF IndInv, Informed, CleanInv
<1>2. pc[d] \in {"clean", "clean sync"} => NextCleanup(tick[d]) \in Stages
    BY CleansStage
<1>3. Tidy(attempts', CleanupVerdict', pc[d], tick[d])
    BY <1>1, <1>2, TidyStays
<1>4. ASSUME lease_owner' = d, pc[d] \in Working
      PROVE  Orderly(cleanup_status', cleanup_operation', CleanupVerdict', pc[d], tick[d])
    BY <1>4, OrderlyStays DEF CleanInv
<1> QED
    BY <1>3, <1>4

(* The step of one coordinator. *)
LEMMA CleanTick ==
    ASSUME IndInv, CleanInv, Later, CleanupRows', CleanupLapsed', NEW c \in Coordinators,
           \A d \in Coordinators \ {c} : lease_owner' = d => lease_owner = d /\ Kept,
           NEW owned, owned = (lease_owner' = c),
           Recalled(c, cleanup_status', cleanup_operation', attempts', CleanupVerdict', owned)
    PROVE  CleanInv'
<1>1. PICK to, u : /\ Go(c, to, u)
                   /\ Tidy(attempts', CleanupVerdict', to, u)
                   /\ owned /\ to \in Working => Orderly(cleanup_status', cleanup_operation', CleanupVerdict', to, u)
    BY DEF Recalled
<1>2. /\ pc'[c] = to /\ tick'[c] = u
      /\ \A d \in Coordinators \ {c} : pc'[d] = pc[d] /\ tick'[d] = tick[d]
    BY <1>1 DEF Go, IndInv, TypeOK
<1>3. ASSUME NEW d \in Coordinators
      PROVE  /\ Tidy(attempts', CleanupVerdict', pc'[d], tick'[d])
             /\ lease_owner' = d /\ pc'[d] \in Working =>
                   Orderly(cleanup_status', cleanup_operation', CleanupVerdict', pc'[d], tick'[d])
  <2>1. CASE d = c
      BY <1>1, <1>2, <2>1
  <2>2. CASE d # c
      BY <1>2, <2>2, CleanStays
  <2> QED
      BY <2>1, <2>2
<1> QED
    BY <1>3 DEF CleanInv

(* The step of somebody who is no coordinator. *)
LEMMA CleanOutside ==
    ASSUME IndInv, CleanInv, Later, CleanupRows', CleanupLapsed', UNCHANGED <<pc, tick>>,
           \A d \in Coordinators : lease_owner' = d => lease_owner = d /\ Kept
    PROVE  CleanInv'
BY CleanStays DEF CleanInv
-----------------------------------------------------------------------------
(* The steps that leave the cleanups alone.                                *)

Untouched == UNCHANGED <<cleanup_status, cleanup_operation>> /\ CleanupsStand

(* Nothing changes for the cleanups. *)
LEMMA UntouchedKeeps ==
    ASSUME IndInv, CleanInv, Untouched
    PROVE  Later /\ Kept /\ CleanupRows' /\ CleanupLapsed'
<1>0. UNCHANGED <<cleanup_status, cleanup_operation, attempts>> /\ CleanupVerdict' = CleanupVerdict /\ CleanupLapsed'
    BY CleanupVerdictStands DEF Untouched, CleanInv
<1>1. Later
    BY <1>0, AttemptsAreNumbers DEF Later, IndInv
<1>2. Kept
    BY <1>0 DEF Kept
<1>3. CleanupRows'
    BY <1>0 DEF CleanInv, CleanupRows, Clean
<1> QED
    BY <1>0, <1>1, <1>2, <1>3

(* The tick t of a coordinator goes on. *)
LEMMA PlainTick ==
    ASSUME IndInv, CleanInv, NEW c \in Coordinators, NEW t, Enters(c, t, {}), Untouched,
           Recalls(attempts, CleanupVerdict, t), lease_owner = c => Known(cleanup_status, cleanup_operation, t),
           lease_owner' \in {lease_owner, NoCoordinator}
    PROVE  CleanInv'
<1>1. Later /\ Kept /\ CleanupRows' /\ CleanupLapsed'
    BY UntouchedKeeps
<1>2. \A d \in Coordinators : lease_owner' = d => lease_owner = d
    BY PipelineAssumption
<1>3. PICK owned \in BOOLEAN : owned = (lease_owner' = c)
    OBVIOUS
<1>4. \A i \in Stages : cleanup_operation[i] \in {0, attempts[i]}
    BY DEF CleanInv, CleanupRows
<1>5. Recalled(c, cleanup_status, cleanup_operation, attempts, CleanupVerdict, owned)
  <2>1. /\ owned => Known(cleanup_status, cleanup_operation, t)
        /\ \A i \in {} \intersect Stages : Clean(cleanup_status, cleanup_operation, CleanupVerdict, i)
      BY <1>2, <1>3
  <2> QED
      BY <1>4, <2>1, EntersRight
<1>6. Recalled(c, cleanup_status', cleanup_operation', attempts', CleanupVerdict', owned)
    BY <1>5, CleanupVerdictStands DEF Untouched
<1> QED
    BY <1>1, <1>2, <1>3, <1>6, CleanTick

(* What a working coordinator recalls. *)
LEMMA WorkingRecalls ==
    ASSUME IndInv, CleanInv, NEW c \in Coordinators, pc[c] \in Working
    PROVE  /\ tick[c] \in Ticks /\ Recalls(attempts, CleanupVerdict, tick[c])
           /\ lease_owner = c => Known(cleanup_status, cleanup_operation, tick[c])
BY DEF IndInv, TypeOK, CleanInv, Tidy, Orderly, Known

(* A tick that ends or begins. *)
LEMMA LeavesTidy ==
    ASSUME IndInv, CleanInv, NEW c \in Coordinators, Untouched, NEW to \in {"idle", "read", "release"},
           Go(c, to, NoTick), lease_owner' \in {lease_owner, NoCoordinator, c}
    PROVE  CleanInv'
<1>1. Later /\ Kept /\ CleanupRows' /\ CleanupLapsed'
    BY UntouchedKeeps
<1>2. \A d \in Coordinators \ {c} : lease_owner' = d => lease_owner = d
    BY PipelineAssumption
<1>3. PICK owned \in BOOLEAN : owned = (lease_owner' = c)
    OBVIOUS
<1>4. Recalled(c, cleanup_status', cleanup_operation', attempts', CleanupVerdict', owned)
    BY NoTickIsTidy DEF Recalled
<1> QED
    BY <1>1, <1>2, <1>3, <1>4, CleanTick

(* The steps that are not of the cleanup. *)
Plain(c) ==
    \/ SyncGet(c) \/ SyncSet(c) \/ MarkPipelineInitialized(c) \/ startPipelineStage(c)
    \/ FailPipelineRunStage(c) \/ StopGet(c) \/ StopSync(c) \/ StopCancel(c)
    \/ BeginPipelineRunTermination(c) \/ FailPipelineRun(c) \/ CompletePipelineRun(c)
    \/ CleanupBreaks(c) \/ NotRecovered(c) \/ RecheckHealthy(c) \/ RecheckRenew(c)

(* They are steps of a tick, and change no cleanup. *)
LEMMA PlainLeavesAlone ==
    ASSUME NEW c \in Coordinators, Plain(c)
    PROVE  pc[c] \in Working /\ Untouched /\ lease_owner' \in {lease_owner, NoCoordinator}
<1> USE DEF Untouched, CleanupsStand, ops, swept, rows, lease, Working, PCs
<1>1. CASE SyncGet(c) \/ SyncSet(c) \/ MarkPipelineInitialized(c) \/ startPipelineStage(c)
    BY <1>1 DEF SyncGet, SyncSet, MarkPipelineInitialized, startPipelineStage
<1>2. CASE FailPipelineRunStage(c) \/ StopGet(c) \/ StopSync(c) \/ StopCancel(c)
    BY <1>2 DEF FailPipelineRunStage, StopGet, StopSync, StopCancel
<1>3. CASE BeginPipelineRunTermination(c) \/ FailPipelineRun(c) \/ CompletePipelineRun(c)
    BY <1>3 DEF BeginPipelineRunTermination, FailPipelineRun, CompletePipelineRun
<1>4. CASE CleanupBreaks(c) \/ NotRecovered(c) \/ RecheckHealthy(c) \/ RecheckRenew(c)
    BY <1>4 DEF CleanupBreaks, NotRecovered, RecheckHealthy, RecheckRenew
<1> QED
    BY <1>1, <1>2, <1>3, <1>4 DEF Plain

(* They go on with the same copy of the cleanups: the sync loop, *)
LEMMA SyncEnters ==
    ASSUME IndInv, NEW c \in Coordinators, pc[c] \in Working, SyncGet(c) \/ SyncSet(c)
    PROVE  Enters(c, tick[c], {})
<1>1. PICK t : t = tick[c]
    OBVIOUS
<1>2. t \in Ticks /\ Local(Verdict, pc[c], t)
    BY <1>1, WorkingKnows
<1>3. Current(t) \in Stages /\ Visited(t) \in Ticks /\ Visited(t) = [t EXCEPT !.left = t.left \ {Current(t)}]
  <2>1. t.left # {}
      BY <1>1, <1>2 DEF Local, SyncGet, SyncSet
  <2> QED
      BY <1>2, <2>1, VisitedIsTick
<1>4. CASE Go(c, "sync set", [t EXCEPT !.seen = operation[Current(t)]])
  <2>1. PICK u : u = [t EXCEPT !.seen = operation[Current(t)]]
      OBVIOUS
  <2>2. SameRows(u, t) /\ Go(c, "sync set", u)
      BY <1>2, <1>4, <2>1 DEF Ticks, SameRows
  <2> QED
      BY <1>1, <2>2, EntersElsewhere DEF Rechecking
<1>5. CASE DeferTermination(c, t, Current(t), "failed")
    BY <1>1, <1>2, <1>3, <1>5, DeferTerminationEnters
<1>6. CASE SyncSet(c)
  <2>1. PICK u : u = [Visited(t) EXCEPT !.stage[Current(t)] = t.seen, !.seen = "none"]
      OBVIOUS
  <2>2. t.seen \in OpStatuses \ {"none"}
      BY <1>1, <1>2, <1>6 DEF Local, SyncSet, Ticks
  <2>3. u \in Ticks /\ SameRows(u, t)
      BY <1>2, <1>3, <2>1, <2>2 DEF Ticks, SameRows, OpStatuses
  <2>4. (DeferTermination(c, u, Current(t), t.seen) /\ t.seen \in {"failed", "canceled"}) \/ SyncNext(c, u)
      BY <1>1, <1>6, <2>1 DEF SyncSet
  <2> QED
      BY <1>1, <1>3, <2>3, <2>4, DeferTerminationEnters, SyncNextEnters, EntersLike
<1> QED
    BY <1>1, <1>4, <1>5, <1>6 DEF SyncGet

(* the start of a stage, *)
LEMMA StartEnters ==
    ASSUME IndInv, NEW c \in Coordinators, pc[c] \in Working, startPipelineStage(c)
    PROVE  Enters(c, tick[c], {})
<1>1. PICK t : t = tick[c]
    OBVIOUS
<1>2. t \in Ticks /\ Local(Verdict, pc[c], t)
    BY <1>1, WorkingKnows
<1>3. Current(t) \in Stages /\ Visited(t) \in Ticks /\ Visited(t) = [t EXCEPT !.left = t.left \ {Current(t)}]
  <2>1. t.left # {}
      BY <1>1, <1>2 DEF Local, startPipelineStage
  <2> QED
      BY <1>2, <2>1, VisitedIsTick
<1>4. CASE DeferTermination(c, t, Current(t), "failed")
    BY <1>1, <1>2, <1>3, <1>4, DeferTerminationEnters
<1>5. PICK u : u = [Visited(t) EXCEPT !.stage[Current(t)] = "queued", !.started = @ \union {Current(t)}]
    OBVIOUS
<1>6. CASE StartNext(c, u)
  <2>1. u \in Ticks /\ SameRows(u, t)
      BY <1>2, <1>3, <1>5, ZenonT(30) DEF Ticks, SameRows, OpStatuses
  <2> QED
      BY <1>1, <1>6, <2>1, StartNextEnters, EntersLike
<1> QED
    BY <1>1, <1>4, <1>5, <1>6 DEF startPipelineStage

(* the drain, *)
LEMMA StopEnters ==
    ASSUME IndInv, NEW c \in Coordinators, pc[c] \in Working,
           FailPipelineRunStage(c) \/ StopGet(c) \/ StopSync(c) \/ StopCancel(c)
    PROVE  Enters(c, tick[c], {})
<1>1. PICK t : t = tick[c]
    OBVIOUS
<1>2. t \in Ticks /\ Local(Verdict, pc[c], t)
    BY <1>1, WorkingKnows
<1>3. CASE FailPipelineRunStage(c)
    BY <1>1, <1>2, <1>3, DeferDrainEnters DEF FailPipelineRunStage
<1>4. CASE StopGet(c)
  <2>1. PICK u : u = [t EXCEPT !.seen = operation[Current(t)]]
      OBVIOUS
  <2>2. SameRows(u, t) /\ Go(c, "stop sync", u)
      BY <1>1, <1>2, <1>4, <2>1 DEF Ticks, SameRows, StopGet
  <2> QED
      BY <1>1, <2>2, EntersElsewhere DEF Rechecking
<1>5. CASE StopSync(c) \/ StopCancel(c)
  <2>1. Visited(t) \in Ticks /\ Visited(t) = [t EXCEPT !.left = t.left \ {Current(t)}]
    <3>1. t.left # {}
        BY <1>1, <1>2, <1>5 DEF Local, Stopping, StopSync, StopCancel
    <3> QED
        BY <1>2, <3>1, VisitedIsTick
  <2>2. PICK u : u = [Visited(t) EXCEPT !.seen = "none"]
      OBVIOUS
  <2>3. PICK v : v = [t EXCEPT !.seen = "none", !.stopped = FALSE]
      OBVIOUS
  <2>4. u \in Ticks /\ SameRows(u, t) /\ SameRows(v, t) /\ SameRows(Visited(t), t)
      BY <1>2, <2>1, <2>2, <2>3 DEF Ticks, SameRows, OpStatuses
  <2>5. DrainNext(c, u) \/ Go(c, "stop cancel", v) \/ DrainNext(c, Visited(t))
      BY <1>1, <1>5, <2>2, <2>3 DEF StopSync, StopCancel
  <2>6. "stop cancel" \notin {"clean", "clean sync"} \union Rechecking
      BY DEF Rechecking
  <2> QED
      BY <1>1, <2>1, <2>4, <2>5, <2>6, DrainNextEnters, EntersLike, EntersElsewhere
<1> QED
    BY <1>3, <1>4, <1>5

(* the end of the run, *)
LEMMA EndEnters ==
    ASSUME NEW c \in Coordinators,
           \/ MarkPipelineInitialized(c) \/ BeginPipelineRunTermination(c)
           \/ FailPipelineRun(c) \/ CompletePipelineRun(c)
    PROVE  Enters(c, tick[c], {})
<1>1. Release(c) \/ Stop(c)
    BY DEF MarkPipelineInitialized, BeginPipelineRunTermination, FailPipelineRun, CompletePipelineRun
<1> QED
    BY <1>1, EntersRelease

(* and the end of the cleanup with its rechecks. *)
LEMMA RecheckEnters ==
    ASSUME IndInv, CleanInv, NEW c \in Coordinators, pc[c] \in Working,
           CleanupBreaks(c) \/ NotRecovered(c) \/ RecheckHealthy(c) \/ RecheckRenew(c)
    PROVE  Enters(c, tick[c], {})
<1>1. PICK t : t = tick[c]
    OBVIOUS
<1>2. t \in Ticks /\ Local(Verdict, pc[c], t) /\ SameRows(t, t)
    BY <1>1, WorkingKnows DEF SameRows
<1>3. CASE CleanupBreaks(c)
    BY <1>1, <1>2, <1>3, EntersElsewhere DEF CleanupBreaks, Rechecking
<1>4. CASE pc[c] \in Rechecking
  <2>1. t.left # {} /\ \A i \in t.left : t.cleanup[i] = "failed"
      BY <1>1, <1>2, <1>4 DEF Local, CleanInv, Tidy
  <2>2. CASE NotRecovered(c)
    <3>1. Visited(t) = [t EXCEPT !.left = t.left \ {Current(t)}]
        BY <1>2, <2>1, VisitedIsTick
    <3>2. SameRows(Visited(t), t) /\ \A i \in Visited(t).left : Visited(t).cleanup[i] = "failed"
      <4>1. /\ Visited(t).cleanup = t.cleanup /\ Visited(t).attempt = t.attempt
            /\ Visited(t).left = t.left \ {Current(t)}
          BY <1>2, <3>1 DEF Ticks
      <4> QED
          BY <2>1, <4>1 DEF SameRows
    <3>3. Enters(c, Visited(t), {})
        BY <1>1, <2>2, <3>2, RecheckNextEnters DEF NotRecovered
    <3> QED
        BY <1>1, <3>2, <3>3, EntersLike
  <2>3. CASE RecheckHealthy(c) \/ RecheckRenew(c)
    <3>1. PICK to \in {"recheck renew", "recover", "fail"} : Go(c, to, t)
        BY <1>1, <2>3 DEF RecheckHealthy, RecheckRenew, RenewPipelineRunLease
    <3> QED
        BY <1>1, <1>2, <2>1, <3>1 DEF Enters
  <2>4. CASE CleanupBreaks(c)
      BY <1>3, <2>4
  <2> QED
      BY <2>2, <2>3, <2>4
<1> QED
    BY <1>3, <1>4 DEF NotRecovered, RecheckHealthy, RecheckRenew, Rechecking

(* So all of them keep the order. *)
LEMMA PlainClean ==
    ASSUME IndInv, CleanInv, NEW c \in Coordinators, Plain(c)
    PROVE  CleanInv'
<1>1. pc[c] \in Working /\ Untouched /\ lease_owner' \in {lease_owner, NoCoordinator}
    BY PlainLeavesAlone
<1>2. Enters(c, tick[c], {})
    BY <1>1, SyncEnters, StartEnters, StopEnters, EndEnters, RecheckEnters DEF Plain
<1>3. /\ Recalls(attempts, CleanupVerdict, tick[c])
      /\ lease_owner = c => Known(cleanup_status, cleanup_operation, tick[c])
    BY <1>1, WorkingRecalls
<1>4. PICK t : t = tick[c]
    OBVIOUS
<1> QED
    BY <1>1, <1>2, <1>3, <1>4, PlainTick
-----------------------------------------------------------------------------
(* The steps of the cleanup.                                               *)

(* The copy of a tick is fresh. *)
LEMMA ReadClean ==
    ASSUME IndInv, CleanInv, NEW c \in Coordinators, GetPipelineRun(c)
    PROVE  CleanInv'
<1>1. PICK t : t = [NoTick EXCEPT
                !.terminal = terminal_status, !.cancel = cancel_requested,
                !.execution = execution_requested, !.initialized = initialized,
                !.stage = stage, !.started = Started,
                !.cleanup = cleanup_status, !.attempt = cleanup_operation]
    OBVIOUS
<1>2. t.cleanup = cleanup_status /\ t.attempt = cleanup_operation
    BY <1>1 DEF NoTick
<1>3. t \in Ticks
    BY <1>1, ZenonT(60) DEF NoTick, IndInv, TypeOK, Ticks, Started, OpStatuses
<1>4. Untouched /\ lease_owner' = lease_owner
    BY DEF GetPipelineRun, Untouched, CleanupsStand, rows, ops, swept, lease
<1>5. Enters(c, t, {})
  <2>1. PICK u, v, w : u = [t EXCEPT !.outcome = t.terminal] /\ v = [t EXCEPT !.left = t.started] /\ w = [t EXCEPT !.outcome = "failed"]
      OBVIOUS
  <2>2. SameRows(u, t) /\ SameRows(v, t) /\ SameRows(w, t) /\ v \in Ticks
      BY <1>3, <2>1 DEF SameRows, Ticks
  <2>3. (t.terminal # "" /\ Drain(c, u, "terminal")) \/ SyncNext(c, v) \/ Go(c, "fail", w)
      BY <1>1, <2>1 DEF GetPipelineRun
  <2>4. t.terminal # "" => u \in Ticks
      BY <1>3, <2>1 DEF Ticks
  <2>5. "fail" \notin {"clean", "clean sync"} \union Rechecking
      BY DEF Rechecking
  <2> QED
      BY <2>2, <2>3, <2>4, <2>5, DrainEnters, SyncNextEnters, EntersLike, EntersElsewhere
<1>6. Recalls(attempts, CleanupVerdict, t) /\ Known(cleanup_status, cleanup_operation, t)
    BY <1>2 DEF CleanInv, CleanupRows, Recalls, Known
<1> QED
    BY <1>4, <1>5, <1>6, PlainTick

(* The status of a cleanup is read: it is right for the attempt it names. *)
LEMMA CleanupGetClean ==
    ASSUME IndInv, CleanInv, NEW c \in Coordinators, CleanupGet(c)
    PROVE  CleanInv'
<1>1. PICK t : t = tick[c]
    OBVIOUS
<1>2. PICK i : i = NextCleanup(t)
    OBVIOUS
<1>3. pc[c] = "clean" /\ Untouched /\ lease_owner' = lease_owner /\ t.attempt[i] # 0
    BY <1>1, <1>2 DEF CleanupGet, Untouched, CleanupsStand, rows, ops, swept, lease
<1>4. t \in Ticks /\ t.left # {} /\ Tidy(attempts, CleanupVerdict, "clean", t)
      /\ (lease_owner = c => Orderly(cleanup_status, cleanup_operation, CleanupVerdict, "clean", t))
    BY <1>1, <1>3, CleansStage DEF IndInv, TypeOK, CleanInv, Working, PCs
<1>5. PICK seen \in AttemptStatus(i, t.attempt[i]) : Go(c, "clean sync", [t EXCEPT !.seen = seen])
    BY <1>1, <1>2 DEF CleanupGet
<1>6. PICK u : u = [t EXCEPT !.seen = seen]
    OBVIOUS
<1>7. u.left = t.left /\ u.seen = seen /\ u.attempt = t.attempt /\ u.cleanup = t.cleanup
    BY <1>4, <1>6 DEF Ticks
<1>8. NextCleanup(u) = i
    BY <1>2, <1>7 DEF NextCleanup
<1>9. Tidy(attempts, CleanupVerdict, "clean sync", u)
  <2>1. t.attempt[i] = attempts[i] /\ seen \in Terminal => CleanupVerdict[i] \in Terminal
    <3>1. t.attempt[i] = attempts[i] => seen = cleanup_op[i]
        BY <1>5 DEF AttemptStatus
    <3>2. i \in Stages
        BY <1>1, <1>2, <1>3, CleansStage
    <3> QED
        BY <3>1, <3>2, CleanupVerdictReads DEF IndInv
  <2>2. Recalls(attempts, CleanupVerdict, u)
      BY <1>4, <1>7 DEF Tidy, Recalls
  <2> QED
      BY <1>3, <1>4, <1>7, <1>8, <2>1, <2>2 DEF Tidy, Rechecking
<1>10. lease_owner = c => Orderly(cleanup_status, cleanup_operation, CleanupVerdict, "clean sync", u)
    BY <1>4, <1>7 DEF Orderly
<1>11. PICK owned \in BOOLEAN : owned = (lease_owner' = c)
    OBVIOUS
<1>12. Recalled(c, cleanup_status, cleanup_operation, attempts, CleanupVerdict, owned)
  <2>1. Go(c, "clean sync", u)
      BY <1>5, <1>6
  <2> QED
      BY <1>3, <1>9, <1>10, <1>11, <2>1 DEF Recalled
<1>13. Recalled(c, cleanup_status', cleanup_operation', attempts', CleanupVerdict', owned)
    BY <1>3, <1>12, CleanupVerdictStands DEF Untouched
<1>14. Later /\ Kept /\ CleanupRows' /\ CleanupLapsed'
    BY <1>3, UntouchedKeeps
<1> QED
    BY <1>3, <1>11, <1>13, <1>14, CleanTick

(* The row of a cleanup changes, at most, from one that its operation      *)
(* allows to another.                                                      *)
LEMMA RowsTouched ==
    ASSUME IndInv, CleanInv, NEW i \in Stages, NEW s, UNCHANGED cleanup_operation, CleanupsStand,
           cleanup_status' = [cleanup_status EXCEPT ![i] = s],
           \/ cleanup_status[i] = s
           \/ cleanup_status[i] = "pending" /\ s = "skipped"
           \/ /\ cleanup_operation[i] # 0 /\ s \notin {"pending", "skipped"}
              /\ s \in Terminal => CleanupVerdict[i] \in Terminal
    PROVE  Later /\ Kept /\ CleanupRows' /\ CleanupLapsed'
<1>0. attempts' = attempts /\ CleanupVerdict' = CleanupVerdict /\ CleanupLapsed'
    BY CleanupVerdictStands DEF CleanInv
<1>1. Later
    BY <1>0, AttemptsAreNumbers DEF Later, IndInv
<1>2. cleanup_status'[i] = s /\ \A j \in Stages \ {i} : cleanup_status'[j] = cleanup_status[j]
    BY DEF IndInv, TypeOK
<1>3. cleanup_status[i] = "skipped" => s = "skipped"
    BY DEF CleanInv, CleanupRows
<1>4. Kept
    BY <1>0, <1>2, <1>3 DEF Kept
<1>5. ASSUME NEW k \in Stages, Clean(cleanup_status, cleanup_operation, CleanupVerdict, k)
      PROVE  Clean(cleanup_status', cleanup_operation', CleanupVerdict', k)
    BY <1>0, <1>2, <1>3, <1>5 DEF Clean
<1>6. CleanupRows'
  <2> SUFFICES ASSUME NEW j \in Stages
               PROVE  /\ cleanup_operation[j] \in {0, attempts[j]}
                      /\ cleanup_status'[j] \in {"pending", "skipped"} <=> cleanup_operation[j] = 0
                      /\ cleanup_status'[j] \in Terminal => CleanupVerdict[j] \in Terminal
                      /\ ~Settled(CleanupVerdict[j]) =>
                            /\ cleanup_operation[j] # 0
                            /\ \A k \in Stages : CleanedBefore(Kind, k, j) =>
                                   Clean(cleanup_status', cleanup_operation', CleanupVerdict', k)
      BY <1>0 DEF CleanupRows, Settled
  <2>1. /\ cleanup_operation[j] \in {0, attempts[j]}
        /\ cleanup_status[j] \in {"pending", "skipped"} <=> cleanup_operation[j] = 0
        /\ cleanup_status[j] \in Terminal => CleanupVerdict[j] \in Terminal
        /\ ~Settled(CleanupVerdict[j]) =>
              /\ cleanup_operation[j] # 0
              /\ \A k \in Stages : CleanedBefore(Kind, k, j) => Clean(cleanup_status, cleanup_operation, CleanupVerdict, k)
      BY DEF CleanInv, CleanupRows
  <2>2. CASE j # i
      BY <1>2, <1>5, <2>1, <2>2
  <2>3. CASE j = i
      BY <1>2, <1>5, <2>1, <2>3 DEF Terminal
  <2> QED
      BY <2>2, <2>3
<1> QED
    BY <1>0, <1>1, <1>4, <1>6

(* The status that was read is written to the row. *)
LEMMA CleanupSyncClean ==
    ASSUME IndInv, CleanInv, NEW c \in Coordinators, CleanupSync(c)
    PROVE  CleanInv'
<1>1. PICK t : t = tick[c]
    OBVIOUS
<1>2. PICK i : i = NextCleanup(t)
    OBVIOUS
<1>3. /\ pc[c] = "clean sync" /\ UNCHANGED cleanup_operation /\ CleanupsStand /\ lease_owner' = lease_owner
      /\ cleanup_status' = [cleanup_status EXCEPT ![i] =
                               IF cleanup_operation[i] = t.attempt[i] THEN t.seen ELSE @]
    BY <1>1, <1>2 DEF CleanupSync, CleanupsStand, ops, swept, lease
<1>4. /\ t \in Ticks /\ t.left # {} /\ t.left \subseteq Stages /\ i \in t.left /\ i \in Stages
      /\ Tidy(attempts, CleanupVerdict, "clean sync", t)
      /\ lease_owner = c => Orderly(cleanup_status, cleanup_operation, CleanupVerdict, "clean sync", t)
    BY <1>1, <1>2, <1>3, CleansStage DEF IndInv, TypeOK, CleanInv, Working, PCs
<1>5. t.seen \in {"queued", "running"} \union Terminal
    BY <1>1, <1>3 DEF IndInv, Informed, Local
<1>6. t.attempt[i] # 0 /\ (t.seen \in Terminal /\ t.attempt[i] = attempts[i] => CleanupVerdict[i] \in Terminal)
    BY <1>2, <1>4 DEF Tidy
<1>7. \A j \in Stages : cleanup_operation[j] \in {0, attempts[j]}
    BY DEF CleanInv, CleanupRows
<1>8. Later /\ Kept /\ CleanupRows' /\ CleanupLapsed'
  <2>1. PICK s : s = IF cleanup_operation[i] = t.attempt[i] THEN t.seen ELSE cleanup_status[i]
      OBVIOUS
  <2>2. cleanup_status' = [cleanup_status EXCEPT ![i] = s]
      BY <1>3, <2>1
  <2>3. \/ cleanup_status[i] = s
        \/ /\ cleanup_operation[i] # 0 /\ s \notin {"pending", "skipped"}
           /\ s \in Terminal => CleanupVerdict[i] \in Terminal
      BY <1>4, <1>5, <1>6, <1>7, <2>1 DEF Terminal
  <2> QED
      BY <1>3, <1>4, <2>2, <2>3, RowsTouched
<1>9. PICK u : u = [Cleaned(t, i) EXCEPT !.cleanup[i] = t.seen, !.seen = "none"]
    OBVIOUS
<1>10. /\ u \in Ticks /\ u.left = t.left \ {i} /\ u.attempt = t.attempt
       /\ u.cleanup = [t.cleanup EXCEPT ![i] = t.seen]
    BY <1>4, <1>5, <1>9 DEF Ticks, Cleaned, CleanupStatuses, CleanupComplete, OpStatuses, Terminal
<1>11. u.cleanup[i] = t.seen /\ \A j \in Stages \ {i} : u.cleanup[j] = t.cleanup[j]
    BY <1>4, <1>10 DEF Ticks
<1>12. PICK owned \in BOOLEAN : owned = (lease_owner' = c)
    OBVIOUS
<1>13. CASE t.seen \in CleanupComplete
  <2>1. Enters(c, u, Stages \ u.left)
      BY <1>1, <1>2, <1>9, <1>10, <1>13, CleanupNextEnters DEF CleanupSync
  <2>2. t.seen \in Terminal
      BY <1>5, <1>13 DEF CleanupComplete
  <2>3. Recalls(attempts, CleanupVerdict, u)
    <3> SUFFICES ASSUME NEW j \in Stages
                 PROVE  /\ u.attempt[j] = 0 <=> u.cleanup[j] \in {"pending", "skipped"}
                        /\ u.cleanup[j] \in Terminal /\ u.attempt[j] = attempts[j] => CleanupVerdict[j] \in Terminal
        BY DEF Recalls
    <3>1. /\ t.attempt[j] = 0 <=> t.cleanup[j] \in {"pending", "skipped"}
          /\ t.cleanup[j] \in Terminal /\ t.attempt[j] = attempts[j] => CleanupVerdict[j] \in Terminal
        BY <1>4 DEF Tidy, Recalls
    <3>2. CASE j = i
        BY <1>6, <1>10, <1>11, <2>2, <3>2 DEF Terminal
    <3>3. CASE j # i
        BY <1>10, <1>11, <3>1, <3>3
    <3> QED
        BY <3>2, <3>3
  <2>4. ASSUME owned
        PROVE  /\ Known(cleanup_status', cleanup_operation', u)
               /\ \A j \in (Stages \ u.left) \intersect Stages : Clean(cleanup_status', cleanup_operation', CleanupVerdict', j)
    <3>1. Orderly(cleanup_status, cleanup_operation, CleanupVerdict, "clean sync", t)
        BY <1>3, <1>4, <1>12, <2>4
    <3>2. Orderly(cleanup_status', cleanup_operation', CleanupVerdict', "clean sync", t)
        BY <1>8, <3>1, OrderlyStays
    <3>3. Known(cleanup_status', cleanup_operation', u)
        BY <1>5, <1>10, <1>11, <3>2 DEF Orderly, Known, Terminal
    <3>4. Clean(cleanup_status', cleanup_operation', CleanupVerdict', i)
      <4>1. cleanup_operation[i] = t.attempt[i] /\ t.attempt[i] = attempts[i]
          BY <1>4, <1>6, <1>7, <3>1 DEF Orderly
      <4> QED
          BY <1>3, CleanupVerdictStands, <1>6, <2>2, <4>1 DEF Clean
    <3>5. \A j \in Stages \ t.left : Clean(cleanup_status', cleanup_operation', CleanupVerdict', j)
        BY <3>2 DEF Orderly
    <3> QED
        BY <1>10, <3>3, <3>4, <3>5
  <2>5. /\ \A j \in Stages : cleanup_operation'[j] \in {0, attempts'[j]}
        /\ Recalls(attempts', CleanupVerdict', u)
      BY <1>3, CleanupVerdictStands, <1>7, <2>3 DEF Recalls
  <2>6. Recalled(c, cleanup_status', cleanup_operation', attempts', CleanupVerdict', owned)
      BY <2>1, <2>4, <2>5, EntersRight
  <2> QED
      BY <1>3, <1>8, <1>12, <2>6, CleanTick
<1>14. CASE t.seen \notin CleanupComplete
  <2>1. Go(c, "release", NoTick)
      BY <1>1, <1>14 DEF CleanupSync, Release
  <2>2. Recalled(c, cleanup_status', cleanup_operation', attempts', CleanupVerdict', owned)
      BY <2>1, NoTickIsTidy DEF Recalled
  <2> QED
      BY <1>3, <1>8, <1>12, <2>2, CleanTick
<1> QED
    BY <1>13, <1>14

(* A stage without anything to clean up is skipped. *)
LEMMA SkipClean ==
    ASSUME IndInv, CleanInv, NEW c \in Coordinators, SkipPipelineRunStageCleanup(c)
    PROVE  CleanInv'
<1>1. PICK t : t = tick[c]
    OBVIOUS
<1>2. PICK i : i = NextCleanup(t)
    OBVIOUS
<1>3. pc[c] = "clean" /\ UNCHANGED cleanup_operation /\ CleanupsStand /\ lease_owner' = lease_owner
    BY DEF SkipPipelineRunStageCleanup, CleanupsStand, ops, swept, lease
<1>4. /\ t \in Ticks /\ t.left # {} /\ t.left \subseteq Stages /\ i \in t.left /\ i \in Stages
      /\ Tidy(attempts, CleanupVerdict, "clean", t)
      /\ lease_owner = c => Orderly(cleanup_status, cleanup_operation, CleanupVerdict, "clean", t)
    BY <1>1, <1>2, <1>3, CleansStage DEF IndInv, TypeOK, CleanInv, Working, PCs
<1>5. CASE Owns(c) /\ cleanup_status[i] = "pending"
  <2>1. cleanup_status' = [cleanup_status EXCEPT ![i] = "skipped"] /\ CleanupNext(c, Cleaned(t, i))
      BY <1>1, <1>2, <1>5 DEF SkipPipelineRunStageCleanup
  <2>2. Later /\ Kept /\ CleanupRows' /\ CleanupLapsed'
      BY <1>3, <1>4, <1>5, <2>1, RowsTouched
  <2>3. PICK u : u = Cleaned(t, i)
      OBVIOUS
  <2>4. u \in Ticks /\ u.left = t.left \ {i} /\ u.attempt = t.attempt /\ u.cleanup = t.cleanup
      BY <1>4, <2>3 DEF Ticks, Cleaned
  <2>5. Enters(c, u, Stages \ u.left)
      BY <2>1, <2>3, <2>4, CleanupNextEnters
  <2>6. /\ Recalls(attempts', CleanupVerdict', u)
        /\ \A j \in Stages : cleanup_operation'[j] \in {0, attempts'[j]}
    <3>1. Recalls(attempts, CleanupVerdict, t)
        BY <1>4 DEF Tidy
    <3>2. Recalls(attempts', CleanupVerdict', u)
        BY <1>3, CleanupVerdictStands, <2>4, <3>1 DEF Recalls
    <3>3. \A j \in Stages : cleanup_operation[j] \in {0, attempts[j]}
        BY DEF CleanInv, CleanupRows
    <3> QED
        BY <1>3, CleanupVerdictStands, <3>2, <3>3
  <2>7. PICK owned \in BOOLEAN : owned = (lease_owner' = c)
      OBVIOUS
  <2>8. ASSUME owned
        PROVE  /\ Known(cleanup_status', cleanup_operation', u)
               /\ \A j \in (Stages \ u.left) \intersect Stages : Clean(cleanup_status', cleanup_operation', CleanupVerdict', j)
    <3>1. Orderly(cleanup_status', cleanup_operation', CleanupVerdict', "clean", t)
        BY <1>3, <1>4, <2>2, <2>7, <2>8, OrderlyStays
    <3>2. Clean(cleanup_status', cleanup_operation', CleanupVerdict', i)
        BY <1>4, <2>1 DEF Clean, IndInv, TypeOK
    <3> QED
        BY <2>4, <3>1, <3>2 DEF Orderly, Known
  <2>9. Recalled(c, cleanup_status', cleanup_operation', attempts', CleanupVerdict', owned)
      BY <2>5, <2>6, <2>8, EntersRight
  <2> QED
      BY <1>3, <2>2, <2>7, <2>9, CleanTick
<1>6. CASE ~(Owns(c) /\ cleanup_status[i] = "pending")
  <2>1. Go(c, "fail", t) /\ Untouched
      BY <1>1, <1>2, <1>3, <1>6 DEF SkipPipelineRunStageCleanup, Untouched
  <2>2. Enters(c, t, {})
      BY <2>1, EntersElsewhere DEF SameRows, Rechecking
  <2>3. /\ Recalls(attempts, CleanupVerdict, t)
        /\ lease_owner = c => Known(cleanup_status, cleanup_operation, t)
      BY <1>4 DEF Tidy, Orderly, Known
  <2> QED
      BY <1>3, <2>1, <2>2, <2>3, PlainTick
<1> QED
    BY <1>5, <1>6

(* A failed cleanup is recovered. *)
LEMMA RecoverClean ==
    ASSUME IndInv, CleanInv, NEW c \in Coordinators, Recover(c)
    PROVE  CleanInv'
<1>1. PICK t : t = tick[c]
    OBVIOUS
<1>2. PICK i : i = Current(t)
    OBVIOUS
<1>3. /\ pc[c] = "recover" /\ UNCHANGED cleanup_operation /\ CleanupsStand /\ lease_owner' = lease_owner
      /\ cleanup_status' = [cleanup_status EXCEPT ![i] =
                               IF cleanup_operation[i] = t.attempt[i] THEN "succeeded" ELSE @]
    BY <1>1, <1>2 DEF Recover, CleanupsStand, ops, swept, lease
<1>4. /\ t \in Ticks /\ t.left # {}
      /\ Recalls(attempts, CleanupVerdict, t) /\ \A j \in t.left : t.cleanup[j] = "failed"
      /\ lease_owner = c => Known(cleanup_status, cleanup_operation, t)
  <2>1. pc[c] \in Working /\ pc[c] \in Rechecking
      BY <1>3 DEF Working, PCs, Rechecking
  <2> QED
      BY <1>1, <2>1, WorkingKnows, WorkingRecalls DEF Local, CleanInv, Tidy
<1>5. i \in t.left /\ i \in Stages /\ Visited(t) = [t EXCEPT !.left = t.left \ {i}]
    BY <1>2, <1>4, VisitedIsTick
<1>6. \A j \in Stages : cleanup_operation[j] \in {0, attempts[j]}
    BY DEF CleanInv, CleanupRows
<1>7. t.attempt[i] # 0 /\ (t.attempt[i] = attempts[i] => CleanupVerdict[i] \in Terminal)
    BY <1>4, <1>5 DEF Recalls, Terminal
<1>8. Later /\ Kept /\ CleanupRows' /\ CleanupLapsed'
  <2>1. PICK s : s = IF cleanup_operation[i] = t.attempt[i] THEN "succeeded" ELSE cleanup_status[i]
      OBVIOUS
  <2>2. cleanup_status' = [cleanup_status EXCEPT ![i] = s]
      BY <1>3, <2>1
  <2>3. \/ cleanup_status[i] = s
        \/ /\ cleanup_operation[i] # 0 /\ s \notin {"pending", "skipped"}
           /\ s \in Terminal => CleanupVerdict[i] \in Terminal
      BY <1>5, <1>6, <1>7, <2>1
  <2> QED
      BY <1>3, <1>5, <2>2, <2>3, RowsTouched
<1>9. PICK u : u = [Visited(t) EXCEPT !.recovered = @ \union {i}]
    OBVIOUS
<1>10. u.left = t.left \ {i} /\ u.attempt = t.attempt /\ u.cleanup = t.cleanup
    BY <1>4, <1>5, <1>9 DEF Ticks
<1>11. Enters(c, u, {})
  <2>1. RecheckNext(c, u)
      BY <1>1, <1>2, <1>9 DEF Recover
  <2>2. \A j \in u.left : u.cleanup[j] = "failed"
      BY <1>4, <1>10
  <2> QED
      BY <2>1, <2>2, RecheckNextEnters
<1>12. PICK owned \in BOOLEAN : owned = (lease_owner' = c)
    OBVIOUS
<1>13. /\ Recalls(attempts', CleanupVerdict', u)
       /\ \A j \in Stages : cleanup_operation'[j] \in {0, attempts'[j]}
    BY <1>3, CleanupVerdictStands, <1>4, <1>6, <1>10 DEF Recalls
<1>14. /\ owned => Known(cleanup_status', cleanup_operation', u)
       /\ \A j \in {} \intersect Stages : Clean(cleanup_status', cleanup_operation', CleanupVerdict', j)
    BY <1>3, <1>4, <1>8, <1>10, <1>12, ZenonT(30) DEF Known, Kept
<1>15. Recalled(c, cleanup_status', cleanup_operation', attempts', CleanupVerdict', owned)
    BY <1>11, <1>13, <1>14, EntersRight
<1> QED
    BY <1>3, <1>8, <1>12, <1>15, CleanTick

(* The cleanup of a stage may be created: nothing that runs or that has to *)
(* be cleaned up earlier is left.                                          *)
LEMMA CreatesInOrder ==
    ASSUME IndInv, CleanInv, NEW c \in Coordinators, pc[c] = "clean", Owns(c),
           NEW i, i = NextCleanup(tick[c]), cleanup_status[i] = "pending"
    PROVE  /\ i \in Stages
           /\ \A j \in Stages : /\ OperationOver(j) /\ Settled(CleanupVerdict[j])
                                /\ CleanedBefore(Kind, j, i) => Clean(cleanup_status, cleanup_operation, CleanupVerdict, j)
<1>1. /\ i \in Stages
      /\ \A j \in Stages : CleanedBefore(Kind, j, i) => j \notin tick[c].left
    BY CleansStage
<1>2. Orderly(cleanup_status, cleanup_operation, CleanupVerdict, "clean", tick[c])
    BY DEF CleanInv, Owns, Working, PCs
<1>3. \A j \in Stages : CleanedBefore(Kind, j, i) => Clean(cleanup_status, cleanup_operation, CleanupVerdict, j)
    BY <1>1, <1>2 DEF Orderly
<1>4. ASSUME NEW j \in Stages PROVE OperationOver(j)
  <2>1. tick[c].started = Started /\ Ended(Verdict, tick[c].started)
      BY DEF IndInv, Informed, Own, Owns, Local, Ending, Working, PCs
  <2>2. CASE j \in Started
      BY <2>1, <2>2, VerdictReads DEF Ended, IndInv
  <2>3. CASE j \notin Started
      BY <2>3 DEF Started, OperationOver, Settled
  <2> QED
      BY <2>2, <2>3
<1>5. ASSUME NEW j \in Stages PROVE Settled(CleanupVerdict[j])
  <2>1. SUFFICES ASSUME ~Settled(CleanupVerdict[j]) PROVE FALSE
      OBVIOUS
  <2>2. /\ cleanup_operation[j] # 0 /\ cleanup_operation[i] = 0
        /\ \A k \in Stages : CleanedBefore(Kind, k, j) => Clean(cleanup_status, cleanup_operation, CleanupVerdict, k)
        /\ cleanup_status[j] # "skipped"
      BY <1>1, <2>1 DEF CleanInv, CleanupRows
  <2>3. j # i /\ ~Clean(cleanup_status, cleanup_operation, CleanupVerdict, i)
      BY <2>2 DEF Clean
  <2>4. ~Clean(cleanup_status, cleanup_operation, CleanupVerdict, j)
      BY <2>1, <2>2 DEF Clean, Settled
  <2>5. CleanedBefore(Kind, j, i) \/ CleanedBefore(Kind, i, j)
      BY <1>1, <2>3, StagesAreNumbered, RuleIsStrict, PipelineAssumption
  <2> QED
      BY <1>1, <1>3, <2>2, <2>3, <2>4, <2>5
<1> QED
    BY <1>1, <1>3, <1>4, <1>5

(* A cleanup operation is created. *)
LEMMA CreateClean ==
    ASSUME IndInv, CleanInv, NEW c \in Coordinators, CreatePipelineCleanupOperation(c)
    PROVE  CleanInv'
<1>1. PICK t : t = tick[c]
    OBVIOUS
<1>2. PICK i : i = NextCleanup(t)
    OBVIOUS
<1>3. pc[c] = "clean" /\ lease_owner' = lease_owner
    BY DEF CreatePipelineCleanupOperation, lease
<1> DEFINE creates == Owns(c) /\ stage[i] \in Terminal /\ cleanup_status[i] = "pending"
<1>4. CASE ~creates
  <2>1. Go(c, "fail", t) /\ Untouched
      BY <1>1, <1>2, <1>4 DEF CreatePipelineCleanupOperation, Untouched, CleanupsStand
  <2>2. Enters(c, t, {})
      BY <2>1, EntersElsewhere DEF SameRows, Rechecking
  <2>3. /\ Recalls(attempts, CleanupVerdict, t)
        /\ lease_owner = c => Known(cleanup_status, cleanup_operation, t)
      BY <1>1, <1>3, WorkingRecalls DEF Working, PCs
  <2> QED
      BY <1>3, <2>1, <2>2, <2>3, PlainTick
<1>5. CASE creates
  <2>1. /\ cleanup_op' = [cleanup_op EXCEPT ![i] = "queued"]
        /\ cleanup_expired' = cleanup_expired /\ cleanup_late' = cleanup_late \ {i}
        /\ attempts' = [attempts EXCEPT ![i] = @ + 1]
        /\ cleanup_operation' = [cleanup_operation EXCEPT ![i] = attempts'[i]]
        /\ cleanup_status' = [cleanup_status EXCEPT ![i] = "queued"]
        /\ Go(c, "release", NoTick)
      BY <1>1, <1>2, <1>5 DEF CreatePipelineCleanupOperation, Release
  <2>2. /\ i \in Stages
        /\ \A j \in Stages : /\ Settled(CleanupVerdict[j])
                             /\ CleanedBefore(Kind, j, i) => Clean(cleanup_status, cleanup_operation, CleanupVerdict, j)
      BY <1>1, <1>2, <1>3, <1>5, CreatesInOrder
  <2>3. \A j \in Stages : attempts[j] \in Nat
      BY AttemptsAreNumbers DEF IndInv
  <2>4. /\ attempts'[i] = attempts[i] + 1 /\ attempts'[i] # 0 /\ attempts'[i] \in Nat /\ attempts[i] <= attempts'[i]
        /\ attempts'[i] # attempts[i]
        /\ \A j \in Stages \ {i} : attempts'[j] = attempts[j]
    <3>1. attempts'[i] = attempts[i] + 1 /\ \A j \in Stages \ {i} : attempts'[j] = attempts[j]
        BY <2>1, <2>2 DEF IndInv, TypeOK
    <3>2. attempts[i] \in Nat
        BY <2>2, <2>3
    <3> QED
        BY <3>1, <3>2
  <2>5. /\ CleanupVerdict'[i] = "queued" /\ cleanup_status'[i] = "queued" /\ cleanup_operation'[i] = attempts'[i]
        /\ \A j \in Stages \ {i} : /\ CleanupVerdict'[j] = CleanupVerdict[j] /\ cleanup_status'[j] = cleanup_status[j]
                                   /\ cleanup_operation'[j] = cleanup_operation[j]
    <3>1. /\ cleanup_op'[i] = "queued" /\ cleanup_status'[i] = "queued" /\ cleanup_operation'[i] = attempts'[i]
          /\ \A j \in Stages \ {i} : /\ cleanup_op'[j] = cleanup_op[j] /\ cleanup_status'[j] = cleanup_status[j]
                                     /\ cleanup_operation'[j] = cleanup_operation[j]
        BY <2>1, <2>2 DEF IndInv, TypeOK
    <3>2. CleanupVerdict'[i] = "queued" /\ \A j \in Stages \ {i} : CleanupVerdict'[j] = CleanupVerdict[j]
        BY <2>1, <2>2, <2>4, <3>1 DEF CleanupVerdict
    <3> QED
        BY <3>1, <3>2
  <2>11. CleanupLapsed'
    <3>1. \A j \in cleanup_late \ {i} : cleanup_op'[j] = cleanup_op[j] /\ attempts'[j] = attempts[j]
        BY <2>1, <2>2 DEF IndInv, TypeOK
    <3> QED
        BY <2>1, <3>1 DEF CleanInv, CleanupLapsed
  <2>6. Later
    <3> SUFFICES ASSUME NEW j \in Stages
                 PROVE  /\ attempts[j] \in Nat /\ attempts'[j] \in Nat /\ attempts[j] <= attempts'[j]
                        /\ attempts'[j] = attempts[j] /\ CleanupVerdict[j] \in Terminal => CleanupVerdict'[j] \in Terminal
        BY DEF Later
    <3>1. CASE j = i
        BY <2>3, <2>4, <3>1
    <3>2. CASE j # i
        BY <2>3, <2>4, <2>5, <3>2
    <3> QED
        BY <3>1, <3>2
  <2>7. CleanupRows'
    <3> SUFFICES ASSUME NEW j \in Stages
                 PROVE  /\ cleanup_operation'[j] \in {0, attempts'[j]}
                        /\ cleanup_status'[j] \in {"pending", "skipped"} <=> cleanup_operation'[j] = 0
                        /\ cleanup_status'[j] \in Terminal => CleanupVerdict'[j] \in Terminal
                        /\ ~Settled(CleanupVerdict'[j]) =>
                              /\ cleanup_operation'[j] # 0
                              /\ \A k \in Stages : CleanedBefore(Kind, k, j) =>
                                     Clean(cleanup_status', cleanup_operation', CleanupVerdict', k)
        BY DEF CleanupRows, Settled
    <3>1. CASE j = i
      <4>1. ASSUME NEW k \in Stages, CleanedBefore(Kind, k, i)
            PROVE  Clean(cleanup_status', cleanup_operation', CleanupVerdict', k)
        <5>1. k # i
            BY <2>2, <4>1, StagesAreNumbered, RuleIsStrict, PipelineAssumption
        <5>2. Clean(cleanup_status, cleanup_operation, CleanupVerdict, k)
            BY <2>2, <4>1
        <5> QED
            BY <2>5, <5>1, <5>2 DEF Clean
      <4> QED
          BY <2>4, <2>5, <3>1, <4>1 DEF Terminal
    <3>2. CASE j # i
      <4>1. Settled(CleanupVerdict'[j])
          BY <2>2, <2>5, <3>2
      <4> QED
          BY <2>4, <2>5, <3>2, <4>1 DEF CleanInv, CleanupRows
    <3> QED
        BY <3>1, <3>2
  <2>8. \A d \in Coordinators \ {c} : lease_owner' # d
      BY <1>3, <1>5 DEF Owns
  <2>9. PICK owned \in BOOLEAN : owned = (lease_owner' = c)
      OBVIOUS
  <2>10. Recalled(c, cleanup_status', cleanup_operation', attempts', CleanupVerdict', owned)
      BY <2>1, NoTickIsTidy DEF Recalled
  <2> QED
      BY <2>6, <2>7, <2>8, <2>9, <2>10, <2>11, CleanTick
<1> QED
    BY <1>4, <1>5

(* A step of a cleanup operation. *)
LEMMA CleanupRunsClean ==
    ASSUME IndInv, CleanInv, NEW i \in Stages, CleanupRuns(i) \/ CleanupExpires(i) \/ CleanupRevives(i)
    PROVE  CleanInv'
<1>1. PICK s : /\ cleanup_op' = [cleanup_op EXCEPT ![i] = s]
               /\ cleanup_op[i] \in {"queued", "running"} \/ i \in cleanup_late
               /\ i \notin cleanup_late' \/ (s = "failed" /\ <<i, attempts[i]>> \in cleanup_expired')
               /\ s \in Terminal \union {"running"}
               /\ cleanup_op[i] = "running" => s \in Terminal
    BY DEF CleanupRuns, CleanupExpires, CleanupRevives, CleanInv, CleanupLapsed, swept, Terminal
<1>2. /\ UNCHANGED <<cleanup_status, cleanup_operation, attempts, pc, tick, lease_owner>>
      /\ cleanup_expired' \in {cleanup_expired, cleanup_expired \union {<<i, attempts[i]>>}}
      /\ cleanup_late' \ {i} = cleanup_late \ {i}
    BY DEF CleanupRuns, CleanupExpires, CleanupRevives, around, rows, lease, swept
<1>0. /\ cleanup_op'[i] = s /\ \A j \in Stages \ {i} : cleanup_op'[j] = cleanup_op[j]
      /\ cleanup_op[i] # "none" /\ (i \in cleanup_late => <<i, attempts[i]>> \in cleanup_expired)
  <2>1. cleanup_op'[i] = s /\ \A j \in Stages \ {i} : cleanup_op'[j] = cleanup_op[j]
      BY <1>1 DEF IndInv, TypeOK
  <2>2. cleanup_op[i] # "none" /\ (i \in cleanup_late => <<i, attempts[i]>> \in cleanup_expired)
      BY <1>1 DEF CleanInv, CleanupLapsed
  <2> QED
      BY <2>1, <2>2
<1>3. /\ \A j \in Stages \ {i} : CleanupVerdict'[j] = CleanupVerdict[j]
      /\ CleanupVerdict[i] \in Terminal => CleanupVerdict'[i] \in Terminal
      /\ CleanupVerdict[i] # "none"
  <2>1. \A j \in Stages : CleanupVerdict[j] = IF cleanup_op[j] = "running" /\ <<j, attempts[j]>> \in cleanup_expired
                                              THEN "failed" ELSE cleanup_op[j]
      BY DEF CleanupVerdict
  <2>2. \A j \in Stages : CleanupVerdict'[j] = IF cleanup_op'[j] = "running" /\ <<j, attempts[j]>> \in cleanup_expired'
                                               THEN "failed" ELSE cleanup_op'[j]
      BY <1>2 DEF CleanupVerdict
  <2>3. ASSUME NEW j \in Stages \ {i} PROVE CleanupVerdict'[j] = CleanupVerdict[j]
    <3>1. <<j, attempts[j]>> \in cleanup_expired' <=> <<j, attempts[j]>> \in cleanup_expired
        BY <1>2
    <3> QED
        BY <1>0, <2>1, <2>2, <3>1
  <2>4. CleanupVerdict[i] \in Terminal => CleanupVerdict'[i] \in Terminal
    <3>1. <<i, attempts[i]>> \in cleanup_expired => <<i, attempts[i]>> \in cleanup_expired'
        BY <1>2
    <3> QED
        BY <1>0, <1>1, <2>1, <2>2, <3>1 DEF Terminal
  <2> QED
      BY <1>0, <2>1, <2>3, <2>4
<1>8. CleanupLapsed'
  <2>1. ASSUME NEW j \in cleanup_late', j # i PROVE cleanup_op'[j] = "failed" /\ <<j, attempts'[j]>> \in cleanup_expired'
    <3>1. j \in cleanup_late /\ j \in Stages
        BY <1>2, <2>1 DEF IndInv, TypeOK
    <3> QED
        BY <1>0, <1>2, <2>1, <3>1 DEF CleanInv, CleanupLapsed
  <2> QED
      BY <1>0, <1>1, <1>2, <2>1 DEF CleanupLapsed
<1>4. Later
    BY <1>2, <1>3, AttemptsAreNumbers DEF Later, IndInv
<1>5. Kept
    BY <1>2, <1>3 DEF Kept
<1>6. ASSUME NEW k \in Stages, Clean(cleanup_status, cleanup_operation, CleanupVerdict, k)
      PROVE  Clean(cleanup_status', cleanup_operation', CleanupVerdict', k)
    BY <1>2, <1>3, <1>6 DEF Clean
<1>7. CleanupRows'
  <2> SUFFICES ASSUME NEW j \in Stages
               PROVE  /\ cleanup_operation[j] \in {0, attempts[j]}
                      /\ cleanup_status[j] \in {"pending", "skipped"} <=> cleanup_operation[j] = 0
                      /\ cleanup_status[j] \in Terminal => CleanupVerdict'[j] \in Terminal
                      /\ ~Settled(CleanupVerdict'[j]) =>
                            /\ cleanup_operation[j] # 0
                            /\ \A k \in Stages : CleanedBefore(Kind, k, j) =>
                                   Clean(cleanup_status', cleanup_operation', CleanupVerdict', k)
      BY <1>2 DEF CleanupRows, Settled
  <2>1. /\ cleanup_operation[j] \in {0, attempts[j]}
        /\ cleanup_status[j] \in {"pending", "skipped"} <=> cleanup_operation[j] = 0
        /\ cleanup_status[j] \in Terminal => CleanupVerdict[j] \in Terminal
        /\ ~Settled(CleanupVerdict[j]) =>
              /\ cleanup_operation[j] # 0
              /\ \A k \in Stages : CleanedBefore(Kind, k, j) => Clean(cleanup_status, cleanup_operation, CleanupVerdict, k)
      BY DEF CleanInv, CleanupRows
  <2>2. CASE j # i
      BY <1>3, <1>6, <2>1, <2>2
  <2>3. CASE j = i
      BY <1>3, <1>6, <2>1, <2>3 DEF Settled
  <2> QED
      BY <2>2, <2>3
<1> QED
    BY <1>2, <1>4, <1>5, <1>7, <1>8, CleanOutside

(* A retry resets the cleanups that failed, when none is active. *)
LEMMA RetryClean ==
    ASSUME IndInv, CleanInv, RetryExperimentCleanup
    PROVE  CleanInv'
<1> DEFINE failed == {i \in Stages : cleanup_status[i] \in {"failed", "canceled"}}
<1>1. /\ \A i \in Stages : cleanup_operation[i] # 0 => Settled(cleanup_op[i])
      /\ cleanup_status' = [i \in Stages |-> IF i \in failed THEN "pending" ELSE cleanup_status[i]]
      /\ cleanup_operation' = [i \in Stages |-> IF i \in failed THEN 0 ELSE cleanup_operation[i]]
      /\ CleanupsStand /\ UNCHANGED <<pc, tick>> /\ lease_owner' = NoCoordinator
    BY DEF RetryExperimentCleanup, CleanupsStand, ops, swept
<1>0. attempts' = attempts /\ CleanupVerdict' = CleanupVerdict /\ CleanupLapsed'
    BY <1>1, CleanupVerdictStands DEF CleanInv
<1>2. Later
    BY <1>0, AttemptsAreNumbers DEF Later, IndInv
<1>3. \A i \in Stages : Settled(CleanupVerdict[i])
    BY <1>1, CleanupVerdictReads DEF CleanInv, CleanupRows, IndInv
<1>4. CleanupRows'
  <2> SUFFICES ASSUME NEW j \in Stages
               PROVE  /\ cleanup_operation'[j] \in {0, attempts[j]}
                      /\ cleanup_status'[j] \in {"pending", "skipped"} <=> cleanup_operation'[j] = 0
                      /\ cleanup_status'[j] \in Terminal => CleanupVerdict[j] \in Terminal
      BY <1>0, <1>3 DEF CleanupRows, Settled
  <2>1. CASE j \in failed
      BY <1>1, <2>1 DEF Terminal
  <2>2. CASE j \notin failed
    <3>1. cleanup_operation'[j] = cleanup_operation[j] /\ cleanup_status'[j] = cleanup_status[j]
        BY <1>1, <2>2
    <3> QED
        BY <3>1 DEF CleanInv, CleanupRows
  <2> QED
      BY <2>1, <2>2
<1>5. \A d \in Coordinators : lease_owner' # d
    BY <1>1, PipelineAssumption
<1> QED
    BY <1>0, <1>1, <1>2, <1>4, <1>5, CleanOutside

(* The steps outside a tick. *)
LEMMA OutsideClean ==
    ASSUME IndInv, CleanInv,
           \/ \E i \in Stages : OperationRuns(i) \/ OperationSettles(i) \/ OperationExpires(i) \/ OperationRevives(i)
           \/ LeaseLapses \/ RequestPipelineRunCancel \/ RequestExperimentCancel \/ StartExperimentTraffic
           \/ UNCHANGED vars
    PROVE  CleanInv'
<1>1. Untouched /\ UNCHANGED <<pc, tick>> /\ lease_owner' \in {lease_owner, NoCoordinator}
  <2> USE DEF Untouched, CleanupsStand, rows, ops, swept, lease
  <2>1. CASE \E i \in Stages : OperationRuns(i) \/ OperationSettles(i) \/ OperationExpires(i) \/ OperationRevives(i)
      BY <2>1 DEF OperationRuns, OperationSettles, OperationExpires, OperationRevives, around
  <2>2. CASE LeaseLapses \/ RequestPipelineRunCancel \/ StartExperimentTraffic
      BY <2>2 DEF LeaseLapses, RequestPipelineRunCancel, StartExperimentTraffic
  <2>3. CASE RequestExperimentCancel
      BY <2>3 DEF RequestExperimentCancel
  <2>4. CASE UNCHANGED vars
      BY <2>4 DEF vars
  <2> QED
      BY <2>1, <2>2, <2>3, <2>4
<1>2. Later /\ Kept /\ CleanupRows' /\ CleanupLapsed'
    BY <1>1, UntouchedKeeps
<1>3. \A d \in Coordinators : lease_owner' = d => lease_owner = d
    BY <1>1, PipelineAssumption
<1> QED
    BY <1>1, <1>2, <1>3, CleanOutside

(* The steps that begin or end a tick. *)
LEMMA AroundClean ==
    ASSUME IndInv, CleanInv, NEW c \in Coordinators,
           ClaimPipelineRun(c) \/ ReleasePipelineRun(c) \/ Crash(c) \/ Abandon(c)
    PROVE  CleanInv'
<1>1. /\ \E to \in {"idle", "read", "release"} : Go(c, to, NoTick)
      /\ Untouched /\ lease_owner' \in {lease_owner, NoCoordinator, c}
    BY DEF ClaimPipelineRun, ReleasePipelineRun, Crash, Abandon, Release, Stop, Untouched, CleanupsStand, rows, ops, swept, lease
<1> QED
    BY <1>1, LeavesTidy

(* Every step keeps what is known of the cleanups. *)
LEMMA CleanInvNext == IndInv /\ CleanInv /\ [Next]_vars => CleanInv'
<1> SUFFICES ASSUME IndInv, CleanInv, [Next]_vars PROVE CleanInv'
    OBVIOUS
<1>1. ASSUME NEW c \in Coordinators, Tick(c) PROVE CleanInv'
    BY <1>1, ReadClean, PlainClean, SkipClean, CreateClean, CleanupGetClean, CleanupSyncClean, RecoverClean,
       AroundClean DEF Tick, Plain
<1>2. ASSUME NEW c \in Coordinators, ClaimPipelineRun(c) \/ Crash(c) \/ Abandon(c) PROVE CleanInv'
    BY <1>2, AroundClean
<1>3. ASSUME NEW i \in Stages,
             \/ OperationRuns(i) \/ OperationSettles(i) \/ OperationExpires(i) \/ OperationRevives(i)
             \/ CleanupRuns(i) \/ CleanupExpires(i) \/ CleanupRevives(i)
      PROVE  CleanInv'
    BY <1>3, OutsideClean, CleanupRunsClean
<1>4. CASE LeaseLapses \/ RequestPipelineRunCancel \/ RequestExperimentCancel \/ StartExperimentTraffic
    BY <1>4, OutsideClean
<1> QED
    BY <1>1, <1>2, <1>3, <1>4, OutsideClean, RetryClean DEF Next

(* Initially there are none. *)
LEMMA CleanInvInit == Init => CleanInv
<1> SUFFICES ASSUME Init PROVE CleanInv
    OBVIOUS
<1>1. CleanupRows /\ CleanupLapsed
  <2>1. CleanupVerdict = [i \in Stages |-> "none"]
      BY DEF Init, CleanupVerdict
  <2> QED
      BY <2>1 DEF Init, CleanupRows, CleanupLapsed, Settled, Terminal
<1>2. \A c \in Coordinators : pc[c] = "idle" /\ tick[c] = NoTick
    BY DEF Init
<1> QED
    BY <1>1, <1>2, NoTickIsTidy DEF CleanInv

(* What the rows and the copies say of the cleanups is true of the         *)
(* attempts they name, in every state.                                     *)
THEOREM CleanupsAreKnown == Spec => [](IndInv /\ CleanInv)
<1>1. Init => IndInv /\ CleanInv
    BY IndInvInit, CleanInvInit
<1>2. IndInv /\ CleanInv /\ [Next]_vars => (IndInv /\ CleanInv)'
    BY IndInvNext, CleanInvNext
<1> QED
    BY <1>1, <1>2, PTL DEF Spec

(* Only the creation of a cleanup counts an attempt. *)
LEMMA OnlyCreationCounts ==
    ASSUME IndInv, [Next]_vars, attempts' # attempts
    PROVE  \E c \in Coordinators : /\ pc[c] = "clean" /\ Owns(c)
                                   /\ LET i == NextCleanup(tick[c])
                                      IN  /\ cleanup_status[i] = "pending"
                                          /\ attempts' = [attempts EXCEPT ![i] = @ + 1]
<1>1. ASSUME NEW c \in Coordinators, CreatePipelineCleanupOperation(c)
      PROVE  /\ pc[c] = "clean" /\ Owns(c)
             /\ LET i == NextCleanup(tick[c])
                IN  /\ cleanup_status[i] = "pending"
                    /\ attempts' = [attempts EXCEPT ![i] = @ + 1]
    BY <1>1 DEF CreatePipelineCleanupOperation
<1>2. ASSUME NEW c \in Coordinators, ClaimPipelineRun(c) \/ Tick(c) \/ Crash(c) \/ Abandon(c),
             ~CreatePipelineCleanupOperation(c)
      PROVE  FALSE
  <2> USE DEF ops, swept
  <2>1. CASE Plain(c)
      BY <2>1, PlainLeavesAlone DEF Untouched, CleanupsStand
  <2>2. CASE ClaimPipelineRun(c) \/ Crash(c) \/ Abandon(c) \/ GetPipelineRun(c) \/ ReleasePipelineRun(c)
      BY <2>2 DEF ClaimPipelineRun, Crash, Abandon, GetPipelineRun, ReleasePipelineRun
  <2>3. CASE SkipPipelineRunStageCleanup(c) \/ CleanupGet(c) \/ CleanupSync(c) \/ Recover(c)
      BY <2>3 DEF SkipPipelineRunStageCleanup, CleanupGet, CleanupSync, Recover
  <2> QED
      BY <1>2, <2>1, <2>2, <2>3 DEF Tick, Plain
<1>3. ~ \E i \in Stages : \/ OperationRuns(i) \/ OperationSettles(i) \/ OperationExpires(i) \/ OperationRevives(i)
                          \/ CleanupRuns(i) \/ CleanupExpires(i) \/ CleanupRevives(i)
    BY DEF OperationRuns, OperationSettles, OperationExpires, OperationRevives,
           CleanupRuns, CleanupExpires, CleanupRevives
<1>4. ~ (LeaseLapses \/ RequestPipelineRunCancel \/ RequestExperimentCancel
         \/ StartExperimentTraffic \/ RetryExperimentCleanup)
    BY DEF LeaseLapses, RequestPipelineRunCancel, RequestExperimentCancel, StartExperimentTraffic,
           RetryExperimentCleanup, ops
<1>5. ~ UNCHANGED vars
    BY DEF vars, ops, swept
<1> QED
    BY <1>1, <1>2, <1>3, <1>4, <1>5 DEF Next

(* CleanupInOrder, for every pipeline and any number of coordinators,      *)
(* stalls, crashes, failing calls, retries and workers that outlive their  *)
(* lease: a cleanup is created only when every stage operation is over or  *)
(* was declared so, no other cleanup is active, and what has to be cleaned *)
(* up earlier is done with.                                                *)
THEOREM CleanupsStartInOrder == Spec => CleanupInOrder
<1> DEFINE Step == \A i \in Stages : attempts'[i] # attempts[i] =>
                     \A j \in Stages :
                        /\ OperationOver(j)
                        /\ CleanupOver(j)
                        /\ CleanedBefore(Kind, j, i) =>
                              \/ cleanup_status[j] = "skipped"
                              \/ cleanup_operation[j] # 0 /\ CleanupOver(j)
<1>1. IndInv /\ CleanInv /\ [Next]_vars => Step
  <2> SUFFICES ASSUME IndInv, CleanInv, [Next]_vars, NEW i \in Stages, attempts'[i] # attempts[i], NEW j \in Stages
               PROVE  /\ OperationOver(j)
                      /\ CleanupOver(j)
                      /\ CleanedBefore(Kind, j, i) => Clean(cleanup_status, cleanup_operation, CleanupVerdict, j)
      BY DEF Clean
  <2>1. PICK c \in Coordinators : /\ pc[c] = "clean" /\ Owns(c)
                                  /\ cleanup_status[NextCleanup(tick[c])] = "pending"
                                  /\ attempts' = [attempts EXCEPT ![NextCleanup(tick[c])] = @ + 1]
      BY OnlyCreationCounts
  <2>2. i = NextCleanup(tick[c])
      BY <2>1 DEF IndInv, TypeOK
  <2>3. /\ OperationOver(j) /\ Settled(CleanupVerdict[j])
        /\ CleanedBefore(Kind, j, i) => Clean(cleanup_status, cleanup_operation, CleanupVerdict, j)
      BY <2>1, <2>2, CreatesInOrder
  <2> QED
      BY <2>3, CleanupVerdictReads DEF IndInv
<1> HIDE DEF Step
<1>2. Spec => [][Step]_vars
    BY <1>1, CleanupsAreKnown, PTL DEF Spec
<1> QED
    BY <1>2, PTL DEF CleanupInOrder, Step

-----------------------------------------------------------------------------
(* The rows of a run that is over.  Two things take their truth away, and  *)
(* are left out here: a tick that outlives its lease, and an error that    *)
(* fails the run in the middle of its cleanup.                             *)
Undisturbed == MaxStalls = 0 /\ Failures \subseteq {"operation", "result"}

(* Only the coordinator of the lease works, and the lease holds. *)
Alone == \A c \in Coordinators : pc[c] # "idle" => lease_owner = c /\ lease_until = "valid"

(* What a row may say of the operation of each stage: its status, or that  *)
(* it failed once its lease ran out.                                       *)
Words == [i \in Stages |-> {operation[i]} \union (IF i \in expired THEN {"failed"} ELSE {})]

(* Cleanups come after the operations, and only a stage without effect on  *)
(* record is skipped, unless its lease ran out.                            *)
CleanupsLate ==
    \A i \in Stages :
        /\ cleanup_status[i] # "pending" =>
              Verdict[i] \in Terminal \/ (operation[i] = "none" /\ terminal_status # "")
        /\ cleanup_status[i] = "skipped" => i \notin ran \ expired
        /\ attempts[i] # 0 \/ i \in ran => operation[i] # "none"

(* The stage rows st of the stages S are final and say what op lets them. *)
Told(st, op, S) == \A i \in S : st[i] \in Terminal /\ st[i] \in op[i]

(* The rows of a run that is over. *)
RowsAreTold == (status \in Terminal => Told(stage, Words, Started)) /\ CleanedBeforeFinal

(* The copy of the cleanup rows is the rows. *)
Fresh(row, u) == u.recovered = {} /\ \A i \in Stages : u.cleanup[i] = row[i]

(* What the copy calls succeeded is so. *)
Backed(st, op, u) == \A i \in Stages : u.stage[i] = "succeeded" => st[i] = "succeeded" /\ "succeeded" \in op[i]

(* A drain has written the rows of what it has seen stopped. *)
Drains(st, op, u) ==
    /\ u.then \in {"terminal", "sequential", "begin"}
    /\ u.then = "sequential" => ~CleanupAfterRun
    /\ u.then = "terminal" => u.terminal # ""
    /\ u.stopped /\ u.then # "begin" => Told(st, op, u.started \ u.left)

(* A walk over the cleanups has left out only what is complete. *)
Cleans(st, row, op, u) ==
    /\ CleanupAfterRun /\ u.recovered = {} /\ Told(st, op, u.started)
    /\ u.terminal = "" => \A i \in Stages : u.stage[i] = "succeeded"
    /\ \A i \in u.left : u.cleanup[i] = row[i]
    /\ \A i \in Stages \ u.left : row[i] \in CleanupComplete
    /\ \A i \in Stages : row[i] \in {"failed", "canceled"} => u.cleanup[i] = row[i]

(* A walk over the failed cleanups knows those that are still failed. *)
Rechecks(st, row, op, u) ==
    /\ CleanupAfterRun /\ Told(st, op, u.started)
    /\ \A i \in Stages : row[i] \in CleanupComplete
    /\ \A i \in Stages : row[i] \in {"failed", "canceled"} => u.cleanup[i] = row[i]
    /\ \A i \in u.recovered : row[i] = "succeeded"

(* What a tick u at step to knows of the rows. *)
Truthful(st, row, op, to, u) ==
    /\ to \in {"sync get", "sync set", "start"} => Backed(st, op, u)
    /\ to \in {"sync get", "sync set", "start", "fail stage"} \union Stopping => Fresh(row, u)
    /\ to \in Stopping => Drains(st, op, u)
    /\ to = "stop sync" /\ u.seen \in Terminal => u.seen \in op[Current(u)]
    /\ to \in {"clean", "clean sync"} => Cleans(st, row, op, u) /\ \A i \in u.left : u.cleanup[i] \notin CleanupComplete
    /\ to \in Rechecking => Rechecks(st, row, op, u)
    /\ to = "fail" => Told(st, op, u.started) /\ (CleanupAfterRun => \A i \in Stages : row[i] \in CleanupComplete)
    /\ to = "complete" /\ CleanupAfterRun /\ HasResult => \A i \in Stages : row[i] \in {"succeeded", "skipped"}

TruthInv ==
    /\ Alone /\ CleanupsLate /\ RowsAreTold
    /\ \A c \in Coordinators : Truthful(stage, cleanup_status, Words, pc[c], tick[c])

-----------------------------------------------------------------------------
(* The local control flow: wherever a tick goes, it knows of the rows what *)
(* Truthful asks for there.                                                *)

Tells(c, st, row, op) == \E to, u : Go(c, to, u) /\ Truthful(st, row, op, to, u)

(* A tick that has let go of everything. *)
LEMMA NothingIsTruthful ==
    ASSUME NEW st, NEW row, NEW op, NEW u, NEW to \in {"idle", "read", "release", "begin", "initialize"}
    PROVE  Truthful(st, row, op, to, u)
BY DEF Truthful, Stopping, Rechecking

(* It tells nothing wrong. *)
LEMMA ReleaseTells ==
    ASSUME NEW c, NEW st, NEW row, NEW op, Release(c) \/ Stop(c)
    PROVE  Tells(c, st, row, op)
BY NothingIsTruthful DEF Tells, Release, Stop

(* The walk over the failed cleanups, *)
LEMMA RecheckNextTells ==
    ASSUME NEW c, NEW st, NEW row, NEW op, NEW t, Rechecks(st, row, op, t), RecheckNext(c, t)
    PROVE  Tells(c, st, row, op)
<1> DEFINE failures == {i \in Stages : t.cleanup[i] \in {"failed", "canceled"}} \ t.recovered
<1>1. CASE t.left # {}
  <2>1. Go(c, "recheck", t)
      BY <1>1 DEF RecheckNext
  <2>2. Truthful(st, row, op, "recheck", t)
      BY DEF Truthful, Stopping
  <2> QED
      BY <2>1, <2>2 DEF Tells
<1>2. CASE t.left = {} /\ t.then = "complete" /\ failures = {}
  <2>1. Go(c, "complete", t)
      BY <1>2 DEF RecheckNext
  <2>2. ASSUME NEW i \in Stages PROVE row[i] \in {"succeeded", "skipped"}
    <3>1. row[i] \in {"failed", "canceled"} => i \in t.recovered
        BY <1>2 DEF Rechecks
    <3>2. row[i] \in {"succeeded", "failed", "canceled", "skipped"}
        BY DEF Rechecks, CleanupComplete, Terminal
    <3>3. i \in t.recovered => row[i] = "succeeded"
        BY DEF Rechecks
    <3> QED
        BY <3>1, <3>2, <3>3
  <2>3. Truthful(st, row, op, "complete", t)
      BY <2>2 DEF Truthful, Stopping, Rechecking
  <2> QED
      BY <2>1, <2>3 DEF Tells
<1>3. CASE t.left = {} /\ ~(t.then = "complete" /\ failures = {})
  <2>1. Go(c, "fail", t)
      BY <1>3 DEF RecheckNext
  <2>2. Truthful(st, row, op, "fail", t)
      BY DEF Truthful, Stopping, Rechecking, Rechecks
  <2> QED
      BY <2>1, <2>2 DEF Tells
<1> QED
    BY <1>1, <1>2, <1>3

(* the walk over the cleanups, *)
LEMMA CleanupNextTells ==
    ASSUME NEW c, NEW st, NEW row, NEW op, NEW t \in Ticks, Cleans(st, row, op, t), CleanupNext(c, t)
    PROVE  Tells(c, st, row, op)
<1> DEFINE open == {i \in t.left : t.cleanup[i] \notin CleanupComplete}
           failed == {i \in Stages : t.cleanup[i] = "failed" /\ Kind[i] = "deploy"}
<1>0. \A i \in Stages \ open : row[i] \in CleanupComplete
    BY DEF Cleans
<1>1. CASE open # {}
  <2>1. PICK u : u = [t EXCEPT !.left = open]
      OBVIOUS
  <2>2. /\ u.left = open /\ u.started = t.started /\ u.stage = t.stage /\ u.cleanup = t.cleanup
        /\ u.recovered = t.recovered /\ u.terminal = t.terminal /\ Go(c, "clean", u)
      BY <1>1, <2>1 DEF CleanupNext, Ticks
  <2>3. \A i \in open : i \in t.left /\ t.cleanup[i] \notin CleanupComplete
      OBVIOUS
  <2> HIDE DEF open
  <2>4. Cleans(st, row, op, u) /\ \A i \in u.left : u.cleanup[i] \notin CleanupComplete
      BY <1>0, <2>2, <2>3 DEF Cleans
  <2>5. Truthful(st, row, op, "clean", u)
      BY <2>4 DEF Truthful, Stopping, Rechecking
  <2> QED
      BY <2>2, <2>5 DEF Tells
<1>2. CASE open = {}
  <2>1. PICK u : u = [t EXCEPT !.left = failed]
      OBVIOUS
  <2>2. u.started = t.started /\ u.cleanup = t.cleanup /\ u.recovered = t.recovered /\ RecheckNext(c, u)
      BY <1>2, <2>1 DEF CleanupNext, Ticks
  <2>3. Rechecks(st, row, op, u)
      BY <1>0, <1>2, <2>2 DEF Cleans, Rechecks
  <2> QED
      BY <2>2, <2>3, RecheckNextTells
<1> QED
    BY <1>1, <1>2

(* and a walk over all of them. *)
LEMMA CleanupBeginTells ==
    ASSUME NEW c, NEW st, NEW row, NEW op, NEW u \in Ticks, CleanupAfterRun, Fresh(row, u), u.left = Stages,
           Told(st, op, u.started), u.terminal = "" => \A i \in Stages : u.stage[i] = "succeeded",
           CleanupNext(c, u)
    PROVE  Tells(c, st, row, op)
<1>1. Cleans(st, row, op, u)
    BY DEF Cleans, Fresh
<1> QED
    BY <1>1, CleanupNextTells

(* The drain. *)
LEMMA DrainNextTells ==
    ASSUME NEW c, NEW st, NEW row, NEW op, NEW t \in Ticks, Fresh(row, t), Drains(st, op, t), DrainNext(c, t)
    PROVE  Tells(c, st, row, op)
<1>1. CASE t.left # {}
  <2>1. Go(c, "stop get", t) /\ Truthful(st, row, op, "stop get", t)
      BY <1>1 DEF DrainNext, Truthful, Stopping, Rechecking
  <2> QED
      BY <2>1 DEF Tells
<1>2. CASE t.left = {}
  <2>0. AfterDrain(c, t) /\ (t.stopped /\ t.then # "begin" => Told(st, op, t.started))
      BY <1>2 DEF DrainNext, Drains, Told
  <2>1. CASE t.then = "terminal" /\ ~t.stopped
      BY <2>0, <2>1, ReleaseTells DEF AfterDrain
  <2>2. CASE t.then = "terminal" /\ t.stopped /\ CleanupAfterRun
    <3>1. PICK u : u = [t EXCEPT !.left = Stages]
        OBVIOUS
    <3>2. /\ u \in Ticks /\ u.left = Stages /\ u.started = t.started /\ u.cleanup = t.cleanup
          /\ u.recovered = t.recovered /\ u.terminal = t.terminal /\ CleanupNext(c, u)
        BY <2>0, <2>2, <3>1 DEF AfterDrain, Ticks
    <3>3. Fresh(row, u) /\ Told(st, op, u.started) /\ u.terminal # ""
        BY <2>0, <2>2, <3>2 DEF Fresh, Drains
    <3> QED
        BY <2>2, <3>2, <3>3, CleanupBeginTells
  <2>3. CASE t.then \in {"terminal", "sequential"} /\ t.stopped /\ ~CleanupAfterRun
    <3>1. Go(c, "fail", t)
        BY <2>0, <2>3 DEF AfterDrain
    <3>2. Truthful(st, row, op, "fail", t)
        BY <2>0, <2>3 DEF Truthful, Stopping, Rechecking
    <3> QED
        BY <3>1, <3>2 DEF Tells
  <2>4. CASE t.then = "sequential" /\ ~t.stopped
    <3>1. PICK u : u = [t EXCEPT !.left = t.started, !.stopped = TRUE, !.then = "begin"]
        OBVIOUS
    <3>2. Go(c, "stop get", u)
        BY <2>0, <2>4, <3>1 DEF AfterDrain
    <3>3. u.then = "begin" /\ u.cleanup = t.cleanup /\ u.recovered = t.recovered
        BY <3>1 DEF Ticks
    <3>4. Truthful(st, row, op, "stop get", u)
        BY <3>3 DEF Truthful, Stopping, Rechecking, Drains, Fresh
    <3> QED
        BY <3>2, <3>4 DEF Tells
  <2>5. CASE t.then = "begin"
    <3>1. Go(c, "begin", t)
        BY <2>0, <2>5 DEF AfterDrain
    <3> QED
        BY <3>1, NothingIsTruthful DEF Tells
  <2>6. t.then = "sequential" => ~CleanupAfterRun
      BY DEF Drains
  <2> QED
      BY <2>1, <2>2, <2>3, <2>4, <2>5, <2>6 DEF Drains
<1> QED
    BY <1>1, <1>2

(* The beginning of a drain, *)
LEMMA DrainTells ==
    ASSUME NEW c, NEW st, NEW row, NEW op, NEW t \in Ticks, NEW then \in {"terminal", "sequential", "begin"},
           Fresh(row, t), then = "sequential" => ~CleanupAfterRun, then = "terminal" => t.terminal # "",
           Drain(c, t, then)
    PROVE  Tells(c, st, row, op)
<1>1. PICK u : u = [t EXCEPT !.left = t.started, !.stopped = TRUE, !.then = then]
    OBVIOUS
<1>2. /\ DrainNext(c, u) /\ u \in Ticks /\ u.left = u.started /\ u.then = then /\ u.terminal = t.terminal
      /\ u.cleanup = t.cleanup /\ u.recovered = t.recovered
    BY <1>1 DEF Drain, Ticks
<1>3. Fresh(row, u) /\ Drains(st, op, u)
    BY <1>2 DEF Fresh, Drains, Told
<1> QED
    BY <1>2, <1>3, DrainNextTells

(* of one after which the run ends or goes on ending, *)
LEMMA DeferDrainTells ==
    ASSUME NEW c, NEW st, NEW row, NEW op, NEW t \in Ticks, Fresh(row, t), DeferDrain(c, t)
    PROVE  Tells(c, st, row, op)
<1>1. PICK then \in {"sequential", "begin"} : Drain(c, t, then) /\ (then = "sequential" => ~CleanupAfterRun)
    BY DEF DeferDrain
<1> QED
    BY <1>1, DrainTells

(* a termination, *)
LEMMA DeferTerminationTells ==
    ASSUME NEW c, NEW st, NEW row, NEW op, NEW t \in Ticks, Fresh(row, t),
           NEW position \in Stages \union {0}, NEW outcome \in {"failed", "canceled"},
           DeferTermination(c, t, position, outcome)
    PROVE  Tells(c, st, row, op)
<1>1. PICK u : u = [t EXCEPT !.position = position, !.outcome = outcome]
    OBVIOUS
<1>2. /\ u \in Ticks /\ u.cleanup = t.cleanup /\ u.recovered = t.recovered
      /\ Go(c, "fail stage", u) \/ DeferDrain(c, u)
    BY <1>1 DEF DeferTermination, Ticks
<1>3. Fresh(row, u)
    BY <1>2 DEF Fresh
<1>4. Truthful(st, row, op, "fail stage", u)
    BY <1>3 DEF Truthful, Stopping, Rechecking
<1> QED
    BY <1>2, <1>3, <1>4, DeferDrainTells DEF Tells

(* the end of a tick that has started what it could, *)
LEMMA ConcludeTells ==
    ASSUME NEW c, NEW st, NEW row, NEW op, NEW t \in Ticks, Fresh(row, t), Backed(st, op, t), Conclude(c, t)
    PROVE  Tells(c, st, row, op)
<1>1. CASE \E i \in Stages : t.stage[i] # "succeeded"
    BY <1>1, ReleaseTells DEF Conclude
<1>2. CASE Go(c, "complete", t) /\ ~(HasResult /\ CleanupAfterRun)
  <2>1. Truthful(st, row, op, "complete", t)
      BY <1>2 DEF Truthful, Stopping, Rechecking
  <2> QED
      BY <1>2, <2>1 DEF Tells
<1>3. CASE DeferTermination(c, t, Len(Kind), "failed")
    BY <1>3, LastIsStage, DeferTerminationTells
<1>4. PICK u : u = [t EXCEPT !.left = Stages, !.then = "complete", !.outcome = "failed"]
    OBVIOUS
<1>5. CASE CleanupNext(c, u) /\ CleanupAfterRun /\ \A i \in Stages : t.stage[i] = "succeeded"
  <2>1. /\ u \in Ticks /\ u.left = Stages /\ u.started = t.started /\ u.cleanup = t.cleanup
        /\ u.recovered = t.recovered /\ u.stage = t.stage
      BY <1>4 DEF Ticks
  <2>2. t.started \subseteq Stages
      BY DEF Ticks
  <2>3. Fresh(row, u) /\ Told(st, op, u.started) /\ \A i \in Stages : u.stage[i] = "succeeded"
      BY <1>5, <2>1, <2>2 DEF Fresh, Told, Backed, Terminal
  <2> QED
      BY <1>5, <2>1, <2>3, CleanupBeginTells
<1>6. {HasResult, CleanupAfterRun} \subseteq BOOLEAN
    BY PipelineAssumption
<1> QED
    BY <1>1, <1>2, <1>3, <1>4, <1>5, <1>6 DEF Conclude

(* the walk over the stages to start, *)
LEMMA StartNextTells ==
    ASSUME NEW c, NEW st, NEW row, NEW op, NEW t \in Ticks, Fresh(row, t), Backed(st, op, t), StartNext(c, t)
    PROVE  Tells(c, st, row, op)
<1>1. CASE t.left # {}
  <2>1. Go(c, "start", t) /\ Truthful(st, row, op, "start", t)
      BY <1>1 DEF StartNext, Truthful, Stopping, Rechecking
  <2> QED
      BY <2>1 DEF Tells
<1>2. CASE t.left = {}
    BY <1>2, ConcludeTells DEF StartNext
<1> QED
    BY <1>1, <1>2

(* and the walk over the stages to sync. *)
LEMMA SyncNextTells ==
    ASSUME NEW c, NEW st, NEW row, NEW op, NEW t \in Ticks, Fresh(row, t), Backed(st, op, t), SyncNext(c, t)
    PROVE  Tells(c, st, row, op)
<1>1. CASE t.left # {}
  <2>1. Go(c, "sync get", t) /\ Truthful(st, row, op, "sync get", t)
      BY <1>1 DEF SyncNext, Truthful, Stopping, Rechecking
  <2> QED
      BY <2>1 DEF Tells
<1>2. CASE t.left = {}
  <2>1. Decide(c, t)
      BY <1>2 DEF SyncNext
  <2>2. PICK ready : ready = readyPipelineStages(DependsOn, MaxParallelStages, t.stage, t.started)
      OBVIOUS
  <2>3. ready \subseteq Stages
    <3>1. t.stage \in [Stages -> (OpStatuses \ {"none"}) \union {"pending"}] /\ t.started \in SUBSET Stages
        BY DEF Ticks
    <3> QED
        BY <2>2, <3>1, ReadyFits
  <2>4. \/ DeferTermination(c, t, 0, "canceled")
        \/ \E S \in SUBSET Stages : StartNext(c, [t EXCEPT !.left = S])
        \/ Release(c)
        \/ Go(c, "initialize", t)
    <3>1. {i \in ready : i < Gate} \in SUBSET Stages
        BY <2>3
    <3> QED
        BY <2>1, <2>2, <2>3, <3>1 DEF Decide
  <2>5. ASSUME NEW S \in SUBSET Stages, StartNext(c, [t EXCEPT !.left = S]) PROVE Tells(c, st, row, op)
    <3>1. PICK u : u = [t EXCEPT !.left = S]
        OBVIOUS
    <3>2. u \in Ticks /\ u.cleanup = t.cleanup /\ u.recovered = t.recovered /\ u.stage = t.stage
        BY <3>1 DEF Ticks
    <3>3. Fresh(row, u) /\ Backed(st, op, u)
        BY <3>2 DEF Fresh, Backed
    <3> QED
        BY <2>5, <3>1, <3>2, <3>3, StartNextTells
  <2>6. CASE DeferTermination(c, t, 0, "canceled")
      BY <2>6, DeferTerminationTells
  <2>7. CASE Go(c, "initialize", t)
      BY <2>7, NothingIsTruthful DEF Tells
  <2> QED
      BY <2>4, <2>5, <2>6, <2>7, ReleaseTells
<1> QED
    BY <1>1, <1>2
-----------------------------------------------------------------------------
(* What a step leaves true of the rows.                                    *)

(* A coordinator in the middle of a tick owns the run, and no other is. *)
LEMMA OwnsAlone ==
    ASSUME IndInv, Alone, NEW c \in Coordinators, pc[c] # "idle"
    PROVE  /\ Owns(c) /\ lease_owner = c /\ lease_until = "valid" /\ status = "running"
           /\ \A d \in Coordinators \ {c} : pc[d] = "idle"
<1>1. lease_owner = c /\ lease_until = "valid"
    BY DEF Alone
<1>2. status = "running"
    BY <1>1, PipelineAssumption DEF IndInv, Sound, Leased
<1>3. \A d \in Coordinators \ {c} : pc[d] = "idle"
    BY <1>1 DEF Alone
<1> QED
    BY <1>1, <1>2, <1>3 DEF Owns

(* A run that is over is nobody's. *)
LEMMA OverIsIdle ==
    ASSUME IndInv, Alone, status # "running"
    PROVE  \A c \in Coordinators : pc[c] = "idle"
BY OwnsAlone

(* The step of a coordinator that keeps its lease. *)
LEMMA TruthTick ==
    ASSUME IndInv, TruthInv, NEW c \in Coordinators, pc[c] # "idle",
           Tells(c, stage', cleanup_status', Words'), UNCHANGED <<status, lease>>, CleanupsLate'
    PROVE  TruthInv'
<1>1. /\ lease_owner = c /\ lease_until = "valid" /\ status = "running"
      /\ \A d \in Coordinators \ {c} : pc[d] = "idle"
    BY OwnsAlone DEF TruthInv
<1>2. PICK to, u : Go(c, to, u) /\ Truthful(stage', cleanup_status', Words', to, u)
    BY DEF Tells
<1>3. /\ pc'[c] = to /\ tick'[c] = u
      /\ \A d \in Coordinators \ {c} : pc'[d] = pc[d] /\ tick'[d] = tick[d]
    BY <1>2 DEF Go, IndInv, TypeOK
<1>4. Alone'
    BY <1>1, <1>3 DEF Alone, lease
<1>5. RowsAreTold'
    BY <1>1 DEF RowsAreTold, CleanedBeforeFinal, Terminal
<1>6. \A d \in Coordinators : Truthful(stage', cleanup_status', Words', pc'[d], tick'[d])
    BY <1>1, <1>2, <1>3, NothingIsTruthful
<1> QED
    BY <1>4, <1>5, <1>6 DEF TruthInv

(* A store call that writes stage rows at most. *)
LEMMA TruthQuiet ==
    ASSUME IndInv, TruthInv, NEW c \in Coordinators, pc[c] # "idle",
           Tells(c, stage', cleanup_status, Words), UNCHANGED <<status, lease, cleanup_status, ops>>,
           terminal_status # "" => terminal_status' # ""
    PROVE  TruthInv'
<1>0. Words' = Words /\ Verdict' = Verdict
    BY DEF Words, Verdict, ops, swept
<1>1. CleanupsLate'
    BY <1>0 DEF TruthInv, CleanupsLate, ops, swept
<1>2. Tells(c, stage', cleanup_status', Words')
    BY <1>0
<1> QED
    BY <1>1, <1>2, TruthTick

(* What a working coordinator knows of the rows. *)
LEMMA WorkingTruth ==
    ASSUME IndInv, TruthInv, NEW c \in Coordinators, pc[c] \in Working, NEW t, t = tick[c]
    PROVE  /\ pc[c] # "idle" /\ t \in Ticks /\ Local(Verdict, pc[c], t)
           /\ Truthful(stage, cleanup_status, Words, pc[c], t)
           /\ Owns(c) /\ t.terminal = terminal_status /\ t.started = Started
<1>1. pc[c] # "idle"
    BY DEF Working
<1>2. Owns(c) /\ lease_owner = c
    BY <1>1, OwnsAlone DEF TruthInv
<1> QED
    BY <1>1, <1>2, WorkingKnows DEF TruthInv, IndInv, Informed, Own

-----------------------------------------------------------------------------
(* The store calls that read, and those that write stage rows.             *)

(* The run is read. *)
LEMMA ReadTruth ==
    ASSUME IndInv, TruthInv, Undisturbed, NEW c \in Coordinators, GetPipelineRun(c)
    PROVE  TruthInv'
<1>1. PICK t : t = [NoTick EXCEPT
                !.terminal = terminal_status, !.cancel = cancel_requested,
                !.execution = execution_requested, !.initialized = initialized,
                !.stage = stage, !.started = Started,
                !.cleanup = cleanup_status, !.attempt = cleanup_operation]
    OBVIOUS
<1>2. t.cleanup = cleanup_status /\ t.stage = stage /\ t.recovered = {}
    BY <1>1 DEF NoTick
<1>3. t \in Ticks
    BY <1>1, ZenonT(60) DEF NoTick, IndInv, TypeOK, Ticks, Started, OpStatuses
<1>4. Fresh(cleanup_status, t) /\ Backed(stage, Words, t)
    BY <1>2 DEF Fresh, Backed, Words, IndInv, Sound, SucceededRows
<1>5. Tells(c, stage, cleanup_status, Words)
  <2>1. PICK u, v : u = [t EXCEPT !.outcome = t.terminal] /\ v = [t EXCEPT !.left = t.started]
      OBVIOUS
  <2>2. /\ v \in Ticks /\ v.cleanup = t.cleanup /\ v.stage = t.stage /\ v.recovered = t.recovered
        /\ u.cleanup = t.cleanup /\ u.recovered = t.recovered /\ u.terminal = t.terminal
        /\ t.terminal # "" => u \in Ticks
      BY <1>3, <2>1 DEF Ticks
  <2>3. "pipeline" \notin Failures
      BY DEF Undisturbed
  <2>4. (t.terminal # "" /\ Drain(c, u, "terminal")) \/ SyncNext(c, v)
      BY <1>1, <2>1, <2>3 DEF GetPipelineRun
  <2>5. Fresh(cleanup_status, u) /\ Fresh(cleanup_status, v) /\ Backed(stage, Words, v)
      BY <1>4, <2>2 DEF Fresh, Backed
  <2> QED
      BY <2>2, <2>4, <2>5, DrainTells, SyncNextTells
<1>6. pc[c] # "idle" /\ UNCHANGED <<status, lease, stage, cleanup_status, ops, terminal_status>>
    BY DEF GetPipelineRun, run, rows
<1>7. Tells(c, stage', cleanup_status, Words)
    BY <1>5, <1>6
<1> QED
    BY <1>6, <1>7, TruthQuiet

(* The sync loop. *)
LEMMA SyncGetTruth ==
    ASSUME IndInv, TruthInv, NEW c \in Coordinators, SyncGet(c)
    PROVE  TruthInv'
<1>1. PICK t : t = tick[c]
    OBVIOUS
<1>2. pc[c] = "sync get" /\ pc[c] \in Working /\ UNCHANGED <<status, lease, stage, cleanup_status, ops, terminal_status>>
    BY DEF SyncGet, run, rows, Working, PCs
<1>3. /\ pc[c] # "idle" /\ t \in Ticks /\ Local(Verdict, "sync get", t)
      /\ Backed(stage, Words, t) /\ Fresh(cleanup_status, t)
    BY <1>1, <1>2, WorkingTruth DEF Truthful
<1>4. Current(t) \in Stages
  <2>1. t.left # {}
      BY <1>3 DEF Local
  <2> QED
      BY <1>3, <2>1, VisitedIsTick
<1>5. Tells(c, stage, cleanup_status, Words)
  <2>1. PICK u : u = [t EXCEPT !.seen = operation[Current(t)]]
      OBVIOUS
  <2>2. u.cleanup = t.cleanup /\ u.stage = t.stage /\ u.recovered = t.recovered
      BY <1>3, <2>1 DEF Ticks
  <2>3. Truthful(stage, cleanup_status, Words, "sync set", u)
      BY <1>3, <2>2 DEF Truthful, Fresh, Backed, Stopping, Rechecking
  <2>4. Go(c, "sync set", u) \/ DeferTermination(c, t, Current(t), "failed")
      BY <1>1, <2>1 DEF SyncGet
  <2> QED
      BY <1>3, <1>4, <2>3, <2>4, DeferTerminationTells DEF Tells
<1>6. Tells(c, stage', cleanup_status, Words)
    BY <1>2, <1>5
<1> QED
    BY <1>2, <1>3, <1>6, TruthQuiet

(* The row of a stage gets the status that its operation was found with. *)
LEMMA SyncSetTruth ==
    ASSUME IndInv, TruthInv, NEW c \in Coordinators, SyncSet(c)
    PROVE  TruthInv'
<1>1. PICK t : t = tick[c]
    OBVIOUS
<1>2. pc[c] = "sync set" /\ pc[c] \in Working /\ UNCHANGED <<status, lease, cleanup_status, ops, terminal_status>>
    BY DEF SyncSet, run, Working, PCs
<1>3. /\ pc[c] # "idle" /\ t \in Ticks /\ Local(Verdict, "sync set", t)
      /\ Backed(stage, Words, t) /\ Fresh(cleanup_status, t)
    BY <1>1, <1>2, WorkingTruth DEF Truthful
<1>4. PICK i : i = Current(t)
    OBVIOUS
<1>5. i \in Stages /\ Visited(t) \in Ticks /\ Visited(t) = [t EXCEPT !.left = t.left \ {i}]
  <2>1. t.left # {}
      BY <1>3 DEF Local
  <2> QED
      BY <1>3, <1>4, <2>1, VisitedIsTick
<1>6. t.seen \in OpStatuses \ {"none"} /\ (t.seen = "succeeded" => operation[i] = "succeeded")
  <2>1. t.seen \in OpStatuses \ {"none"} /\ (t.seen = "succeeded" => Verdict[i] = "succeeded")
      BY <1>3, <1>4 DEF Local, Heard, Ticks
  <2> QED
      BY <1>5, <2>1, VerdictReads DEF IndInv
<1>7. PICK u : u = [Visited(t) EXCEPT !.stage[i] = t.seen, !.seen = "none"]
    OBVIOUS
<1>8. /\ u \in Ticks /\ u.cleanup = t.cleanup /\ u.recovered = t.recovered
      /\ u.stage = [t.stage EXCEPT ![i] = t.seen]
    BY <1>3, <1>5, <1>6, <1>7 DEF Ticks, OpStatuses
<1>9. stage' = [stage EXCEPT ![i] = t.seen]
    BY <1>1, <1>4 DEF SyncSet
<1>10. Fresh(cleanup_status, u) /\ Backed(stage', Words, u)
  <2>1. stage'[i] = t.seen /\ \A j \in Stages \ {i} : stage'[j] = stage[j]
      BY <1>5, <1>9 DEF IndInv, TypeOK
  <2>2. DOMAIN t.stage = Stages
      BY <1>3 DEF Ticks
  <2>3. u.stage[i] = t.seen /\ \A j \in Stages \ {i} : u.stage[j] = t.stage[j]
      BY <1>5, <1>8, <2>2
  <2>4. t.seen = "succeeded" => "succeeded" \in Words[i]
      BY <1>5, <1>6 DEF Words
  <2> QED
      BY <1>3, <1>8, <2>1, <2>3, <2>4 DEF Fresh, Backed
<1>11. Tells(c, stage', cleanup_status, Words)
  <2>1. (t.seen \in {"failed", "canceled"} /\ DeferTermination(c, u, i, t.seen)) \/ SyncNext(c, u)
      BY <1>1, <1>4, <1>7 DEF SyncSet
  <2> QED
      BY <1>5, <1>8, <1>10, <2>1, DeferTerminationTells, SyncNextTells
<1> QED
    BY <1>2, <1>3, <1>11, TruthQuiet

(* The failure of a stage. *)
LEMMA FailStageTruth ==
    ASSUME IndInv, TruthInv, NEW c \in Coordinators, FailPipelineRunStage(c)
    PROVE  TruthInv'
<1>1. PICK t : t = tick[c]
    OBVIOUS
<1>2. /\ pc[c] = "fail stage" /\ pc[c] \in Working /\ UNCHANGED <<status, lease, cleanup_status, ops, terminal_status>>
      /\ DeferDrain(c, t)
    BY <1>1 DEF FailPipelineRunStage, run, Working, PCs
<1>3. pc[c] # "idle" /\ t \in Ticks /\ Fresh(cleanup_status, t)
    BY <1>1, <1>2, WorkingTruth DEF Truthful
<1>4. Tells(c, stage', cleanup_status, Words)
    BY <1>2, <1>3, DeferDrainTells
<1> QED
    BY <1>2, <1>3, <1>4, TruthQuiet

(* The drain. *)
LEMMA StopGetTruth ==
    ASSUME IndInv, TruthInv, NEW c \in Coordinators, StopGet(c)
    PROVE  TruthInv'
<1>1. PICK t : t = tick[c]
    OBVIOUS
<1>2. pc[c] = "stop get" /\ pc[c] \in Working /\ UNCHANGED <<status, lease, stage, cleanup_status, ops, terminal_status>>
    BY DEF StopGet, run, rows, Working, PCs
<1>3. pc[c] # "idle" /\ t \in Ticks /\ Fresh(cleanup_status, t) /\ Drains(stage, Words, t)
    BY <1>1, <1>2, WorkingTruth DEF Truthful, Stopping
<1>4. PICK u : u = [t EXCEPT !.seen = operation[Current(t)]]
    OBVIOUS
<1>5. /\ Go(c, "stop sync", u) /\ u.cleanup = t.cleanup /\ u.recovered = t.recovered /\ u.left = t.left
      /\ u.started = t.started /\ u.terminal = t.terminal /\ u.then = t.then /\ u.stopped = t.stopped
    BY <1>1, <1>3, <1>4 DEF Ticks, StopGet
<1>8. u.seen \in Words[Current(u)]
  <2>1. Current(u) = Current(t) /\ u.seen = operation[Current(t)]
      BY <1>3, <1>4, <1>5 DEF Current, Ticks
  <2>2. Current(t) \in Stages
    <3>1. t.left # {}
        BY <1>1, <1>2, WorkingTruth DEF Local, Stopping
    <3> QED
        BY <1>3, <3>1, VisitedIsTick
  <2> QED
      BY <2>1, <2>2 DEF Words
<1>6. Truthful(stage, cleanup_status, Words, "stop sync", u)
    BY <1>3, <1>5, <1>8 DEF Truthful, Fresh, Drains, Stopping, Rechecking
<1>7. Tells(c, stage', cleanup_status, Words)
    BY <1>2, <1>5, <1>6 DEF Tells
<1> QED
    BY <1>2, <1>3, <1>7, TruthQuiet

(* So does the row of a stage that is being stopped. *)
LEMMA StopSyncTruth ==
    ASSUME IndInv, TruthInv, NEW c \in Coordinators, StopSync(c)
    PROVE  TruthInv'
<1>1. PICK t : t = tick[c]
    OBVIOUS
<1>2. pc[c] = "stop sync" /\ pc[c] \in Working /\ UNCHANGED <<status, lease, cleanup_status, ops, terminal_status>>
    BY DEF StopSync, run, Working, PCs
<1>3. /\ pc[c] # "idle" /\ t \in Ticks /\ Local(Verdict, "stop sync", t)
      /\ Fresh(cleanup_status, t) /\ Drains(stage, Words, t)
      /\ t.seen \in Terminal => t.seen \in Words[Current(t)]
    BY <1>1, <1>2, WorkingTruth DEF Truthful, Stopping
<1>4. PICK i : i = Current(t)
    OBVIOUS
<1>5. i \in t.left /\ i \in Stages /\ Visited(t) \in Ticks /\ Visited(t) = [t EXCEPT !.left = t.left \ {i}]
  <2>1. t.left # {}
      BY <1>3 DEF Local, Stopping
  <2> QED
      BY <1>3, <1>4, <2>1, VisitedIsTick
<1>6. t.seen \in Terminal => t.seen \in Words[i]
    BY <1>3, <1>4
<1>7. stage'[i] = t.seen /\ \A j \in Stages \ {i} : stage'[j] = stage[j]
    BY <1>1, <1>4, <1>5 DEF StopSync, IndInv, TypeOK
<1>8. CASE t.seen \in Terminal
  <2>1. PICK u : u = [Visited(t) EXCEPT !.seen = "none"]
      OBVIOUS
  <2>2. /\ u \in Ticks /\ u.cleanup = t.cleanup /\ u.recovered = t.recovered /\ u.left = t.left \ {i}
        /\ u.started = t.started /\ u.terminal = t.terminal /\ u.then = t.then /\ u.stopped = t.stopped
      BY <1>3, <1>5, <2>1 DEF Ticks, OpStatuses
  <2>3. t.started \subseteq Stages
      BY <1>3 DEF Ticks
  <2>4. Fresh(cleanup_status, u) /\ Drains(stage', Words, u)
      BY <1>3, <1>6, <1>7, <1>8, <2>2, <2>3, ZenonT(30) DEF Fresh, Drains, Told
  <2>5. DrainNext(c, u)
      BY <1>1, <1>8, <2>1 DEF StopSync
  <2>6. Tells(c, stage', cleanup_status, Words)
      BY <2>2, <2>4, <2>5, DrainNextTells
  <2> QED
      BY <1>2, <1>3, <2>6, TruthQuiet
<1>9. CASE t.seen \notin Terminal
  <2>1. PICK u : u = [t EXCEPT !.seen = "none", !.stopped = FALSE]
      OBVIOUS
  <2>2. /\ u.cleanup = t.cleanup /\ u.recovered = t.recovered
        /\ u.terminal = t.terminal /\ u.then = t.then /\ u.stopped = FALSE
      BY <1>3, <2>1 DEF Ticks
  <2>3. Truthful(stage', cleanup_status, Words, "stop cancel", u)
      BY <1>3, <2>2 DEF Truthful, Fresh, Drains, Stopping, Rechecking
  <2>4. Go(c, "stop cancel", u)
      BY <1>1, <1>9, <2>1 DEF StopSync
  <2>5. Tells(c, stage', cleanup_status, Words)
      BY <2>3, <2>4 DEF Tells
  <2> QED
      BY <1>2, <1>3, <2>5, TruthQuiet
<1> QED
    BY <1>8, <1>9

(* An operation that has not started is cancelled; its row follows later. *)
LEMMA StopCancelTruth ==
    ASSUME IndInv, TruthInv, NEW c \in Coordinators, StopCancel(c)
    PROVE  TruthInv'
<1>1. PICK t : t = tick[c]
    OBVIOUS
<1>2. /\ pc[c] = "stop cancel" /\ pc[c] \in Working
      /\ UNCHANGED <<status, lease, cleanup_status, terminal_status, ran, attempts, expired>>
    BY DEF StopCancel, run, rows, swept, Working, PCs
<1>3. /\ pc[c] # "idle" /\ t \in Ticks /\ Local(Verdict, "stop cancel", t)
      /\ Fresh(cleanup_status, t) /\ Drains(stage, Words, t)
    BY <1>1, <1>2, WorkingTruth DEF Truthful, Stopping
<1>4. PICK i : i = Current(t)
    OBVIOUS
<1>5. i \in Stages /\ Visited(t) \in Ticks /\ Visited(t) = [t EXCEPT !.left = t.left \ {i}] /\ ~t.stopped
  <2>1. t.left # {} /\ ~t.stopped
      BY <1>3 DEF Local, Stopping
  <2> QED
      BY <1>3, <1>4, <2>1, VisitedIsTick
<1>6. PICK u : u = Visited(t)
    OBVIOUS
<1>7. /\ u \in Ticks /\ u.cleanup = t.cleanup /\ u.recovered = t.recovered
      /\ u.terminal = t.terminal /\ u.then = t.then /\ ~u.stopped
    BY <1>3, <1>5, <1>6, ZenonT(30) DEF Ticks
<1>8. Fresh(cleanup_status', u) /\ Drains(stage', Words', u)
    BY <1>2, <1>3, <1>7 DEF Fresh, Drains
<1>9. DrainNext(c, u) /\ operation' = [operation EXCEPT ![i] = IF @ = "queued" THEN "canceled" ELSE @]
    BY <1>1, <1>4, <1>6 DEF StopCancel
<1>10. Tells(c, stage', cleanup_status', Words')
    BY <1>7, <1>8, <1>9, DrainNextTells
<1>11. CleanupsLate'
  <2>1. \A j \in Stages : /\ operation[j] # "none" => operation'[j] # "none"
                          /\ operation[j] # "queued" => operation'[j] = operation[j]
      BY <1>5, <1>9 DEF IndInv, TypeOK
  <2>2. \A j \in Stages : operation[j] # "queued" => Verdict'[j] = Verdict[j]
      BY <1>2, <2>1 DEF Verdict
  <2>3. \A j \in Stages : operation[j] = "queued" => Verdict[j] = "queued"
      BY DEF Verdict
  <2> QED
      BY <1>2, <2>1, <2>2, <2>3 DEF TruthInv, CleanupsLate, Terminal
<1> QED
    BY <1>2, <1>3, <1>10, <1>11, TruthTick

(* The start of a stage. *)
LEMMA StartTruth ==
    ASSUME IndInv, TruthInv, NEW c \in Coordinators, startPipelineStage(c)
    PROVE  TruthInv'
<1>1. PICK t : t = tick[c]
    OBVIOUS
<1>2. /\ pc[c] = "start" /\ pc[c] \in Working
      /\ UNCHANGED <<status, lease, cleanup_status, terminal_status, ran, attempts, cleanup_op, swept>>
    BY DEF startPipelineStage, run, Working, PCs
<1>3. /\ pc[c] # "idle" /\ t \in Ticks /\ Local(Verdict, "start", t)
      /\ Backed(stage, Words, t) /\ Fresh(cleanup_status, t)
      /\ t.terminal = terminal_status /\ t.started = Started
    BY <1>1, <1>2, WorkingTruth DEF Truthful
<1>4. PICK i : i = Current(t)
    OBVIOUS
<1>5. i \in t.left /\ i \in Stages /\ Visited(t) \in Ticks /\ Visited(t) = [t EXCEPT !.left = t.left \ {i}]
  <2>1. t.left # {}
      BY <1>3 DEF Local
  <2> QED
      BY <1>3, <1>4, <2>1, VisitedIsTick
<1>6. CASE DeferTermination(c, t, i, "failed") /\ UNCHANGED <<operation, stage>>
  <2>1. Tells(c, stage', cleanup_status, Words)
      BY <1>3, <1>5, <1>6, DeferTerminationTells
  <2> QED
      BY <1>2, <1>3, <1>6, <2>1, TruthQuiet DEF ops, swept
<1>7. CASE ~(DeferTermination(c, t, i, "failed") /\ UNCHANGED <<operation, stage>>)
  <2>1. PICK u : u = [Visited(t) EXCEPT !.stage[i] = "queued", !.started = @ \union {i}]
      OBVIOUS
  <2>2. /\ operation' = [operation EXCEPT ![i] = "queued"]
        /\ stage' = [stage EXCEPT ![i] = "queued"]
        /\ StartNext(c, u)
      BY <1>1, <1>4, <1>7, <2>1 DEF startPipelineStage
  <2>3. /\ u \in Ticks /\ u.cleanup = t.cleanup /\ u.recovered = t.recovered
        /\ u.stage = [t.stage EXCEPT ![i] = "queued"]
      BY <1>3, <1>5, <2>1, ZenonT(30) DEF Ticks, OpStatuses
  <2>4. /\ stage'[i] = "queued" /\ operation'[i] = "queued"
        /\ \A j \in Stages \ {i} : stage'[j] = stage[j] /\ operation'[j] = operation[j]
      BY <1>5, <2>2 DEF IndInv, TypeOK
  <2>5. DOMAIN t.stage = Stages
      BY <1>3 DEF Ticks
  <2>6. u.stage[i] = "queued" /\ \A j \in Stages \ {i} : u.stage[j] = t.stage[j]
      BY <1>5, <2>3, <2>5
  <2>11. \A j \in Stages \ {i} : Words'[j] = Words[j] /\ Verdict'[j] = Verdict[j]
      BY <1>2, <2>4 DEF Words, Verdict, swept
  <2>7. Fresh(cleanup_status', u) /\ Backed(stage', Words', u)
      BY <1>2, <1>3, <2>3, <2>4, <2>6, <2>11 DEF Fresh, Backed
  <2>8. Tells(c, stage', cleanup_status', Words')
      BY <2>2, <2>3, <2>7, StartNextTells
  <2>9. cleanup_status[i] = "pending"
    <3>1. operation[i] = "none" /\ Verdict[i] = "none"
        BY <1>3, <1>5, VerdictReads DEF Local, Chosen, Started, IndInv
    <3>2. terminal_status = ""
        BY <1>3 DEF Local, Reporting, Deciding
    <3> QED
        BY <1>5, <3>1, <3>2 DEF TruthInv, CleanupsLate, Terminal
  <2>10. CleanupsLate'
    <3> SUFFICES ASSUME NEW j \in Stages
                 PROVE  /\ cleanup_status[j] # "pending" =>
                              Verdict'[j] \in Terminal \/ (operation'[j] = "none" /\ terminal_status # "")
                        /\ cleanup_status[j] = "skipped" => j \notin ran \ expired
                        /\ attempts[j] # 0 \/ j \in ran => operation'[j] # "none"
        BY <1>2 DEF CleanupsLate, swept
    <3>1. CASE j = i
        BY <2>4, <2>9, <3>1
    <3>2. CASE j # i
        BY <2>4, <2>11, <3>2 DEF TruthInv, CleanupsLate
    <3> QED
        BY <3>1, <3>2
  <2> QED
      BY <1>2, <1>3, <2>8, <2>10, TruthTick
<1> QED
    BY <1>6, <1>7

(* The gate, and the decision on an outcome. *)
LEMMA BeginTruth ==
    ASSUME IndInv, TruthInv, NEW c \in Coordinators, MarkPipelineInitialized(c) \/ BeginPipelineRunTermination(c)
    PROVE  TruthInv'
<1>1. /\ pc[c] # "idle" /\ Release(c)
      /\ UNCHANGED <<status, lease, stage, cleanup_status, ops>>
    BY DEF MarkPipelineInitialized, BeginPipelineRunTermination, rows
<1>2. terminal_status # "" => terminal_status' # ""
    BY DEF MarkPipelineInitialized, BeginPipelineRunTermination, IndInv, TypeOK, Ticks
<1>3. Tells(c, stage', cleanup_status, Words)
    BY <1>1, ReleaseTells
<1> QED
    BY <1>1, <1>2, <1>3, TruthQuiet

-----------------------------------------------------------------------------
(* The store calls that end a tick or a run.                               *)

(* A step after which nobody works, or only the coordinator c begins. *)
LEMMA TruthIdle ==
    ASSUME IndInv, TruthInv, NEW c \in Coordinators, NEW to \in {"idle", "read"}, Go(c, to, NoTick),
           \A d \in Coordinators \ {c} : pc[d] = "idle",
           to = "read" => lease_owner' = c /\ lease_until' = "valid",
           UNCHANGED <<terminal_status, rows, ops>>, RowsAreTold'
    PROVE  TruthInv'
<1>1. /\ pc'[c] = to /\ \A d \in Coordinators \ {c} : pc'[d] = "idle"
    BY DEF Go, IndInv, TypeOK
<1>2. Alone'
    BY <1>1 DEF Alone
<1>0. Verdict' = Verdict
    BY DEF Verdict, ops, swept
<1>3. CleanupsLate'
    BY <1>0 DEF TruthInv, CleanupsLate, rows, ops, swept
<1>4. \A d \in Coordinators : Truthful(stage', cleanup_status', Words', pc'[d], tick'[d])
    BY <1>1, NothingIsTruthful
<1> QED
    BY <1>2, <1>3, <1>4 DEF TruthInv

(* The run is ended: the rows tell the truth. *)
LEMMA FailRunTruth ==
    ASSUME IndInv, CleanInv, TruthInv, NEW c \in Coordinators, FailPipelineRun(c)
    PROVE  TruthInv'
<1>1. PICK t : t = tick[c]
    OBVIOUS
<1>2. pc[c] = "fail" /\ pc[c] \in Working /\ UNCHANGED <<terminal_status, rows, ops>>
    BY DEF FailPipelineRun, Working, PCs
<1>3. /\ pc[c] # "idle" /\ t \in Ticks /\ Owns(c) /\ t.started = Started
      /\ Told(stage, Words, t.started) /\ (CleanupAfterRun => \A i \in Stages : cleanup_status[i] \in CleanupComplete)
    BY <1>1, <1>2, WorkingTruth DEF Truthful
<1>4. status' = t.outcome /\ Stop(c) /\ t.outcome \in {"failed", "canceled"}
    BY <1>1, <1>3 DEF FailPipelineRun, Owns, Ticks
<1>5. \A d \in Coordinators \ {c} : pc[d] = "idle"
    BY <1>3, OwnsAlone DEF TruthInv
<1>6. RowsAreTold'
  <2>1. Told(stage', Words', Started')
    <3>1. Words' = Words /\ Started' = Started /\ stage' = stage
        BY <1>2 DEF Words, Started, rows, ops, swept
    <3> QED
        BY <1>3, <3>1
  <2>2. ASSUME CleanupAfterRun, NEW i \in ran \ expired
        PROVE  cleanup_status[i] \in Terminal /\ CleanupOver(i)
    <3>1. i \in Stages /\ cleanup_status[i] # "skipped"
        BY <2>2, PipelineAssumption DEF TruthInv, CleanupsLate, IndInv, TypeOK
    <3>2. cleanup_status[i] \in Terminal
        BY <1>3, <2>2, <3>1 DEF CleanupComplete
    <3>3. Settled(CleanupVerdict[i])
        BY <3>1, <3>2 DEF CleanInv, CleanupRows, Settled
    <3> QED
        BY <3>1, <3>2, <3>3, CleanupVerdictReads DEF IndInv
  <2>3. CleanedBeforeFinal'
      BY <1>2, <1>4, <2>2 DEF CleanedBeforeFinal, CleanupOver, rows, ops, swept
  <2> QED
      BY <2>1, <2>3 DEF RowsAreTold
<1> QED
    BY <1>2, <1>4, <1>5, <1>6, TruthIdle DEF Stop

(* The run is completed. *)
LEMMA CompleteTruth ==
    ASSUME IndInv, CleanInv, TruthInv, NEW c \in Coordinators, CompletePipelineRun(c)
    PROVE  TruthInv'
<1>1. PICK t : t = tick[c]
    OBVIOUS
<1>2. pc[c] = "complete" /\ pc[c] \in Working /\ UNCHANGED <<terminal_status, rows, ops>>
    BY DEF CompletePipelineRun, Working, PCs
<1>3. /\ pc[c] # "idle" /\ Owns(c)
      /\ CleanupAfterRun /\ HasResult => \A i \in Stages : cleanup_status[i] \in {"succeeded", "skipped"}
    BY <1>1, <1>2, WorkingTruth DEF Truthful
<1>4. CASE \A i \in Stages : stage[i] = "succeeded"
  <2>1. status' = "succeeded" /\ Stop(c)
      BY <1>3, <1>4 DEF CompletePipelineRun, Owns
  <2>2. \A d \in Coordinators \ {c} : pc[d] = "idle"
      BY <1>3, OwnsAlone DEF TruthInv
  <2>3. Told(stage', Words', Started')
    <3>1. Words' = Words /\ Started' = Started /\ stage' = stage
        BY <1>2 DEF Words, Started, rows, ops, swept
    <3>2. \A i \in Stages : "succeeded" \in Words[i]
        BY <1>4 DEF Words, IndInv, Sound, SucceededRows
    <3> QED
        BY <1>4, <3>1, <3>2 DEF Told, Started, Terminal
  <2>4. ASSUME CleanupAfterRun, HasResult, NEW i \in ran \ expired
        PROVE  cleanup_status[i] = "succeeded" /\ CleanupOver(i)
    <3>1. i \in Stages /\ cleanup_status[i] # "skipped"
        BY <2>4, PipelineAssumption DEF TruthInv, CleanupsLate, IndInv, TypeOK
    <3>2. cleanup_status[i] = "succeeded"
        BY <1>3, <2>4, <3>1
    <3>3. Settled(CleanupVerdict[i])
        BY <3>1, <3>2 DEF CleanInv, CleanupRows, Settled, Terminal
    <3> QED
        BY <3>1, <3>2, <3>3, CleanupVerdictReads DEF IndInv
  <2>5. CleanedBeforeFinal'
    <3>1. \A i \in ran \ expired : cleanup_status[i] = "succeeded" => cleanup_status[i] \in Terminal
        BY DEF Terminal
    <3> QED
        BY <1>2, <2>1, <2>4, <3>1 DEF CleanedBeforeFinal, CleanupOver, rows, ops, swept
  <2>6. RowsAreTold'
      BY <2>3, <2>5 DEF RowsAreTold
  <2> QED
      BY <1>2, <2>1, <2>2, <2>6, TruthIdle DEF Stop
<1>5. CASE ~ \A i \in Stages : stage[i] = "succeeded"
  <2>1. Release(c) /\ UNCHANGED <<status, lease>>
      BY <1>5 DEF CompletePipelineRun
  <2>2. Tells(c, stage', cleanup_status, Words)
      BY <2>1, ReleaseTells
  <2> QED
      BY <1>2, <1>3, <2>1, <2>2, TruthQuiet DEF rows
<1> QED
    BY <1>4, <1>5

(* A tick begins, is given up or ends. *)
LEMMA AroundTruth ==
    ASSUME IndInv, TruthInv, NEW c \in Coordinators,
           ClaimPipelineRun(c) \/ ReleasePipelineRun(c) \/ Crash(c) \/ Abandon(c)
    PROVE  TruthInv'
<1>1. CASE ClaimPipelineRun(c)
  <2>1. /\ Go(c, "read", NoTick) /\ lease_until # "valid" /\ lease_owner' = c /\ lease_until' = "valid"
        /\ UNCHANGED <<terminal_status, rows, ops>> /\ status' = "running"
      BY <1>1 DEF ClaimPipelineRun
  <2>2. \A d \in Coordinators : pc[d] = "idle"
      BY <2>1 DEF TruthInv, Alone
  <2>3. RowsAreTold'
      BY <2>1 DEF RowsAreTold, CleanedBeforeFinal, Terminal
  <2> QED
      BY <2>1, <2>2, <2>3, TruthIdle
<1>2. CASE ReleasePipelineRun(c) \/ Crash(c)
  <2>1. pc[c] # "idle" /\ Go(c, "idle", NoTick) /\ UNCHANGED <<terminal_status, rows, ops, status>>
      BY <1>2 DEF ReleasePipelineRun, Crash, Stop, run
  <2>2. status = "running" /\ \A d \in Coordinators \ {c} : pc[d] = "idle"
      BY <2>1, OwnsAlone DEF TruthInv
  <2>3. RowsAreTold'
      BY <2>1, <2>2 DEF RowsAreTold, CleanedBeforeFinal, Terminal
  <2> QED
      BY <2>1, <2>2, <2>3, TruthIdle
<1>3. CASE Abandon(c)
  <2>1. pc[c] # "idle" /\ Release(c) /\ UNCHANGED <<status, terminal_status, lease, stage, cleanup_status, ops>>
      BY <1>3 DEF Abandon, run, rows
  <2>2. Tells(c, stage', cleanup_status, Words)
      BY <2>1, ReleaseTells
  <2> QED
      BY <2>1, <2>2, TruthQuiet
<1> QED
    BY <1>1, <1>2, <1>3
-----------------------------------------------------------------------------
(* The steps of the cleanup.                                               *)

(* What the coordinator knows of the cleanup it turns to. *)
Cleaning(c, t, i) ==
    /\ pc[c] # "idle" /\ t \in Ticks /\ i \in t.left /\ i \in Stages /\ Owns(c)
    /\ Cleans(stage, cleanup_status, Words, t) /\ \A j \in t.left : t.cleanup[j] \notin CleanupComplete
    /\ t.started = Started /\ Told(stage, Words, t.started) /\ Ended(Verdict, t.started)
    /\ cleanup_operation[i] = t.attempt[i]
    /\ t.attempt[i] = 0 => cleanup_status[i] = "pending"
    /\ i \notin t.started => t.attempt[i] = 0 /\ terminal_status # ""

(* It does know it. *)
LEMMA CleaningTruth ==
    ASSUME IndInv, CleanInv, TruthInv, NEW c \in Coordinators, pc[c] \in {"clean", "clean sync"},
           NEW t, t = tick[c], NEW i, i = NextCleanup(t)
    PROVE  Cleaning(c, t, i)
<1>1. pc[c] \in Working
    BY DEF Working, PCs
<1>2. /\ pc[c] # "idle" /\ t \in Ticks /\ Owns(c) /\ Local(Verdict, pc[c], t)
      /\ Truthful(stage, cleanup_status, Words, pc[c], t)
      /\ t.terminal = terminal_status /\ t.started = Started
    BY <1>1, WorkingTruth
<1>3. i \in t.left /\ i \in Stages
    BY CleansStage
<1>4. Cleans(stage, cleanup_status, Words, t) /\ \A j \in t.left : t.cleanup[j] \notin CleanupComplete
    BY <1>2 DEF Truthful
<1>5. Ended(Verdict, t.started)
    BY <1>2 DEF Local, Ending
<1>6. \A j \in Stages : t.attempt[j] = cleanup_operation[j]
    BY <1>1, <1>2 DEF CleanInv, Orderly, Owns
<1>7. cleanup_status[i] = t.cleanup[i] /\ Told(stage, Words, t.started)
    BY <1>3, <1>4 DEF Cleans
<1>8. t.attempt[i] = 0 => cleanup_status[i] = "pending"
  <2>1. t.attempt[i] = 0 => t.cleanup[i] \in {"pending", "skipped"}
      BY <1>3 DEF CleanInv, Tidy, Recalls
  <2> QED
      BY <1>3, <1>4, <1>7, <2>1 DEF CleanupComplete
<1>9. ASSUME i \notin t.started PROVE t.attempt[i] = 0 /\ terminal_status # ""
  <2>1. operation[i] = "none"
      BY <1>2, <1>3, <1>9 DEF Started
  <2>2. attempts[i] = 0
      BY <1>3, <2>1 DEF TruthInv, CleanupsLate
  <2>3. t.attempt[i] = 0
      BY <1>3, <1>6, <2>2 DEF CleanInv, CleanupRows
  <2>4. t.terminal # ""
    <3>1. Verdict[i] # "succeeded"
        BY <1>3, <2>1, VerdictReads DEF IndInv
    <3> QED
        BY <1>2, <1>3, <1>4, <3>1 DEF Cleans, Local, Copied
  <2> QED
      BY <1>2, <2>3, <2>4
<1> QED
    BY <1>2, <1>3, <1>4, <1>5, <1>6, <1>7, <1>8, <1>9 DEF Cleaning

(* The status of a cleanup is read. *)
LEMMA CleanupGetTruth ==
    ASSUME IndInv, CleanInv, TruthInv, NEW c \in Coordinators, CleanupGet(c)
    PROVE  TruthInv'
<1>1. PICK t : t = tick[c]
    OBVIOUS
<1>2. PICK i : i = NextCleanup(t)
    OBVIOUS
<1>3. pc[c] = "clean" /\ UNCHANGED <<status, terminal_status, lease, stage, cleanup_status, ops>>
    BY DEF CleanupGet, run, rows
<1>4. /\ pc[c] # "idle" /\ t \in Ticks
      /\ Cleans(stage, cleanup_status, Words, t) /\ \A j \in t.left : t.cleanup[j] \notin CleanupComplete
  <2>1. Cleaning(c, t, i)
      BY <1>1, <1>2, <1>3, CleaningTruth
  <2> QED
      BY <2>1 DEF Cleaning
<1>5. PICK seen : Go(c, "clean sync", [t EXCEPT !.seen = seen])
    BY <1>1 DEF CleanupGet
<1>6. PICK u : u = [t EXCEPT !.seen = seen]
    OBVIOUS
<1>7. /\ u.left = t.left /\ u.started = t.started /\ u.stage = t.stage /\ u.cleanup = t.cleanup
      /\ u.recovered = t.recovered /\ u.terminal = t.terminal /\ Go(c, "clean sync", u)
    BY <1>4, <1>5, <1>6 DEF Ticks
<1>8. Cleans(stage, cleanup_status, Words, u) /\ \A j \in u.left : u.cleanup[j] \notin CleanupComplete
    BY <1>4, <1>7 DEF Cleans
<1>9. Truthful(stage, cleanup_status, Words, "clean sync", u)
    BY <1>8 DEF Truthful, Stopping, Rechecking
<1>10. Tells(c, stage', cleanup_status, Words)
    BY <1>3, <1>7, <1>9 DEF Tells
<1> QED
    BY <1>3, <1>4, <1>10, TruthQuiet

(* The row of a cleanup is written, after the operations. *)
LEMMA LateRow ==
    ASSUME IndInv, TruthInv, NEW i \in Stages, NEW s,
           cleanup_status' = [cleanup_status EXCEPT ![i] = s],
           UNCHANGED <<operation, ran, expired, terminal_status>>, \A j \in Stages \ {i} : attempts'[j] = attempts[j],
           \/ cleanup_status[i] # "pending"
           \/ Verdict[i] \in Terminal
           \/ operation[i] = "none" /\ terminal_status # "",
           s = "skipped" => i \notin ran \ expired,
           attempts'[i] = attempts[i] \/ operation[i] # "none"
    PROVE  CleanupsLate'
<1>0. Verdict' = Verdict
    BY DEF Verdict
<1> SUFFICES ASSUME NEW j \in Stages
             PROVE  /\ cleanup_status'[j] # "pending" =>
                          Verdict[j] \in Terminal \/ (operation[j] = "none" /\ terminal_status # "")
                    /\ cleanup_status'[j] = "skipped" => j \notin ran \ expired
                    /\ attempts'[j] # 0 \/ j \in ran => operation[j] # "none"
    BY <1>0 DEF CleanupsLate
<1>1. /\ cleanup_status[j] # "pending" =>
            Verdict[j] \in Terminal \/ (operation[j] = "none" /\ terminal_status # "")
      /\ cleanup_status[j] = "skipped" => j \notin ran \ expired
      /\ attempts[j] # 0 \/ j \in ran => operation[j] # "none"
    BY DEF TruthInv, CleanupsLate
<1>2. cleanup_status'[i] = s /\ (j # i => cleanup_status'[j] = cleanup_status[j])
    BY DEF IndInv, TypeOK
<1>3. CASE j = i
    BY <1>1, <1>2, <1>3
<1>4. CASE j # i
  <2>1. attempts'[j] = attempts[j] /\ cleanup_status'[j] = cleanup_status[j]
      BY <1>2, <1>4
  <2> QED
      BY <1>1, <2>1
<1> QED
    BY <1>3, <1>4

(* The status that was read is written to the row. *)
LEMMA CleanupSyncTruth ==
    ASSUME IndInv, CleanInv, TruthInv, NEW c \in Coordinators, CleanupSync(c)
    PROVE  TruthInv'
<1>1. PICK t : t = tick[c]
    OBVIOUS
<1>2. PICK i : i = NextCleanup(t)
    OBVIOUS
<1>3. pc[c] = "clean sync" /\ UNCHANGED <<status, terminal_status, lease, stage, ops>>
    BY DEF CleanupSync, run
<1>4. /\ pc[c] # "idle" /\ t \in Ticks /\ i \in t.left /\ i \in Stages
      /\ Cleans(stage, cleanup_status, Words, t)
      /\ cleanup_operation[i] = t.attempt[i]
  <2>1. Cleaning(c, t, i)
      BY <1>1, <1>2, <1>3, CleaningTruth
  <2> QED
      BY <2>1 DEF Cleaning
<1>5. t.attempt[i] # 0 /\ t.seen \in {"queued", "running"} \union Terminal
  <2>1. t.attempt[i] # 0
      BY <1>1, <1>2, <1>3 DEF CleanInv, Tidy
  <2>2. t.seen \in {"queued", "running"} \union Terminal
      BY <1>1, <1>3 DEF IndInv, Informed, Local
  <2> QED
      BY <2>1, <2>2
<1>6. cleanup_status' = [cleanup_status EXCEPT ![i] = t.seen]
    BY <1>1, <1>2, <1>4 DEF CleanupSync
<1>7. cleanup_status'[i] = t.seen /\ \A j \in Stages \ {i} : cleanup_status'[j] = cleanup_status[j]
    BY <1>4, <1>6 DEF IndInv, TypeOK
<1>8. CleanupsLate'
  <2>1. cleanup_status[i] # "pending"
      BY <1>4, <1>5 DEF CleanInv, CleanupRows
  <2>2. t.seen # "skipped"
      BY <1>5 DEF Terminal
  <2>3. UNCHANGED <<operation, ran, expired, attempts>>
      BY <1>3 DEF ops, swept
  <2> QED
      BY <1>3, <1>4, <1>6, <2>1, <2>2, <2>3, LateRow
<1>9. Tells(c, stage', cleanup_status', Words')
  <2>1. PICK u : u = [Cleaned(t, i) EXCEPT !.cleanup[i] = t.seen, !.seen = "none"]
      OBVIOUS
  <2>2. /\ u \in Ticks /\ u.left = t.left \ {i} /\ u.started = t.started /\ u.stage = t.stage
        /\ u.recovered = t.recovered /\ u.terminal = t.terminal
        /\ u.cleanup = [t.cleanup EXCEPT ![i] = t.seen]
      BY <1>4, <1>5, <2>1 DEF Ticks, Cleaned, CleanupStatuses, CleanupComplete, OpStatuses, Terminal
  <2>3. DOMAIN t.cleanup = Stages /\ t.left \subseteq Stages
      BY <1>4 DEF Ticks
  <2>4. u.cleanup[i] = t.seen /\ \A j \in Stages \ {i} : u.cleanup[j] = t.cleanup[j]
      BY <1>4, <2>2, <2>3
  <2>5. CASE t.seen \in CleanupComplete
    <3>1. Cleans(stage, cleanup_status', Words, u)
      <4>1. \A j \in u.left : u.cleanup[j] = cleanup_status'[j]
          BY <1>4, <1>7, <2>2, <2>3, <2>4 DEF Cleans
      <4>2. \A j \in Stages \ u.left : cleanup_status'[j] \in CleanupComplete
          BY <1>4, <1>7, <2>2, <2>5 DEF Cleans
      <4>3. \A j \in Stages : cleanup_status'[j] \in {"failed", "canceled"} => u.cleanup[j] = cleanup_status'[j]
          BY <1>4, <1>7, <2>4 DEF Cleans
      <4> QED
          BY <1>4, <2>2, <4>1, <4>2, <4>3 DEF Cleans
    <3>2. CleanupNext(c, u)
        BY <1>1, <1>2, <2>1, <2>5 DEF CleanupSync
    <3>3. Tells(c, stage, cleanup_status', Words)
        BY <2>2, <3>1, <3>2, CleanupNextTells
    <3>4. Words' = Words
        BY <1>3 DEF Words, ops, swept
    <3> QED
        BY <1>3, <3>3, <3>4
  <2>6. CASE t.seen \notin CleanupComplete
      BY <1>1, <2>6, ReleaseTells DEF CleanupSync
  <2> QED
      BY <2>5, <2>6
<1> QED
    BY <1>3, <1>4, <1>8, <1>9, TruthTick

(* A stage without anything to clean up is skipped. *)
LEMMA SkipTruth ==
    ASSUME IndInv, CleanInv, TruthInv, NEW c \in Coordinators, SkipPipelineRunStageCleanup(c)
    PROVE  TruthInv'
<1>1. PICK t : t = tick[c]
    OBVIOUS
<1>2. PICK i : i = NextCleanup(t)
    OBVIOUS
<1>3. /\ pc[c] = "clean" /\ UNCHANGED <<status, terminal_status, lease, stage, ops>>
      /\ i \notin t.started \/ (t.attempt[i] = 0 /\ ~HasCleanupSteps(i))
    BY <1>1, <1>2 DEF SkipPipelineRunStageCleanup, run
<1>4. /\ pc[c] # "idle" /\ t \in Ticks /\ i \in t.left /\ i \in Stages /\ Owns(c)
      /\ Cleans(stage, cleanup_status, Words, t)
      /\ t.started = Started /\ Ended(Verdict, t.started)
      /\ t.attempt[i] = 0 => cleanup_status[i] = "pending"
      /\ i \notin t.started => t.attempt[i] = 0 /\ terminal_status # ""
  <2>1. Cleaning(c, t, i)
      BY <1>1, <1>2, <1>3, CleaningTruth
  <2> QED
      BY <2>1 DEF Cleaning
<1>5. cleanup_status[i] = "pending"
    BY <1>3, <1>4
<1>6. cleanup_status' = [cleanup_status EXCEPT ![i] = "skipped"] /\ CleanupNext(c, Cleaned(t, i))
    BY <1>1, <1>2, <1>4, <1>5 DEF SkipPipelineRunStageCleanup
<1>7. cleanup_status'[i] = "skipped" /\ \A j \in Stages \ {i} : cleanup_status'[j] = cleanup_status[j]
    BY <1>4, <1>6 DEF IndInv, TypeOK
<1>8. CleanupsLate'
  <2>1. CASE i \in t.started
    <3>1. Verdict[i] \in Terminal
        BY <1>4, <2>1 DEF Ended
    <3> QED
        BY <1>3, <1>4, <1>6, <2>1, <3>1, LateRow DEF HasCleanupSteps, ops, swept
  <2>2. CASE i \notin t.started
    <3>1. operation[i] = "none"
        BY <1>4, <2>2 DEF Started
    <3>2. i \notin ran \ expired
        BY <1>4, <3>1 DEF TruthInv, CleanupsLate
    <3> QED
        BY <1>3, <1>4, <1>6, <2>2, <3>1, <3>2, LateRow DEF ops, swept
  <2> QED
      BY <2>1, <2>2
<1>9. Tells(c, stage', cleanup_status', Words')
  <2>1. PICK u : u = Cleaned(t, i)
      OBVIOUS
  <2>2. /\ u \in Ticks /\ u.left = t.left \ {i} /\ u.started = t.started /\ u.stage = t.stage
        /\ u.recovered = t.recovered /\ u.terminal = t.terminal /\ u.cleanup = t.cleanup
      BY <1>4, <2>1 DEF Ticks, Cleaned
  <2>3. t.left \subseteq Stages
      BY <1>4 DEF Ticks
  <2>4. Cleans(stage, cleanup_status', Words, u)
    <3>1. \A j \in u.left : u.cleanup[j] = cleanup_status'[j]
        BY <1>4, <1>7, <2>2, <2>3 DEF Cleans
    <3>2. \A j \in Stages \ u.left : cleanup_status'[j] \in CleanupComplete
        BY <1>4, <1>7, <2>2 DEF Cleans, CleanupComplete
    <3>3. \A j \in Stages : cleanup_status'[j] \in {"failed", "canceled"} => u.cleanup[j] = cleanup_status'[j]
        BY <1>4, <1>7, <2>2 DEF Cleans
    <3> QED
        BY <1>4, <2>2, <3>1, <3>2, <3>3 DEF Cleans
  <2>5. Tells(c, stage, cleanup_status', Words)
      BY <1>6, <2>1, <2>2, <2>4, CleanupNextTells
  <2>6. Words' = Words
      BY <1>3 DEF Words, ops, swept
  <2> QED
      BY <1>3, <2>5, <2>6
<1> QED
    BY <1>3, <1>4, <1>8, <1>9, TruthTick

(* A cleanup operation is created. *)
LEMMA CreateTruth ==
    ASSUME IndInv, CleanInv, TruthInv, NEW c \in Coordinators, CreatePipelineCleanupOperation(c)
    PROVE  TruthInv'
<1>1. PICK t : t = tick[c]
    OBVIOUS
<1>2. PICK i : i = NextCleanup(t)
    OBVIOUS
<1>3. /\ pc[c] = "clean" /\ UNCHANGED <<status, terminal_status, lease, stage, operation, ran, expired>>
      /\ i \in t.started /\ t.attempt[i] = 0
    BY <1>1, <1>2 DEF CreatePipelineCleanupOperation, run
<1>4. /\ pc[c] # "idle" /\ i \in Stages /\ Owns(c)
      /\ Told(stage, Words, t.started) /\ Ended(Verdict, t.started)
      /\ t.attempt[i] = 0 => cleanup_status[i] = "pending"
  <2>1. Cleaning(c, t, i)
      BY <1>1, <1>2, <1>3, CleaningTruth
  <2> QED
      BY <2>1 DEF Cleaning
<1>5. stage[i] \in Terminal /\ Verdict[i] \in Terminal /\ cleanup_status[i] = "pending"
    BY <1>3, <1>4 DEF Told, Ended
<1>6. /\ attempts' = [attempts EXCEPT ![i] = @ + 1]
      /\ cleanup_status' = [cleanup_status EXCEPT ![i] = "queued"]
      /\ Release(c)
    BY <1>1, <1>2, <1>4, <1>5 DEF CreatePipelineCleanupOperation
<1>7. CleanupsLate'
  <2>1. operation[i] # "none"
      BY <1>4, <1>5, VerdictReads DEF Terminal, IndInv
  <2>2. \A j \in Stages \ {i} : attempts'[j] = attempts[j]
      BY <1>6 DEF IndInv, TypeOK
  <2> QED
      BY <1>3, <1>4, <1>5, <1>6, <2>1, <2>2, LateRow
<1>8. Tells(c, stage', cleanup_status', Words')
    BY <1>6, ReleaseTells
<1> QED
    BY <1>3, <1>4, <1>7, <1>8, TruthTick

(* The rechecks of the failed cleanups. *)
LEMMA RecheckTruth ==
    ASSUME IndInv, TruthInv, NEW c \in Coordinators, NotRecovered(c) \/ RecheckHealthy(c) \/ RecheckRenew(c)
    PROVE  TruthInv'
<1>1. PICK t : t = tick[c]
    OBVIOUS
<1>2. pc[c] \in Rechecking /\ pc[c] \in Working /\ UNCHANGED <<status, terminal_status, lease, stage, cleanup_status, ops>>
    BY DEF NotRecovered, RecheckHealthy, RecheckRenew, run, rows, Working, PCs, Rechecking
<1>3. /\ pc[c] # "idle" /\ t \in Ticks /\ Owns(c) /\ Local(Verdict, pc[c], t)
      /\ Rechecks(stage, cleanup_status, Words, t)
    BY <1>1, <1>2, WorkingTruth DEF Truthful
<1>4. Tells(c, stage, cleanup_status, Words)
  <2>1. CASE NotRecovered(c)
    <3>1. t.left # {}
        BY <1>2, <1>3 DEF Local
    <3>2. Visited(t) = [t EXCEPT !.left = t.left \ {Current(t)}]
        BY <1>3, <3>1, VisitedIsTick
    <3>3. PICK u : u = Visited(t)
        OBVIOUS
    <3>4. u.started = t.started /\ u.cleanup = t.cleanup /\ u.recovered = t.recovered
        BY <1>3, <3>2, <3>3 DEF Ticks
    <3>5. Rechecks(stage, cleanup_status, Words, u)
        BY <1>3, <3>4 DEF Rechecks
    <3> QED
        BY <1>1, <2>1, <3>3, <3>5, RecheckNextTells DEF NotRecovered
  <2>2. CASE RecheckHealthy(c) \/ RecheckRenew(c)
    <3>1. PICK to \in {"recheck renew", "recover"} : Go(c, to, t)
        BY <1>1, <1>3, <2>2 DEF RecheckHealthy, RecheckRenew, RenewPipelineRunLease
    <3>2. Truthful(stage, cleanup_status, Words, to, t)
        BY <1>3, <3>1 DEF Truthful, Stopping
    <3> QED
        BY <3>1, <3>2 DEF Tells
  <2> QED
      BY <2>1, <2>2
<1>5. Tells(c, stage', cleanup_status, Words)
    BY <1>2, <1>4
<1> QED
    BY <1>2, <1>3, <1>5, TruthQuiet

(* A recheck that finds a failed cleanup done after all records it in the row. *)
LEMMA RecoverTruth ==
    ASSUME IndInv, CleanInv, TruthInv, NEW c \in Coordinators, Recover(c)
    PROVE  TruthInv'
<1>1. PICK t : t = tick[c]
    OBVIOUS
<1>2. PICK i : i = Current(t)
    OBVIOUS
<1>3. pc[c] = "recover" /\ pc[c] \in Rechecking /\ pc[c] \in Working /\ UNCHANGED <<status, terminal_status, lease, stage, ops>>
    BY DEF Recover, run, Working, PCs, Rechecking
<1>4. /\ pc[c] # "idle" /\ t \in Ticks /\ Owns(c) /\ Local(Verdict, pc[c], t)
      /\ Rechecks(stage, cleanup_status, Words, t)
    BY <1>1, <1>3, WorkingTruth DEF Truthful
<1>5. i \in t.left /\ i \in Stages /\ Visited(t) = [t EXCEPT !.left = t.left \ {i}]
  <2>1. t.left # {}
      BY <1>3, <1>4 DEF Local
  <2> QED
      BY <1>2, <1>4, <2>1, VisitedIsTick
<1>6. cleanup_operation[i] = t.attempt[i]
    BY <1>1, <1>3, <1>4, <1>5 DEF CleanInv, Orderly, Owns
<1>7. cleanup_status' = [cleanup_status EXCEPT ![i] = "succeeded"]
    BY <1>1, <1>2, <1>6 DEF Recover
<1>8. cleanup_status'[i] = "succeeded" /\ \A j \in Stages \ {i} : cleanup_status'[j] = cleanup_status[j]
    BY <1>5, <1>7 DEF IndInv, TypeOK
<1>9. CleanupsLate'
  <2>1. cleanup_status[i] # "pending"
      BY <1>4, <1>5 DEF Rechecks, CleanupComplete, Terminal
  <2> QED
      BY <1>3, <1>5, <1>7, <2>1, LateRow DEF ops, swept
<1>10. PICK u : u = [Visited(t) EXCEPT !.recovered = @ \union {i}]
    OBVIOUS
<1>11. u.started = t.started /\ u.cleanup = t.cleanup /\ u.recovered = t.recovered \union {i}
    BY <1>4, <1>5, <1>10 DEF Ticks
<1>12. Rechecks(stage, cleanup_status', Words, u)
  <2>1. t.recovered \subseteq Stages
      BY <1>4 DEF Ticks
  <2>2. \A j \in Stages : cleanup_status'[j] \in CleanupComplete
      BY <1>4, <1>8 DEF Rechecks, CleanupComplete, Terminal
  <2>3. \A j \in Stages : cleanup_status'[j] \in {"failed", "canceled"} => u.cleanup[j] = cleanup_status'[j]
      BY <1>4, <1>8, <1>11 DEF Rechecks
  <2>4. \A j \in u.recovered : cleanup_status'[j] = "succeeded"
      BY <1>4, <1>8, <1>11, <2>1 DEF Rechecks
  <2> QED
      BY <1>4, <1>11, <2>2, <2>3, <2>4 DEF Rechecks
<1>13. RecheckNext(c, u)
    BY <1>1, <1>2, <1>10 DEF Recover
<1>14. Tells(c, stage, cleanup_status', Words)
    BY <1>12, <1>13, RecheckNextTells
<1>16. Words' = Words
    BY <1>3 DEF Words, ops, swept
<1>15. Tells(c, stage', cleanup_status', Words')
    BY <1>3, <1>14, <1>16
<1> QED
    BY <1>3, <1>4, <1>9, <1>15, TruthTick
-----------------------------------------------------------------------------
(* The steps outside a tick.                                               *)

(* A final status that a row may have it may have from then on. *)
Turns(op, next) == \A i \in Stages : op[i] \intersect Terminal \subseteq next[i]

(* What a tick knows of the rows stays true while operations go on: it     *)
(* only compares those that have ended.                                    *)
LEMMA TruthfulStays ==
    ASSUME NEW verdict, NEW st, NEW row, NEW op, NEW next, NEW to, NEW u,
           Local(verdict, to, u), Turns(op, next), Truthful(st, row, op, to, u)
    PROVE  Truthful(st, row, next, to, u)
<1>1. u.started \subseteq Stages
    BY DEF Local, Ticks
<1>2. ASSUME NEW S \in SUBSET Stages, Told(st, op, S) PROVE Told(st, next, S)
    BY <1>2 DEF Told, Turns
<1>3. Backed(st, op, u) => Backed(st, next, u)
    BY DEF Backed, Turns, Terminal
<1>4. Drains(st, op, u) => Drains(st, next, u)
  <2>1. u.started \ u.left \in SUBSET Stages
      BY <1>1
  <2> QED
      BY <1>2, <2>1 DEF Drains
<1>5. Told(st, op, u.started) => Told(st, next, u.started)
    BY <1>1, <1>2
<1>6. to = "stop sync" /\ u.seen \in Terminal => u.seen \in next[Current(u)]
  <2> SUFFICES ASSUME to = "stop sync", u.seen \in Terminal PROVE u.seen \in next[Current(u)]
      OBVIOUS
  <2>1. u \in Ticks /\ u.left # {}
      BY DEF Local, Stopping
  <2>2. Current(u) \in Stages
      BY <2>1, VisitedIsTick
  <2> QED
      BY <2>2 DEF Truthful, Turns
<1>7. Cleans(st, row, op, u) => Cleans(st, row, next, u)
    BY <1>5 DEF Cleans
<1>8. Rechecks(st, row, op, u) => Rechecks(st, row, next, u)
    BY <1>5 DEF Rechecks
<1> QED
    BY <1>3, <1>4, <1>5, <1>6, <1>7, <1>8 DEF Truthful

(* The step of somebody who is no coordinator. *)
LEMMA TruthOutside ==
    ASSUME IndInv, TruthInv, UNCHANGED <<pc, tick, stage, cleanup_status>>,
           Turns(Words, Words'), Alone', CleanupsLate', RowsAreTold'
    PROVE  TruthInv'
<1>1. \A d \in Coordinators : Truthful(stage, cleanup_status, Words', pc[d], tick[d])
    BY TruthfulStays DEF TruthInv, IndInv, Informed
<1> QED
    BY <1>1 DEF TruthInv

(* A step of a stage's operation. *)
LEMMA OperationTruth ==
    ASSUME IndInv, TruthInv, Undisturbed, NEW i \in Stages,
           OperationRuns(i) \/ OperationSettles(i) \/ OperationExpires(i) \/ OperationRevives(i)
    PROVE  TruthInv'
<1>0. Lapsed /\ late \subseteq expired
    BY DEF IndInv, Sound, TypeOK
<1>1. /\ UNCHANGED <<status, terminal_status, lease, stage, cleanup_status, attempts, pc, tick>>
      /\ UNCHANGED <<cleanup_op, cleanup_expired>>
      /\ ran' \ {i} = ran \ {i} /\ expired' \in {expired, expired \union {i}}
  <2> USE DEF around, run, rows, swept
  <2>1. CASE OperationRuns(i) \/ OperationSettles(i)
      BY <2>1 DEF OperationRuns, OperationSettles, LastWord
  <2>2. CASE OperationExpires(i) \/ OperationRevives(i)
      BY <2>2 DEF OperationExpires, OperationRevives, LastWord
  <2> QED
      BY <2>1, <2>2
<1>2. PICK s \in {"running"} \union Terminal :
         /\ operation' = [operation EXCEPT ![i] = s]
         /\ operation[i] \in {"queued", "running"} \/ (operation[i] = "failed" /\ i \in expired)
         /\ s = "running" => operation[i] = "queued" \/ i \in expired
  <2>1. CASE OperationRuns(i) \/ OperationSettles(i)
      BY <2>1 DEF OperationRuns, OperationSettles, LastWord, Terminal
  <2>2. CASE OperationExpires(i) \/ OperationRevives(i)
      BY <1>0, <2>2 DEF OperationExpires, OperationRevives, LastWord, Lapsed, Terminal
  <2> QED
      BY <2>1, <2>2
<1>3. operation'[i] = s /\ s # "none" /\ operation[i] # "none" /\ \A j \in Stages \ {i} : operation'[j] = operation[j]
    BY <1>2 DEF IndInv, TypeOK, Terminal
<1>4. /\ \A j \in Stages \ {i} : Verdict'[j] = Verdict[j] /\ Words'[j] = Words[j]
      /\ Verdict[i] \in Terminal => Verdict'[i] \in Terminal
      /\ Words[i] \intersect Terminal \subseteq Words'[i]
      /\ i \in expired \/ Verdict[i] \notin Terminal \union {"none"}
  <2>1. \A j \in Stages \ {i} : Verdict'[j] = Verdict[j] /\ Words'[j] = Words[j]
      BY <1>1, <1>3 DEF Verdict, Words
  <2>2. Verdict[i] \in Terminal => Verdict'[i] \in Terminal
      BY <1>1, <1>2, <1>3 DEF Verdict, Terminal
  <2>3. Words[i] \intersect Terminal \subseteq Words'[i]
      BY <1>1, <1>2, <1>3 DEF Words, Terminal
  <2>4. i \in expired \/ Verdict[i] \notin Terminal \union {"none"}
      BY <1>2 DEF Verdict, Terminal
  <2> QED
      BY <2>1, <2>2, <2>3, <2>4
<1>5. Turns(Words, Words')
    BY <1>4 DEF Turns
<1>6. Alone'
    BY <1>1 DEF TruthInv, Alone, lease
<1>7. CleanupsLate'
  <2> SUFFICES ASSUME NEW j \in Stages
               PROVE  /\ cleanup_status[j] # "pending" =>
                            Verdict'[j] \in Terminal \/ (operation'[j] = "none" /\ terminal_status # "")
                      /\ cleanup_status[j] = "skipped" => j \notin ran' \ expired'
                      /\ attempts[j] # 0 \/ j \in ran' => operation'[j] # "none"
      BY <1>1 DEF CleanupsLate
  <2>1. /\ cleanup_status[j] # "pending" =>
              Verdict[j] \in Terminal \/ (operation[j] = "none" /\ terminal_status # "")
        /\ cleanup_status[j] = "skipped" => j \notin ran \ expired
        /\ attempts[j] # 0 \/ j \in ran => operation[j] # "none"
      BY DEF TruthInv, CleanupsLate
  <2>2. CASE j = i
      BY <1>1, <1>3, <1>4, <2>1, <2>2
  <2>3. CASE j # i
    <3>1. /\ operation'[j] = operation[j] /\ Verdict'[j] = Verdict[j]
          /\ j \in ran' <=> j \in ran
          /\ j \in expired' <=> j \in expired
        BY <1>1, <1>3, <1>4, <2>3
    <3> QED
        BY <2>1, <3>1
  <2> QED
      BY <2>2, <2>3
<1>8. RowsAreTold'
  <2> SUFFICES ASSUME status \in Terminal PROVE Told(stage, Words', Started') /\ CleanedBeforeFinal'
      BY <1>1 DEF RowsAreTold, CleanedBeforeFinal
  <2>1. Started' = Started /\ Started \subseteq Stages
      BY <1>3 DEF Started
  <2>2. Told(stage, Words', Started')
      BY <1>5, <2>1 DEF TruthInv, RowsAreTold, Told, Turns
  <2>3. i \in expired
      BY <1>2 DEF IndInv, Sound, DrainedBeforeFinal, OperationOver, Settled, Terminal, Reliable, Undisturbed
  <2>4. ran' \ expired' = ran \ expired
      BY <1>1, <2>3
  <2>5. \A j : CleanupOver(j)' <=> CleanupOver(j)
      BY <1>1 DEF CleanupOver
  <2>6. CleanedBeforeFinal'
      BY <1>1, <2>4, <2>5 DEF TruthInv, RowsAreTold, CleanedBeforeFinal
  <2> QED
      BY <2>2, <2>6
<1> QED
    BY <1>1, <1>5, <1>6, <1>7, <1>8, TruthOutside

(* Nothing that the rows tell changes. *)
LEMMA RowsSame ==
    ASSUME TruthInv, TypeOK,
           UNCHANGED <<status, terminal_status, stage, cleanup_status, operation, ran, expired, attempts>>,
           \A i \in Stages : CleanupOver(i) => CleanupOver(i)'
    PROVE  Turns(Words, Words') /\ CleanupsLate' /\ RowsAreTold'
<1>0. Words' = Words /\ Verdict' = Verdict /\ Started' = Started
    BY DEF Words, Verdict, Started
<1>1. Turns(Words, Words')
    BY <1>0 DEF Turns
<1>2. CleanupsLate'
    BY <1>0 DEF TruthInv, CleanupsLate
<1>3. ran \subseteq Stages
    BY PipelineAssumption DEF TypeOK
<1>4. CleanedBeforeFinal'
    BY <1>3 DEF TruthInv, RowsAreTold, CleanedBeforeFinal
<1>5. RowsAreTold'
    BY <1>0, <1>4 DEF TruthInv, RowsAreTold
<1> QED
    BY <1>1, <1>2, <1>5

(* A step of a cleanup operation, *)
LEMMA CleanupRunsTruth ==
    ASSUME IndInv, CleanInv, TruthInv, NEW i \in Stages,
           CleanupRuns(i) \/ CleanupExpires(i) \/ CleanupRevives(i)
    PROVE  TruthInv'
<1>1. PICK s : /\ cleanup_op' = [cleanup_op EXCEPT ![i] = s]
               /\ ~Settled(cleanup_op[i]) \/ <<i, attempts[i]>> \in cleanup_expired
    BY DEF CleanupRuns, CleanupExpires, CleanupRevives, CleanInv, CleanupLapsed, Settled, Terminal
<1>2. /\ UNCHANGED <<status, terminal_status, stage, cleanup_status, operation, ran, expired, attempts>>
      /\ UNCHANGED <<pc, tick, lease>>
      /\ cleanup_expired \subseteq cleanup_expired'
    BY DEF CleanupRuns, CleanupExpires, CleanupRevives, around, run, rows, swept
<1>3. \A j \in Stages : CleanupOver(j) => CleanupOver(j)'
  <2> SUFFICES ASSUME NEW j \in Stages, CleanupOver(j)
               PROVE  Settled(cleanup_op'[j]) \/ <<j, attempts[j]>> \in cleanup_expired'
      BY <1>2 DEF CleanupOver, Settled
  <2>1. CASE j = i
      BY <1>1, <1>2, <2>1 DEF CleanupOver
  <2>2. CASE j # i
    <3>1. cleanup_op'[j] = cleanup_op[j]
        BY <1>1, <2>2 DEF IndInv, TypeOK
    <3> QED
        BY <1>2, <3>1 DEF CleanupOver
  <2> QED
      BY <2>1, <2>2
<1>4. Turns(Words, Words') /\ CleanupsLate' /\ RowsAreTold'
    BY <1>2, <1>3, RowsSame DEF IndInv
<1>5. Alone'
    BY <1>2 DEF TruthInv, Alone, lease
<1> QED
    BY <1>2, <1>4, <1>5, TruthOutside

(* the passing of time, *)
LEMMA LapseTruth ==
    ASSUME IndInv, TruthInv, Undisturbed, LeaseLapses
    PROVE  TruthInv'
<1>1. /\ UNCHANGED <<status, terminal_status, stage, cleanup_status, operation, ran, expired, attempts>>
      /\ UNCHANGED <<pc, tick, cleanup_op, cleanup_expired>>
    BY DEF LeaseLapses, run, rows, ops, swept
<1>2. Turns(Words, Words') /\ CleanupsLate' /\ RowsAreTold'
    BY <1>1, RowsSame DEF IndInv, CleanupOver
<1>3. ~ \E c \in Coordinators : lease_owner = c /\ pc[c] # "idle"
  <2>1. MaxStalls = 0 /\ stalls \in 0..MaxStalls
      BY DEF Undisturbed, IndInv, TypeOK
  <2>2. ~(stalls < MaxStalls)
      BY <2>1
  <2> QED
      BY <2>2 DEF LeaseLapses
<1>4. \A c \in Coordinators : pc[c] = "idle"
    BY <1>3 DEF TruthInv, Alone
<1>5. Alone'
    BY <1>1, <1>4 DEF Alone
<1> QED
    BY <1>1, <1>2, <1>5, TruthOutside

(* a request, *)
LEMMA RequestTruth ==
    ASSUME IndInv, TruthInv, Undisturbed,
           RequestPipelineRunCancel \/ RequestExperimentCancel \/ StartExperimentTraffic \/ UNCHANGED vars
    PROVE  TruthInv'
<1>1. CASE UNCHANGED <<status, stage, lease>>
  <2>1. /\ UNCHANGED <<status, terminal_status, stage, cleanup_status, operation, ran, expired, attempts>>
        /\ UNCHANGED <<pc, tick, lease, cleanup_op, cleanup_expired>>
      BY <1>1 DEF RequestPipelineRunCancel, RequestExperimentCancel, StartExperimentTraffic, vars, run, rows, ops, swept
  <2>2. Turns(Words, Words') /\ CleanupsLate' /\ RowsAreTold'
      BY <2>1, RowsSame DEF IndInv, CleanupOver
  <2>3. Alone'
      BY <2>1 DEF TruthInv, Alone, lease
  <2> QED
      BY <2>1, <2>2, <2>3, TruthOutside
<1>2. CASE ~UNCHANGED <<status, stage, lease>>
  <2>1. RequestExperimentCancel /\ status = "queued"
      BY <1>2 DEF RequestPipelineRunCancel, RequestExperimentCancel, StartExperimentTraffic, vars, run, rows
  <2>2. \A c \in Coordinators : pc[c] = "idle"
      BY <2>1, OverIsIdle DEF TruthInv
  <2>3. UNCHANGED <<terminal_status, cleanup_status, ops, pc, tick>>
      BY <2>1 DEF RequestExperimentCancel
  <2>4. Started' = {} /\ ran' = {}
    <3>1. Started = {}
        BY <2>1 DEF IndInv, Sound, Leased
    <3>2. ran = {}
        BY <3>1, PipelineAssumption DEF Started, TruthInv, CleanupsLate, IndInv, TypeOK
    <3> QED
        BY <2>3, <3>1, <3>2 DEF Started, ops, swept
  <2>5. Alone'
      BY <2>2, <2>3 DEF Alone
  <2>9. Verdict' = Verdict
      BY <2>3 DEF Verdict, ops, swept
  <2>6. CleanupsLate'
      BY <2>3, <2>9 DEF TruthInv, CleanupsLate, ops, swept
  <2>7. RowsAreTold'
      BY <2>4 DEF RowsAreTold, CleanedBeforeFinal, Told
  <2>8. \A d \in Coordinators : Truthful(stage', cleanup_status', Words', pc'[d], tick'[d])
      BY <2>2, <2>3, NothingIsTruthful
  <2> QED
      BY <2>5, <2>6, <2>7, <2>8 DEF TruthInv
<1> QED
    BY <1>1, <1>2

(* and the retry of the cleanup. *)
LEMMA RetryTruth ==
    ASSUME IndInv, TruthInv, RetryExperimentCleanup
    PROVE  TruthInv'
<1>1. /\ status \in Terminal /\ status' = "running" /\ UNCHANGED <<ops, pc, tick>>
      /\ terminal_status' = IF status = "succeeded" THEN "failed" ELSE status
      /\ \A i \in Stages : cleanup_status'[i] \in {"pending", cleanup_status[i]}
    BY DEF RetryExperimentCleanup
<1>2. \A c \in Coordinators : pc[c] = "idle"
    BY <1>1, OverIsIdle DEF TruthInv, Terminal
<1>3. Alone'
    BY <1>1, <1>2 DEF Alone
<1>4. terminal_status' # ""
    BY <1>1 DEF Terminal
<1>5. CleanupsLate'
  <2> SUFFICES ASSUME NEW j \in Stages
               PROVE  /\ cleanup_status'[j] # "pending" => Verdict[j] \in Terminal \/ operation[j] = "none"
                      /\ cleanup_status'[j] = "skipped" => j \notin ran \ expired
                      /\ attempts[j] # 0 \/ j \in ran => operation[j] # "none"
    <3>1. Verdict' = Verdict
        BY <1>1 DEF Verdict, ops, swept
    <3> QED
        BY <1>1, <1>4, <3>1 DEF CleanupsLate, ops, swept
  <2> QED
      BY <1>1 DEF TruthInv, CleanupsLate
<1>6. RowsAreTold'
    BY <1>1 DEF RowsAreTold, CleanedBeforeFinal, Terminal
<1>7. \A d \in Coordinators : Truthful(stage', cleanup_status', Words', pc'[d], tick'[d])
    BY <1>1, <1>2, NothingIsTruthful
<1> QED
    BY <1>3, <1>5, <1>6, <1>7 DEF TruthInv

(* Every step keeps the rows true. *)
LEMMA TruthInvNext == Undisturbed /\ IndInv /\ CleanInv /\ TruthInv /\ [Next]_vars => TruthInv'
<1> SUFFICES ASSUME Undisturbed, IndInv, CleanInv, TruthInv, [Next]_vars PROVE TruthInv'
    OBVIOUS
<1>1. ASSUME NEW c \in Coordinators, Tick(c) PROVE TruthInv'
  <2>1. ~CleanupBreaks(c)
      BY DEF CleanupBreaks, Undisturbed
  <2> QED
      BY <1>1, <2>1, ReadTruth, SyncGetTruth, SyncSetTruth, BeginTruth, StartTruth, FailStageTruth, StopGetTruth,
         StopSyncTruth, StopCancelTruth, FailRunTruth, CompleteTruth, SkipTruth, CreateTruth, CleanupGetTruth,
         CleanupSyncTruth, RecheckTruth, RecoverTruth, AroundTruth DEF Tick
<1>2. ASSUME NEW c \in Coordinators, ClaimPipelineRun(c) \/ Crash(c) \/ Abandon(c) PROVE TruthInv'
    BY <1>2, AroundTruth
<1>3. ASSUME NEW i \in Stages,
             \/ OperationRuns(i) \/ OperationSettles(i) \/ OperationExpires(i) \/ OperationRevives(i)
             \/ CleanupRuns(i) \/ CleanupExpires(i) \/ CleanupRevives(i)
      PROVE  TruthInv'
    BY <1>3, OperationTruth, CleanupRunsTruth
<1>4. CASE LeaseLapses \/ RequestPipelineRunCancel \/ RequestExperimentCancel \/ StartExperimentTraffic
    BY <1>4, LapseTruth, RequestTruth
<1> QED
    BY <1>1, <1>2, <1>3, <1>4, RequestTruth, RetryTruth DEF Next

(* Initially nothing has run. *)
LEMMA TruthInvInit == Init => TruthInv
<1> SUFFICES ASSUME Init PROVE TruthInv
    OBVIOUS
<1>1. \A c \in Coordinators : pc[c] = "idle"
    BY DEF Init
<1>2. Alone /\ \A c \in Coordinators : Truthful(stage, cleanup_status, Words, pc[c], tick[c])
    BY <1>1, NothingIsTruthful DEF Alone
<1>3. CleanupsLate /\ RowsAreTold
    BY DEF Init, CleanupsLate, RowsAreTold, CleanedBeforeFinal, Terminal
<1> QED
    BY <1>2, <1>3 DEF TruthInv

(* RowsTellTheTruth, for every pipeline and any number of coordinators,    *)
(* crashes, retries and workers that outlive the lease of their operation, *)
(* as long as no tick outlives its own and the pipeline and its cleanups   *)
(* can be loaded: a run that is over has stage rows that agree with the    *)
(* operations, up to failures that the sweeper declared, and every cleanup *)
(* it owes was tried, has settled and is recorded.                         *)
THEOREM RowsAlwaysTellTheTruth ==
    ASSUME MaxStalls = 0, Failures \subseteq {"operation", "result"}
    PROVE  Spec => []RowsTellTheTruth
<1>1. Undisturbed
    BY DEF Undisturbed
<1>2. Init => TruthInv
    BY TruthInvInit
<1>3. IndInv /\ CleanInv /\ TruthInv /\ [Next]_vars => TruthInv'
    BY <1>1, TruthInvNext
<1>4. TruthInv => RowsTellTheTruth
  <2> SUFFICES ASSUME TruthInv, status \in Terminal, NEW i \in Started
               PROVE  stage[i] = operation[i] \/ (stage[i] = "failed" /\ i \in expired)
      BY DEF TruthInv, RowsAreTold, RowsTellTheTruth
  <2>1. stage[i] \in Words[i] /\ i \in Stages
      BY DEF TruthInv, RowsAreTold, Told, Started
  <2> QED
      BY <2>1 DEF Words
<1> QED
    BY <1>2, <1>3, <1>4, CleanupsAreKnown, PTL DEF Spec

=============================================================================
