------------------------- MODULE OperationContract -------------------------
(***************************************************************************)
(* What the queue promises to those who only look at the row of an         *)
(* operation: the pipeline coordinator (internal/engine/pipelines.go), the *)
(* HTTP API and the user.  An operation is given to one runner at most, it *)
(* never starts again, every step is executed at most once and in order,   *)
(* and the final status is the runner's word.  A runner that is not heard  *)
(* of is presumed to have failed; only such a verdict can be taken back,   *)
(* and only by the runner itself.                                          *)
(***************************************************************************)
EXTENDS Naturals

CONSTANTS Ops, NumSteps

VARIABLES taken,     \* the operation has left the queue
          runner,    \* somebody works on it
          begun,     \* steps whose execution has begun
          outcome    \* its final status, "none" as long as it has none

vars == <<taken, runner, begun, outcome>>

Init ==
    /\ taken = [o \in Ops |-> FALSE]
    /\ runner = [o \in Ops |-> FALSE]
    /\ begun = [o \in Ops |-> {}]
    /\ outcome = [o \in Ops |-> "none"]

(* Canceled in the queue.                                                  *)
Withdraw(o) ==
    /\ ~ taken[o]
    /\ taken' = [taken EXCEPT ![o] = TRUE]
    /\ outcome' = [outcome EXCEPT ![o] = "canceled"]
    /\ UNCHANGED <<runner, begun>>

Begin(o) ==
    /\ ~ taken[o]
    /\ taken' = [taken EXCEPT ![o] = TRUE]
    /\ runner' = [runner EXCEPT ![o] = TRUE]
    /\ UNCHANGED <<begun, outcome>>

Advance(o, i) ==
    /\ runner[o]
    /\ begun[o] = 1 .. i - 1
    /\ begun' = [begun EXCEPT ![o] = 1 .. i]
    /\ UNCHANGED <<taken, runner, outcome>>

(* The runner has the last word.                                           *)
Report(o, word) ==
    /\ runner[o]
    /\ word = "succeeded" => begun[o] = 1 .. NumSteps
    /\ runner' = [runner EXCEPT ![o] = FALSE]
    /\ outcome' = [outcome EXCEPT ![o] = word]
    /\ UNCHANGED <<taken, begun>>

(* The runner dies, or its last word is lost.                              *)
Vanish(o) ==
    /\ runner[o]
    /\ runner' = [runner EXCEPT ![o] = FALSE]
    /\ UNCHANGED <<taken, begun, outcome>>

(* Operations that are not heard of.                                       *)
Presume(silent) ==
    /\ \A o \in silent : taken[o] /\ outcome[o] = "none"
    /\ outcome' = [o \in Ops |-> IF o \in silent THEN "failed" ELSE outcome[o]]
    /\ UNCHANGED <<taken, runner, begun>>

(* The runner was only slow.                                               *)
Resume(o) ==
    /\ runner[o]
    /\ outcome[o] = "failed"
    /\ outcome' = [outcome EXCEPT ![o] = "none"]
    /\ UNCHANGED <<taken, runner, begun>>

Next ==
    \/ \E o \in Ops :
          \/ Withdraw(o) \/ Begin(o) \/ Vanish(o) \/ Resume(o)
          \/ \E i \in 1 .. NumSteps : Advance(o, i)
          \/ \E word \in {"succeeded", "failed", "canceled"} : Report(o, word)
    \/ \E silent \in (SUBSET Ops) \ {{}} : Presume(silent)

Spec == Init /\ [][Next]_vars

=============================================================================
