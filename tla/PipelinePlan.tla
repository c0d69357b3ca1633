---------------------------- MODULE PipelinePlan ----------------------------
(***************************************************************************)
(* The two pure decisions of the pipeline coordinator: which stages of a   *)
(* run may start now (readyPipelineStages) and in which order the stages   *)
(* of a run are cleaned up (pipelineCleanupOrder).  Stages are positions   *)
(* 1..n; of a stage's plugin only its kind matters here: "network" is      *)
(* io.kubephos.chaos.network.zones, "deploy" is                            *)
(* io.kubephos.applications.kubernetes.deploy.                             *)
(***************************************************************************)
EXTENDS Integers, Sequences, FiniteSets

Kinds == {"network", "deploy", "other"}

(* Statuses an operation never leaves.                                     *)
Terminal == {"succeeded", "failed", "canceled"}

-----------------------------------------------------------------------------
(* Ready stages.  needs[i] holds the stages named by DependsOn and by the  *)
(* artifact bindings of stage i; max is MaxParallelStages (0: omitted).    *)

Limit(max) == IF max < 1 THEN 1 ELSE max

ActiveStages(stage, started) == {i \in started : stage[i] \notin Terminal}

InputsComplete(needs, max, stage, i) ==
    /\ max <= 1 /\ i > 1 => stage[i - 1] = "succeeded"
    /\ \A j \in needs[i] : stage[j] = "succeeded"

Startable(needs, max, stage, started, i) ==
    /\ i \notin started
    /\ stage[i] = "pending"
    /\ InputsComplete(needs, max, stage, i)

(* Mutant: stages picked in this pass are not counted as active.           *)
readyPipelineStagesUncounted(needs, max, stage, started) ==
    IF Cardinality(ActiveStages(stage, started)) >= Limit(max)
    THEN {}
    ELSE {i \in DOMAIN stage : Startable(needs, max, stage, started, i)}

(* The loop takes the startable stages in the order of the definition, as  *)
(* long as those that are active and those taken before are below the      *)
(* limit.                                                                  *)
readyPipelineStages(needs, max, stage, started) ==
    LET startable == {i \in DOMAIN stage : Startable(needs, max, stage, started, i)}
        active(i) == Cardinality(ActiveStages(stage, started)) + Cardinality({j \in startable : j < i})
    IN {i \in startable : active(i) < Limit(max)}

-----------------------------------------------------------------------------
(* Cleanup order.                                                          *)

Backwards(kind) == [i \in 1..Len(kind) |-> Len(kind) + 1 - i]

(* What the loop over the stages from the last to the first appends, when  *)
(* it appends those of S.                                                  *)
LastFirst(kind, S) ==
    LET appended[k \in 0..Len(kind)] ==
            IF k = 0 THEN <<>>
            ELSE IF Len(kind) + 1 - k \in S THEN Append(appended[k - 1], Len(kind) + 1 - k)
            ELSE appended[k - 1]
    IN appended[Len(kind)]

pipelineCleanupOrder(kind) ==
    LET network == LastFirst(kind, {i \in 1..Len(kind) : kind[i] = "network"})
        order == LastFirst(kind, {i \in 1..Len(kind) : kind[i] # "network"})
        deploys == {p \in 1..Len(order) : kind[order[p]] = "deploy"}
        at == CHOOSE p \in deploys : \A q \in deploys : p <= q
    IN IF deploys = {} THEN Backwards(kind)
       ELSE SubSeq(order, 1, at - 1) \o network \o SubSeq(order, at, Len(order))

(* The rule the comment above pipelineCleanupOrder gives, as a relation:   *)
(* stage j is cleaned before stage i.  A deploy in between splits the      *)
(* reverse order in three: what runs on top of the last application, the   *)
(* network stages, the last application and everything below it.           *)
CleanedBefore(kind, j, i) ==
    LET deploys == {d \in 1..Len(kind) : kind[d] = "deploy"}
        top == IF deploys = {} THEN 0 ELSE CHOOSE d \in deploys : \A e \in deploys : d >= e
        layer(s) == IF deploys = {} THEN 0
                    ELSE IF kind[s] = "network" THEN 2
                    ELSE IF s > top THEN 1 ELSE 3
    IN \/ layer(j) < layer(i)
       \/ layer(j) = layer(i) /\ j > i
=============================================================================
