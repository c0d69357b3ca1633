----------------------------- MODULE MCDecisions -----------------------------
(***************************************************************************)
(* Decisions that are functions of their inputs, checked over all inputs   *)
(* within bounds: which stages of a pipeline start and in which order they *)
(* are cleaned up, how the machines of a cluster are laid out in pools,    *)
(* and what a dataset makes out of the counters Prometheus has sampled.    *)
(* An input is grown step by step; the counters are those of processes     *)
(* that work, restart and are scraped.                                     *)
(***************************************************************************)
EXTENDS PipelinePlan

CONSTANTS MaxStages,     \* stages of a pipeline whose scheduling is checked
          MaxParallel,   \* bound on MaxParallelStages
          MaxOrdered,    \* stages of a pipeline whose cleanup order is checked
          MaxPools,      \* pools of a cluster
          MaxMachines,   \* machines of a cluster
          MaxEvents,     \* events that are counted
          MaxSamples,    \* scrapes
          MaxRestarts    \* restarts of a counting process

ASSUME BoundsAssumption ==
    {MaxStages, MaxParallel, MaxOrdered, MaxPools, MaxMachines, MaxEvents, MaxSamples, MaxRestarts} \subseteq Nat

NP == INSTANCE NodePools
MT == INSTANCE MetricsCollector

(* Row statuses: "running" stands for every status that is not final,      *)
(* "failed" for the two that are final and not "succeeded".                *)
RowStatuses == {"pending", "running", "succeeded", "failed"}

VARIABLES decision,                           \* the decision the input is for
          kind, needs, stage, started, max,   \* a pipeline
          layout,                             \* a cluster configuration
          counter,                            \* cluster |-> what its process shows
          happened,                           \* cluster |-> what happened since the start
          samples,                            \* cluster |-> its scrapes
          fresh,                              \* the processes belong to the trial
          restarts                            \* restarts so far
pipeline == <<kind, needs, stage, started, max>>
counting == <<counter, happened, samples, fresh, restarts>>
vars == <<decision, pipeline, layout, counting>>

Sources == 1 .. 2   \* one counting process in each of two clusters
Nothing == [count |-> 0, sum |-> 0]
Earlier == [count |-> 2, sum |-> 3]   \* events from before the trial
Zones == {<<>>, <<"a">>, <<"b", "a">>}

Init ==
    /\ decision \in {"ready", "cleanup order", "layout", "counters"}
    /\ kind = <<>> /\ needs = <<>> /\ stage = <<>>
    /\ started = {}
    /\ max \in IF decision = "ready" THEN 0..MaxParallel ELSE {0}
    /\ \E n \in IF decision = "layout" THEN {1, 3} ELSE {1}, zones \in IF decision = "layout" THEN Zones ELSE {<<>>} :
          layout = [networking |-> "flannel", controlPlanes |-> n, zones |-> zones, pools |-> <<>>]
    /\ fresh \in IF decision = "counters" THEN BOOLEAN ELSE {TRUE}
    /\ counter = [s \in Sources |-> IF fresh THEN Nothing ELSE Earlier]
    /\ happened = [s \in Sources |-> Nothing]
    /\ samples = [s \in Sources |-> <<>>]
    /\ restarts = 0

(* A stage row without an operation is pending, or failed before it could  *)
(* start; a row with one has the status of its operation.                  *)
AddStage(k, deps, s, op) ==
    /\ kind' = Append(kind, k)
    /\ needs' = Append(needs, deps)
    /\ stage' = Append(stage, s)
    /\ started' = IF op THEN started \union {Len(stage) + 1} ELSE started
    /\ UNCHANGED <<decision, max, layout, counting>>

AddScheduledStage ==
    /\ decision = "ready" /\ Len(stage) < MaxStages
    /\ \E deps \in SUBSET (1..Len(stage)), s \in RowStatuses, op \in BOOLEAN :
          /\ op => s # "pending"
          /\ ~op => s \in {"pending", "failed"}
          /\ AddStage("other", deps, s, op)

AddOrderedStage ==
    /\ decision = "cleanup order" /\ Len(stage) < MaxOrdered
    /\ \E k \in Kinds : AddStage(k, {}, "pending", FALSE)

AddPool ==
    /\ decision = "layout"
    /\ Len(layout.pools) < MaxPools
    /\ \E name \in {"control-plane", "p", "q"}, role \in {"management", "application"}, n \in 1 .. 2, zones \in Zones :
          layout' = [layout EXCEPT !.pools = Append(@, [name |-> name, role |-> role, count |-> n, zones |-> zones])]
    /\ UNCHANGED <<decision, pipeline, counting>>

(* An event that lasts one or two, in the second cluster always one.       *)
Event(s, length) ==
    /\ decision = "counters" /\ length <= 3 - s
    /\ happened[1].count + happened[2].count < MaxEvents
    /\ LET Add(value) == [count |-> value.count + 1, sum |-> value.sum + length]
       IN  /\ counter' = [counter EXCEPT ![s] = Add(@)]
           /\ happened' = [happened EXCEPT ![s] = Add(@)]
    /\ UNCHANGED <<decision, pipeline, layout, samples, fresh, restarts>>

(* The process in the first cluster restarts, and values of it are missing *)
(* in scrapes; the one in the second cluster does neither.                 *)
Restart ==
    /\ decision = "counters" /\ restarts < MaxRestarts
    /\ counter' = [counter EXCEPT ![1] = Nothing]
    /\ restarts' = restarts + 1
    /\ UNCHANGED <<decision, pipeline, layout, happened, samples, fresh>>

Scrape ==
    /\ decision = "counters" /\ Len(samples[1]) < MaxSamples
    /\ \E missing \in SUBSET {"count", "sum"} :
          samples' = [s \in Sources |-> Append(samples[s],
                         [f \in {"count", "sum"} |-> IF s = 1 /\ f \in missing THEN MT!None ELSE counter[s][f]])]
    /\ UNCHANGED <<decision, pipeline, layout, counter, happened, fresh, restarts>>

Next ==
    \/ AddScheduledStage
    \/ AddOrderedStage
    \/ AddPool
    \/ \E s \in Sources, length \in 1 .. 2 : Event(s, length)
    \/ Restart
    \/ Scrape

Spec == Init /\ [][Next]_vars

Ready == readyPipelineStages(needs, max, stage, started)
Order == pipelineCleanupOrder(kind)

(* Scheduling never exceeds the parallelism of the definition: what runs   *)
(* plus what is picked stays within the limit (one when it is omitted), or *)
(* nothing is picked.  It is work conserving and in order: a pending stage *)
(* whose inputs are complete is left out only when the limit is reached by *)
(* running stages and earlier picks; and a sequential pipeline never has a *)
(* stage picked while any earlier one has not succeeded, provided it has   *)
(* run in order so far.                                                    *)
ReadyWithinLimit ==
    LET active == Cardinality(ActiveStages(stage, started))
        Taken(i) == active + Cardinality({j \in Ready : j < i})
    IN  /\ Ready = {} \/ active + Cardinality(Ready) <= Limit(max)
        /\ \A i \in DOMAIN stage \ Ready : Startable(needs, max, stage, started, i) => Taken(i) >= Limit(max)
        /\ max <= 1 /\ (\A i \in 2..Len(stage) : stage[i] # "pending" => stage[i - 1] = "succeeded")
             => \A i \in Ready : \A j \in 1..(i - 1) : stage[j] = "succeeded"

(* The cleanup order visits every stage exactly once and is the order the  *)
(* rule of the comment describes: reverse order, except that the network   *)
(* stages come after everything that runs on top of the last application   *)
(* and before every application.                                           *)
CleanupOrderFollowsRule ==
    /\ Len(Order) = Len(kind)
    /\ {Order[p] : p \in 1..Len(Order)} = 1..Len(kind)
    /\ \A p, q \in 1..Len(Order) : p < q => CleanedBefore(kind, Order[p], Order[q])

(* Starting and cleaning up follow the rules of the definition, for every  *)
(* pipeline and every state of its rows.                                   *)
PlanFollowsItsRules == ReadyWithinLimit /\ CleanupOrderFollowsRule

(* Every configuration that k3s accepts, of a cluster of its own or of a   *)
(* member of a Cilium group, is laid out in a way that passes the checks   *)
(* of the running cluster, for every number of machines that its prechecks *)
(* accept (machineLabels, managedNodeName, createMultiCluster).            *)
LayoutPassesItsChecks ==
    decision = "layout" => \A n \in 1 .. MaxMachines : \A spec \in {layout, NP!createMultiCluster(layout)} :
                              NP!LayoutPassesItsChecks(spec, n)

(* The dataset reports nothing that did not happen: counts and durations,  *)
(* of one cluster and merged over both, never exceed what happened, however*)
(* processes restart and scrapes miss values; cumulative points never      *)
(* fall; and when nothing restarted and the last scrape is complete, fresh *)
(* counters give exactly what happened (counterChanges,                    *)
(* durationCounterSeries, mergeControlSummaries).                          *)
CountersNeverInvent ==
    LET Counts == [s \in Sources |-> [t \in DOMAIN samples[s] |-> samples[s][t].count]]
        Durations(s) == MT!durationCounterSeries(<<samples[s]>>, fresh)
        Merged == MT!mergeControlSummaries("scheduler.cycle_duration",
                      [s \in Sources |-> MT!durationSummary(samples[s], fresh)])
        Evicted == MT!cumulativeCounterSeries(Counts, fresh)
        All(field) == happened[1][field] + happened[2][field]
        last == Len(samples[1])
    IN  decision = "counters" /\ last > 0 =>
          /\ MT!validateControlSummary("scheduler.cycle_duration", Merged)
          /\ Merged.status = "available" => Merged.count <= All("count") /\ Merged.sum <= All("sum")
          /\ \A s \in Sources :
                LET full == MT!None \notin {samples[s][last].count, samples[s][last].sum}
                    current == full /\ samples[s][last] = counter[s]
                IN  /\ Durations(s).count <= happened[s].count
                    /\ Durations(s).total <= happened[s].sum
                    /\ fresh /\ (s = 1 => restarts = 0) /\ current =>
                          Durations(s).count = happened[s].count /\ Durations(s).total = happened[s].sum
          /\ Evicted[last] <= All("count")
          /\ \A t \in 2 .. last : Evicted[t - 1] <= Evicted[t]
=============================================================================
