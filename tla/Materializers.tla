--------------------------- MODULE Materializers ---------------------------
(***************************************************************************)
(* plugins/redis, plugins/mubench and plugins/localai: applications that   *)
(* are generated from their settings.  The steps have no remote effect:    *)
(* Precheck, Execute and Verify compute the same manifests again.  What    *)
(* the schedulers and the collectors rely on is the graph of the generated *)
(* workloads, a set of [id, index, dependencies].                          *)
(***************************************************************************)
EXTENDS PluginScripts

(* plugins/redis: every primary owns its replicas, paired by name.         *)
RedisNodes(primaries, replicas) ==
    {<<"primary", p, 0>> : p \in 1 .. primaries}
      \cup {<<"replica", p, r>> : p \in 1 .. primaries, r \in 1 .. replicas}

RedisWorkloads(primaries, replicas) ==
    {[id |-> n,
      index |-> IF n[1] = "replica" THEN 1 ELSE 0,
      dependencies |-> IF n[1] = "primary" THEN {<<"replica", n[2], r>> : r \in 1 .. replicas} ELSE {}]
     : n \in RedisNodes(primaries, replicas)}

(* The data the bootstrap loads; sizes in units of the limit's unit.       *)
RedisSizeAccepted(keys, payload, listLength, isList, maxElements, maxBytes) ==
    LET size == keys * payload * (IF isList THEN listLength ELSE 1) IN
    /\ isList => keys * listLength <= maxElements
    /\ size <= maxBytes

(* plugins/mubench: services 0 .. count - 1 called along a topology.       *)
graphChildren(index, count, topology) ==
    CASE topology = "chain" -> {index + 1} \cap 0 .. count - 1
      [] topology = "fan-out" -> IF index = 0 THEN 1 .. count - 1 ELSE {}
      [] topology = "tree" -> {2 * index + 1, 2 * index + 2} \cap 0 .. count - 1

(* How often index + 1 can be halved.                                      *)
TreeLevel(index) ==
    LET level[v \in Nat] == IF v <= 1 THEN 0 ELSE 1 + level[v \div 2] IN level[index + 1]

graphIndex(index, topology) ==
    CASE topology = "fan-out" -> IF index = 0 THEN 0 ELSE 1
      [] topology = "tree" -> TreeLevel(index)
      [] OTHER -> index

MuBenchWorkloads(count, topology) ==
    {[id |-> s, index |-> graphIndex(s, topology), dependencies |-> graphChildren(s, count, topology)]
       : s \in 0 .. count - 1}

(* plugins/localai: the proxy in front of one service for each model; -1   *)
(* stands for the proxy.                                                   *)
LocalAIWorkloads(models) ==
    {[id |-> k, index |-> 1, dependencies |-> {}] : k \in 1 .. models}
      \cup {[id |-> -1, index |-> 0, dependencies |-> 1 .. models]}

(***************************************************************************)
(* The steps.                                                              *)
(***************************************************************************)
workloadresources == {"resource quantity", "request above limit", "override of an unknown service"}
resolveMaterializer == {"configuration is not JSON", "not an application of this materializer",
                        "values against the schema"}
RedisConfiguration == {"initial data too large"} \cup workloadresources
materializerConfiguration == {"service count", "topology", "replicas"} \cup workloadresources
LocalAIConfiguration == {"model not in the registry", "model count", "replicas"} \cup workloadresources

(* The configuration is checked again by every call.                       *)
Materialize(configuration) == <<Reject(configuration)>>

Materializer(configuration, generator) ==
    [objects |-> {}, start |-> {<<>>}, shared |-> {}, unmarked |-> {}, drifts |-> {}, keeps |-> {}, provides |-> {},
     mutating |-> FALSE, cleanable |-> FALSE, flaws |-> resolveMaterializer \cup configuration \cup generator,
     validate |-> <<Reject(resolveMaterializer), Reject(configuration)>>,
     precheck |-> Materialize(configuration \cup generator),
     execute |-> Materialize(configuration \cup generator),
     verify |-> Materialize(configuration \cup generator),
     cleanup |-> <<>>, undo |-> <<>>, cleanupPrecheck |-> <<>>, cleanupVerify |-> <<>>]

Redis == Materializer(RedisConfiguration, {})
MuBench == Materializer(materializerConfiguration, {"workload profile"})
LocalAI == Materializer(LocalAIConfiguration, {})

=============================================================================
