----------------------------- MODULE NodePools -----------------------------
(***************************************************************************)
(* How plugins/k3s lays the machines of a topology out in node pools: the  *)
(* names and labels it installs the nodes with (Execute, reconcile), and   *)
(* what it later demands of the inventory of the running cluster (Execute, *)
(* Verify, ApplyPoolSettings).  A configuration is a record of the         *)
(* networking, the number of control planes, their zones and the pools, in *)
(* their order; a machine is known by its position.                        *)
(***************************************************************************)
EXTENDS Integers, Sequences, FiniteSets

Unpooled(spec) == spec.pools = <<>> /\ spec.zones = <<>>

(* Workers before the k-th pool.                                           *)
Before(pools, k) ==
    LET sum[i \in 0 .. Len(pools)] == IF i = 0 THEN 0 ELSE sum[i - 1] + pools[i].count IN sum[k - 1]
Workers(pools) == IF pools = <<>> THEN 0 ELSE Before(pools, Len(pools)) + pools[Len(pools)].count

(* Mutant: the range of a pool has one worker too many.                    *)
PoolsOfInclusive(pools, worker) == {k \in DOMAIN pools : worker <= Before(pools, k) + pools[k].count}

(* The pools whose range a worker falls into: the first one of them is its *)
(* pool.                                                                   *)
PoolsOf(pools, worker) == {k \in DOMAIN pools : worker < Before(pools, k) + pools[k].count}
PoolOf(pools, worker) == CHOOSE k \in PoolsOf(pools, worker) : \A n \in PoolsOf(pools, worker) : k <= n

managedNodeName(spec, position) ==
    LET worker == position - spec.controlPlanes
        k == PoolOf(spec.pools, worker)
    IN CASE worker < 0 -> <<"control-plane", position + 1>>
         [] worker >= 0 /\ PoolsOf(spec.pools, worker) = {} -> <<"worker", worker + 1>>
         [] OTHER -> <<spec.pools[k].name, worker - Before(spec.pools, k) + 1>>

NoLabels == [pool |-> "", role |-> "", zone |-> "", cluster |-> ""]
ClusterName == "cluster"

Zone(zones, index) == zones[(index % Len(zones)) + 1]

(* Under Cilium a node carries the name of its cluster instead of a zone,  *)
(* and that name is what is read back as its placement.  The labels a user *)
(* gives a pool have other keys (placement.ValidateLabels).                *)
ciliumPoolLabels(spec, labels) ==
    IF spec.networking = "cilium" THEN [labels EXCEPT !.cluster = ClusterName, !.zone = ""] ELSE labels

nodePlacementLabel(labels) == IF labels.cluster # "" THEN labels.cluster ELSE labels.zone

machineLabels(spec, position) ==
    LET worker == position - spec.controlPlanes
        k == PoolOf(spec.pools, worker)
    IN CASE Unpooled(spec) -> NoLabels
         [] ~ Unpooled(spec) /\ worker < 0 ->
               ciliumPoolLabels(spec, [pool |-> "control-plane", role |-> "control-plane",
                                       zone |-> Zone(spec.zones, position), cluster |-> ""])
         [] ~ Unpooled(spec) /\ worker >= 0 /\ PoolsOf(spec.pools, worker) = {} -> NoLabels
         [] OTHER -> ciliumPoolLabels(spec, [pool |-> spec.pools[k].name, role |-> spec.pools[k].role,
                        zone |-> Zone(spec.pools[k].zones, worker - Before(spec.pools, k)), cluster |-> ""])

validatePoolConfiguration(spec) ==
    ~ Unpooled(spec) =>
       /\ spec.zones # <<>>
       /\ \A i \in DOMAIN spec.pools :
             /\ spec.pools[i].name # "control-plane"
             /\ \A j \in DOMAIN spec.pools : spec.pools[i].name = spec.pools[j].name => i = j
             /\ spec.pools[i].role \in {"management", "application"}
             /\ spec.pools[i].count \in 1 .. 12
             /\ spec.pools[i].zones # <<>>
             /\ \A a, b \in DOMAIN spec.pools[i].zones : spec.pools[i].zones[a] = spec.pools[i].zones[b] => a = b
       /\ Cardinality({i \in DOMAIN spec.pools : spec.pools[i].role = "management"}) = 1

validatePoolCapacity(spec, machines) ==
    Unpooled(spec) \/ spec.controlPlanes + Workers(spec.pools) = machines

(***************************************************************************)
(* The inventory of a running cluster is a function from node names to     *)
(* their role in Kubernetes and the labels read back.                      *)
(***************************************************************************)
KubernetesRole(spec, position) == IF position < spec.controlPlanes THEN "control-plane" ELSE "worker"

Count(nodes, pool, zone) == Cardinality({n \in DOMAIN nodes : nodes[n].pool = pool /\ nodes[n].zone = zone})

Expected(size, zones, zone) == Cardinality({i \in 0 .. size - 1 : Zone(zones, i) = zone})

PoolMatches(nodes, pool, size, zones) ==
    LET members == {n \in DOMAIN nodes : nodes[n].pool = pool}
    IN /\ Cardinality(members) = size
       /\ \A zone \in {nodes[n].zone : n \in members} \cup {zones[i] : i \in DOMAIN zones} :
             Count(nodes, pool, zone) = Expected(size, zones, zone)

validateInventoryPools(nodes, spec) ==
    Unpooled(spec) \/
       /\ \A n \in DOMAIN nodes :
             /\ nodes[n].pool # "" /\ nodes[n].zone # ""
             /\ (nodes[n].role = "control-plane") = (nodes[n].pool = "control-plane")
       /\ {nodes[n].pool : n \in DOMAIN nodes} = {"control-plane"} \cup {spec.pools[i].name : i \in DOMAIN spec.pools}
       /\ PoolMatches(nodes, "control-plane", spec.controlPlanes, spec.zones)
       /\ \A i \in DOMAIN spec.pools :
             PoolMatches(nodes, spec.pools[i].name, spec.pools[i].count, spec.pools[i].zones)

validateInventoryTopology(nodes, machines, spec) ==
    /\ Cardinality(DOMAIN nodes) = machines
    /\ \A position \in 0 .. machines - 1 :
          /\ managedNodeName(spec, position) \in DOMAIN nodes
          /\ nodes[managedNodeName(spec, position)].role = KubernetesRole(spec, position)

(* What the cluster reports after every machine of a topology was installed*)
(* with its name and labels: K3s registers nodes under their names.        *)
Installed(spec, machines) ==
    [name \in {managedNodeName(spec, p) : p \in 0 .. machines - 1} |->
        LET p == CHOOSE q \in 0 .. machines - 1 : managedNodeName(spec, q) = name
        IN [role |-> KubernetesRole(spec, p), pool |-> machineLabels(spec, p).pool,
            zone |-> nodePlacementLabel(machineLabels(spec, p))]]

(* What the API makes out of a member of a group of clusters: Cilium, with *)
(* the name of the member as the zone of everything it lists.              *)
createMultiCluster(spec) ==
    [networking |-> "cilium", controlPlanes |-> spec.controlPlanes, zones |-> <<ClusterName>>,
     pools |-> [i \in DOMAIN spec.pools |-> [spec.pools[i] EXCEPT !.zones = <<ClusterName>>]]]

(* Validate does not tie the zones of a Cilium configuration to the name   *)
(* of the cluster; createMultiCluster does.                                *)
ZonesAreTheCluster(spec) ==
    spec.zones = <<ClusterName>> /\ \A i \in DOMAIN spec.pools : spec.pools[i].zones = <<ClusterName>>

(* Every configuration that Validate and Precheck let pass, with the zones *)
(* that the API gives it when it is a Cilium one, is installed with as     *)
(* many distinct nodes as machines, and the cluster that comes up passes   *)
(* the checks of its topology and of its pools: Execute and Verify cannot  *)
(* fail on a layout KubePhos made itself.                                  *)
LayoutPassesItsChecks(spec, machines) ==
    spec.controlPlanes \in {1, 3} /\ spec.controlPlanes <= machines
    /\ (spec.networking = "cilium" => ZonesAreTheCluster(spec))
    /\ validatePoolConfiguration(spec) /\ validatePoolCapacity(spec, machines) =>
       /\ validateInventoryTopology(Installed(spec, machines), machines, spec)
       /\ validateInventoryPools(Installed(spec, machines), spec)

=============================================================================
