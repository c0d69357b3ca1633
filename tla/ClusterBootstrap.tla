-------------------------- MODULE ClusterBootstrap -------------------------
(***************************************************************************)
(* plugins/k3s and plugins/cilium-mesh: a K3s cluster on the machines of a *)
(* topology, its maintenance, and the mesh that connects several clusters. *)
(* There is no ownership marker on a machine: a K3s binary that is already *)
(* there is what the precheck looks for.                                   *)
(***************************************************************************)
EXTENDS PluginScripts

(***************************************************************************)
(* plugins/k3s, installation                                               *)
(***************************************************************************)
Machines == {"primary", "joined"}
Cluster == Machines \cup {"cilium"}
K3sObjects == Cluster \cup {"registry"}

Spec == {"configuration is not JSON", "machine set reference", "machine access reference", "cluster name",
         "control planes"}
validateNetworking == {"cilium without networks", "networks overlap", "cluster id"}
PoolFlaws == {"pools", "registry reference"}
ValidateFlaws == Spec \cup validateNetworking \cup PoolFlaws

resolve == Reject({"artifact missing"})
ArtifactFlaws == {"too few machines", "pool capacity", "machine artifacts"}
validateMachineArtifacts == Reject(ArtifactFlaws)
resolveRegistry == Reject({"registry artifacts"})

(* runAll: the same command on all machines at once, each of them may be   *)
(* the one that fails.                                                     *)
runAll(i) == <<i>>

registryConfigurationCommand == Apply({"registry"})
installCommandForSpec(o) == Apply({o})
waitForAPI == Check({"primary"}, Present)
installCilium == <<Apply({"cilium"}), Check({"cilium"}, Present)>>
waitForInventory == Check(Machines, Present)
validateInventoryTopology == Probe
warmRegistryProfile == Check({"registry"}, Present)
Kubeconfig == Probe

Bootstrap ==
    <<resolve, resolveRegistry>> \o runAll(registryConfigurationCommand) \o
    <<installCommandForSpec("primary"), waitForAPI>> \o runAll(installCommandForSpec("joined")) \o
    installCilium \o <<waitForInventory, validateInventoryTopology, warmRegistryProfile, Kubeconfig>>

VerifyCluster ==
    <<resolve, Check({"primary"}, Present), waitForInventory, validateInventoryTopology, resolveRegistry,
      Check({"registry"}, Present)>>

(* The uninstallation script of K3s if there is one, and the registry      *)
(* files, on every machine of the topology.                                *)
K3sCleanup == <<resolve>> \o runAll(Delete(K3sObjects))

K3sCleanupVerify == <<resolve>> \o runAll(Check(Machines \cup {"registry"}, {"absent"}))

K3s ==
    [objects |-> K3sObjects,
     start |-> {[o \in K3sObjects |-> "absent"],
                [o \in K3sObjects |-> IF o = "joined" THEN "other" ELSE "absent"]},
     shared |-> {}, unmarked |-> {}, drifts |-> {"joined"}, keeps |-> {}, provides |-> Machines,
     mutating |-> TRUE, cleanable |-> TRUE,
     flaws |-> ValidateFlaws \cup ArtifactFlaws \cup {"artifact missing", "registry artifacts"},
     validate |-> <<Reject(ValidateFlaws)>>,
     precheck |-> <<resolve, validateMachineArtifacts, resolveRegistry>> \o runAll(Check(Machines, {"absent"})),
     execute |-> Bootstrap,
     verify |-> VerifyCluster,
     cleanup |-> K3sCleanup, undo |-> K3sCleanup,
     cleanupPrecheck |-> <<resolve, validateMachineArtifacts, resolveRegistry>> \o runAll(Probe),
     cleanupVerify |-> K3sCleanupVerify]

(***************************************************************************)
(* plugins/k3s, maintenance: the cluster is there and carries experiments; *)
(* new machines join, wait until they are ready, and only then those that  *)
(* leave are drained.  "leaving" is a machine of the previous topology.    *)
(* Cleanup does not ask whether the step was a reconciliation.             *)
(***************************************************************************)
ReconcileFlaws == {"previous topology", "primary replaced", "protected nodes changed", "unmanaged node",
                   "version differs"}

validateRemovableVolumes == Reject({"volume on the node"})

reconcileNodeSettings == <<Probe, Patch({"settings"})>>

drainAndRemove ==
    <<validateRemovableVolumes, Check({"leaving"}, Present), Instruction({}, {"leaving"}, Present,
        [Same EXCEPT !["original"] = "changed"]), Check({"primary"}, Present)>>

reconcile ==
    <<resolve, Reject(ReconcileFlaws), Check({"primary"}, Present), resolveRegistry, Apply({"joining"}),
      Check({"primary", "joining"}, Present), Probe>> \o drainAndRemove \o reconcileNodeSettings \o
    <<Check({"primary", "joining"}, Present), validateInventoryTopology, Kubeconfig>>

Reconcile ==
    [objects |-> {"primary", "joining", "leaving", "settings"},
     start |-> {[primary |-> "original", joining |-> "absent", leaving |-> "original", settings |-> "original"]},
     shared |-> {}, unmarked |-> {}, drifts |-> {}, keeps |-> {"leaving", "settings"}, provides |-> {"joining"},
     mutating |-> TRUE, cleanable |-> TRUE,
     flaws |-> ReconcileFlaws \cup ValidateFlaws \cup ArtifactFlaws \cup
               {"artifact missing", "registry artifacts"},
     validate |-> <<Reject(ValidateFlaws)>>,
     precheck |-> <<resolve, validateMachineArtifacts, resolveRegistry>> \o runAll(Probe),
     execute |-> reconcile,
     verify |-> <<resolve, Check({"primary", "joining"}, Present), validateInventoryTopology, resolveRegistry>>,
     cleanup |-> <<resolve>> \o runAll(Delete({"primary", "joining"})),
     undo |-> <<resolve>> \o runAll(Delete({"primary", "joining"})),
     cleanupPrecheck |-> <<resolve, validateMachineArtifacts, resolveRegistry>> \o runAll(Probe),
     cleanupVerify |-> <<resolve>> \o runAll(Check({"primary", "joining"}, {"absent"}))]

(***************************************************************************)
(* plugins/cilium-mesh: every pair of clusters is connected, then the peers*)
(* are written down for the Helm controller of each cluster.  Cleanup      *)
(* writes an empty membership and leaves the values, the scrape jobs and   *)
(* the environment of the monitoring as they are.                          *)
(***************************************************************************)
validateSpec == {"not two to six clusters", "names or ids not unique", "networks overlap", "references"}
MeshResolve == {"connection missing", "identity mismatch", "capability of another cluster"}
Monitoring == {"mentat", "lens", "prometheus"}

meshValues == Check({"link"}, Present)
MeshResolved == Reject(validateSpec \cup MeshResolve)

PersistMeshConfiguration(members) ==
    <<members, Probe, Check({"values"}, NotForeign), Apply({"values"}), Patch({"chart"})>>

configureMeshFederation == <<Probe, Apply({"scrape"}), Patch({"prometheus"})>>
configureMeshMeasurements ==
    <<Apply({"service"}), Patch({"mentat"}), Probe, Patch({"lens"}), Probe>> \o configureMeshFederation

VerifyMeshConnections == <<Check({"link"}, {"own"}), Probe>>

CiliumMesh ==
    [objects |-> {"link", "values", "chart", "service", "scrape"} \cup Monitoring,
     start |-> {[o \in {"link", "service", "scrape"} |-> "absent"] @@ [values |-> v] @@
                [o \in {"chart"} \cup Monitoring |-> "original"] : v \in {"absent", "other"}},
     shared |-> {}, unmarked |-> {}, drifts |-> {}, keeps |-> {"values", "chart", "service", "scrape"} \cup Monitoring,
     provides |-> {"link", "values", "chart"} \cup Monitoring, mutating |-> TRUE, cleanable |-> TRUE,
     flaws |-> validateSpec \cup MeshResolve \cup {"live identity"},
     validate |-> <<Reject(validateSpec)>>,
     precheck |-> <<MeshResolved, Probe, Probe, Reject({"live identity"})>>,
     execute |-> <<MeshResolved, Apply({"link"})>> \o PersistMeshConfiguration(meshValues) \o
                 VerifyMeshConnections \o configureMeshMeasurements,
     verify |-> <<MeshResolved>> \o VerifyMeshConnections,
     cleanup |-> <<MeshResolved, Delete({"link"})>> \o PersistMeshConfiguration(Check({"link"}, {"absent"})),
     undo |-> <<MeshResolved, Delete({"link"})>> \o PersistMeshConfiguration(Check({"link"}, {"absent"})),
     cleanupPrecheck |-> <<MeshResolved, Probe, Probe, Reject({"live identity"})>>,
     cleanupVerify |-> <<MeshResolved>>]

=============================================================================
