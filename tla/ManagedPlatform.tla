-------------------------- MODULE ManagedPlatform --------------------------
(***************************************************************************)
(* plugins/managed-platform: service mesh, chaos runtime, autoscaler       *)
(* operator, network measurements, logs, tracing and dashboard of a        *)
(* cluster.  Namespaces and manifests carry the marker of the operation,   *)
(* Helm releases are known by their names only.  On a Cilium cluster the   *)
(* mesh is left out.                                                       *)
(***************************************************************************)
EXTENDS PluginScripts

Namespaces == <<"istioNamespace", "chaosNamespace", "systemNamespace">>
platformNamespaces(cilium) == IF cilium THEN Tail(Namespaces) ELSE Namespaces

supportManifest == {"supportRoles", "mentat", "clusterLens"}
networkObservabilityManifest(cilium) == IF cilium THEN {"jaeger"} ELSE {"jaeger", "telemetry"}
MeshReleases(cilium) == IF cilium THEN {} ELSE {"istio", "kiali"}
Releases(cilium) == {"chaos", "cpa", "loki", "alloy", "headlamp"} \cup MeshReleases(cilium)

Objects(cilium) ==
    Range(Namespaces) \cup supportManifest \cup networkObservabilityManifest(cilium)
      \cup Releases(cilium) \cup {"ingress"}

validateCluster == {"cluster identity", "cluster endpoint", "foreign kubeconfig"}
validManagedRegistryHost == {"no registry host"}
Resolve == {"artifact missing"}

Validate == <<Reject({"configuration is not JSON", "reference is no artifact"})>>

namespaceOwnership(ok) == Each(LAMBDA o : Check(o, ok), Namespaces)

(* Only an object with the marker of somebody else is refused, one without *)
(* a marker passes.                                                        *)
verifySupportOwnershipForNetwork(cilium) ==
    Check(supportManifest \cup networkObservabilityManifest(cilium), NotOther)

PrecheckCluster == <<Probe, Probe>>

(* Reads that must not find anything, the mesh releases of a Cilium        *)
(* cluster among them.                                                     *)
Precheck(cilium) ==
    <<Reject(Resolve), Reject(validateCluster), Reject(validManagedRegistryHost)>>
    \o PrecheckCluster \o namespaceOwnership({"absent"})
    \o <<Check(supportManifest, {"absent"}), Check(Releases(cilium) \ {"istio", "chaos", "cpa"}, {"absent"}),
         Check({"jaeger"}, {"absent"})>>

CleanupPrecheck(cilium) ==
    <<Reject(Resolve), Reject(validateCluster)>> \o PrecheckCluster
    \o namespaceOwnership({"absent", "own"}) \o <<verifySupportOwnershipForNetwork(cilium)>>

(* A download per chart in a goroutine each; the first failure counts.     *)
fetchCharts == Probe

Install(release) == Apply({release})
Rollout(object) == Check({object}, {"own"})

(* The ingress controller of the cluster is moved to the management nodes. *)
placeManagementIngress == <<Probe, Apply({"ingress"})>>

discoverPrometheusService == Probe
readHeadlampToken == Check({"headlamp"}, {"own"})

Execute(cilium) ==
    <<Reject(Resolve), fetchCharts>>
    \o Each(LAMBDA o : Apply(o), platformNamespaces(cilium))
    \o (IF cilium THEN <<>> ELSE placeManagementIngress \o <<Install("istio")>>)
    \o <<Install("chaos"), Install("cpa"), Probe, Rollout("cpa"),
         Reject(validManagedRegistryHost), Probe, Apply(supportManifest), Rollout("mentat"), Rollout("clusterLens"),
         Install("loki"), Install("alloy"), Probe, Apply(networkObservabilityManifest(cilium)), Rollout("jaeger")>>
    \o (IF cilium THEN <<>> ELSE <<discoverPrometheusService, Install("kiali")>>)
    \o <<Install("headlamp"), readHeadlampToken>>

waitForNetworkAnnotations == Probe
validateKialiPrometheusConfig(cilium) == IF cilium THEN <<>> ELSE <<Check({"kiali"}, {"own"}), Probe>>

Verify(cilium) ==
    <<Reject(Resolve), Check(Releases(cilium), {"own"}), Rollout("mentat"), Rollout("clusterLens"),
      Rollout("jaeger"), verifySupportOwnershipForNetwork(cilium), discoverPrometheusService, Probe>>
    \o validateKialiPrometheusConfig(cilium)
    \o <<Probe, readHeadlampToken, waitForNetworkAnnotations, Probe>>

(* Releases in the reverse order, then the namespaces around them.         *)
Cleanup(cilium) ==
    <<Reject(Resolve)>> \o namespaceOwnership({"absent", "own"})
    \o <<Delete(supportManifest), Delete(networkObservabilityManifest(cilium)), Delete({"headlamp"})>>
    \o (IF cilium THEN <<>> ELSE <<Delete({"kiali"})>>)
    \o <<Delete({"alloy"}), Delete({"loki"}), Delete({"cpa"}), Delete({"chaos"})>>
    \o (IF cilium THEN <<>> ELSE <<Delete({"istio"})>>)
    \o <<Delete({"systemNamespace"}), Delete({"chaosNamespace"}), Delete({"istioNamespace"})>>

CleanupVerify ==
    <<Reject(Resolve)>> \o namespaceOwnership({"absent"}) \o <<Check({"supportRoles"}, {"absent"})>>

(* The placement of the ingress controller is not taken back.              *)
Plugin(cilium) ==
    [objects |-> Objects(cilium),
     start |-> {[o \in Objects(cilium) |-> IF o = "ingress" THEN "original" ELSE s] : s \in {"absent", "other"}}
                 \cup {[o \in Objects(cilium) |-> CASE o = "ingress" -> "original"
                                                 [] o = "supportRoles" -> "unmarked"
                                                 [] OTHER -> "absent"]},
     shared |-> {}, unmarked |-> {"supportRoles"}, drifts |-> {"mentat", "headlamp", "chaosNamespace"}, keeps |-> {"ingress"},
     provides |-> Releases(cilium) \cup {"mentat", "clusterLens", "jaeger"}, mutating |-> TRUE, cleanable |-> TRUE,
     flaws |-> {"configuration is not JSON", "reference is no artifact"} \cup Resolve
                 \cup validateCluster \cup validManagedRegistryHost,
     validate |-> Validate, precheck |-> Precheck(cilium), execute |-> Execute(cilium),
     verify |-> Verify(cilium), cleanup |-> Cleanup(cilium), undo |-> Cleanup(cilium),
     cleanupPrecheck |-> CleanupPrecheck(cilium), cleanupVerify |-> CleanupVerify]

=============================================================================
