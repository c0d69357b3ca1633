------------------------ MODULE ApplicationDeployer ------------------------
(***************************************************************************)
(* plugins/application-deployer: the application of an experiment or of a  *)
(* standalone deployment, in a namespace that carries the marker of the    *)
(* execution.  Five uses of the one step:                                  *)
(*   standalone  a new namespace named by the user, policy "create";       *)
(*   generated   a namespace named after the execution;                    *)
(*   named       a namespace named by an experiment, deleted and recreated *)
(*               before the run whoever made it (docs/experiments.md:19);  *)
(*   prepare     the namespace and the control namespace only;             *)
(*   deploy      the application into what prepare has made.               *)
(* The edits of the placement that go on meanwhile are module Placement.    *)
(***************************************************************************)
EXTENDS PluginScripts

Uses == {"standalone", "generated", "named", "prepare", "deploy"}

Contents == {"observer", "proxies", "workloads"}
Controlled(use) == use \in {"prepare", "deploy"}
Objects(use) ==
    {"namespace"}
      \cup (IF use = "prepare" THEN {} ELSE Contents)
      \cup (IF Controlled(use) THEN {"controlNamespace"} ELSE {})
      \cup (IF use = "standalone" THEN {"placementControl"} ELSE {})

resetApplicationNamespace(use) == use = "named"

Marked == {"own", "changed"}

(* Nothing under the name and a namespace without a marker look the same   *)
(* to the query; the marker of another execution is an error.              *)
namespaceOwnership(namespace, ok) == Check({namespace}, ok)
NoOtherMarker == NotOther

ValidateApplicationNamespace == {"namespace is not allowed"}
SpecFlaws ==
    {"configuration is not JSON", "too many overrides", "proxy resources", "placement control",
     "placement settings", "namespace policy", "mode", "disruption budget",
     "reference is no artifact", "reference repeated"}
Resolve == {"namespace differs from the plan", "artifact missing", "artifact is not JSON"}
validateArtifacts ==
    {"cluster identity", "cluster endpoint", "foreign kubeconfig", "manifest identity",
     "manifest digest", "no workload", "workload target", "workload selector", "service endpoint"}
validateManifestIsolation ==
    {"manifest cannot be decoded", "resource without identity", "declared namespace",
     "list resource", "cluster scoped resource", "no resources"}

Validate == <<Reject(ValidateApplicationNamespace \cup SpecFlaws)>>

(* API readiness and the permissions of the connection.                    *)
Access == <<Reject(Resolve), Reject(validateArtifacts), Probe, Reject({"not an administrator"})>>
clusterScopedKinds == Probe

(* The manifest as it will be applied: injection, proxy resources and      *)
(* placement of every service.                                             *)
configureIstioInjection == {"unknown service in the injection overrides"}
configureProxyResources == {"unknown service in the proxy resources"}
configureApplicationPlacement == {"unknown service in the placement", "placement conflict"}
configureApplicationManifest ==
    Reject(configureIstioInjection \cup configureProxyResources \cup configureApplicationPlacement)

(* One proxy per application node instead of the declared entrypoint, or   *)
(* gateways and routes on a Cilium cluster; budgets for the workloads.     *)
discoverApplicationNodes == Probe
expandTrafficEntrypoints == {"entrypoint cannot be expanded"}
ciliumGatewayPackage == {"entrypoint has no supported route"}
assignApplicationPlacement == {"workload cannot be placed"}
addPodDisruptionBudgets == {"budget cannot be added"}
prepareRuntimePackage == <<Reject(assignApplicationPlacement), discoverApplicationNodes, Reject(expandTrafficEntrypoints)>>
prepareNetworkPackage ==
    prepareRuntimePackage \o <<Reject(ciliumGatewayPackage), Reject(addPodDisruptionBudgets)>>

assignScheduler == Reject({"scheduler selects no workload"})
Package == <<configureApplicationManifest>> \o prepareNetworkPackage \o <<assignScheduler>>

(* What the call that installs accepts under the name of the namespace.    *)
Free(use) == CASE use = "standalone" -> {"absent", "unmarked"}
               [] use = "generated" -> {"absent", "unmarked"}
               [] use = "named" -> States
               [] use = "prepare" -> {"absent", "unmarked"}
               [] use = "deploy" -> Marked

Precheck(use) ==
    Access \o <<namespaceOwnership("namespace", Free(use))>>
    \o (CASE use = "prepare" -> <<namespaceOwnership("controlNamespace", {"absent", "unmarked"})>>
          [] use = "deploy" -> <<namespaceOwnership("controlNamespace", Marked)>>
          [] OTHER -> <<>>)
    \o <<clusterScopedKinds, Reject(validateManifestIsolation)>> \o Package
    \o <<Reject({"manifest refused by the server"}), Probe>>

CleanupPrecheck(use) ==
    Access \o (IF use = "standalone" THEN ReturnWhen({"namespace"}, {"other"}) ELSE <<>>)
    \o <<namespaceOwnership("namespace", NoOtherMarker)>>
    \o (IF use = "prepare" THEN <<namespaceOwnership("controlNamespace", NoOtherMarker)>> ELSE <<>>)

(* The deletion is asked for until the server takes it, and waited for;    *)
(* what is in the namespace goes before it.                                *)
deleteNamespace(use) == <<Delete(Objects(use) \cap Contents), Delete({"namespace"})>>

(* A configmap in the default namespace under the name of the execution.   *)
readPlacementControl == Check({"placementControl"}, NotForeign)

(* Policy "create" fails on an existing namespace, the others take it.     *)
MakeNamespace(use) == IF use = "standalone" THEN Create({"namespace"}) ELSE Apply({"namespace"})

Observe == <<Apply({"observer"}), Check({"observer"}, {"own"})>>

(* Proxies first, so that they have their room before the application.     *)
waitSelectedPodsCondition(objects) == Check(objects, {"own"})
applyRuntimeManifest == <<Apply({"proxies"}), waitSelectedPodsCondition({"proxies"}), Apply({"workloads"})>>
verifyCiliumGateways == Check({"proxies"}, {"own"})

Execute(use) ==
    <<Reject(Resolve)>>
    \o (IF resetApplicationNamespace(use) THEN <<Reject(ValidateApplicationNamespace)>> \o deleteNamespace(use) ELSE <<>>)
    \o (IF use = "standalone" THEN <<readPlacementControl>> ELSE <<>>)
    \o Package \o <<MakeNamespace(use), Probe>>
    \o (IF use = "prepare" THEN <<Apply({"controlNamespace"})>>
        ELSE Observe \o applyRuntimeManifest \o <<verifyCiliumGateways>>)

(* Every declared workload ready three times in a row.                     *)
StabilityChecks == 3
verifyWorkloads == waitSelectedPodsCondition({"proxies", "workloads"})
verifyStableWorkloads == [check \in 1 .. StabilityChecks |-> verifyWorkloads]
verifyBootstrapJobs == Probe
verifySchedulerAssignments == Check({"workloads"}, {"own"})
verifyEndpoints == Check({"proxies", "workloads"}, {"own"})

Verify(use) ==
    <<Reject(Resolve)>> \o Package \o <<namespaceOwnership("namespace", Marked)>>
    \o (IF Controlled(use) THEN <<namespaceOwnership("controlNamespace", Marked)>> ELSE <<>>)
    \o (IF use = "prepare" THEN <<>>
        ELSE verifyStableWorkloads \o <<verifyBootstrapJobs, verifySchedulerAssignments, verifyEndpoints>>)

Cleanup(use) ==
    <<Reject(Resolve)>>
    \o (IF use = "standalone" THEN ReturnWhen({"namespace"}, {"other"}) ELSE <<>>)
    \o <<namespaceOwnership("namespace", NoOtherMarker)>>
    \o (IF use = "standalone" THEN <<readPlacementControl, Delete({"placementControl"})>> ELSE <<>>)
    \o When({"namespace"}, Marked, deleteNamespace(use))
    \o (IF use = "prepare"
        THEN <<namespaceOwnership("controlNamespace", NoOtherMarker)>>
             \o When({"controlNamespace"}, Marked, <<Delete({"controlNamespace"})>>)
        ELSE <<>>)

CleanupVerify(use) ==
    <<Reject(Resolve)>>
    \o (IF use = "standalone" THEN ReturnWhen({"namespace"}, {"other"}) ELSE <<>>)
    \o <<Check({"namespace"}, {"absent"})>>
    \o (IF use = "prepare" THEN <<Check({"controlNamespace"}, {"absent"})>> ELSE <<>>)

(* Whatever a named namespace holds counts as the experiment's.  A         *)
(* namespace of a name made for the execution is nobody else's unless it   *)
(* carries a marker.  The placement control is written by edits and stays  *)
(* when the namespace turns out to be another's.                           *)
Starts(use) ==
    CASE use = "named" -> {"absent", "own"}
      [] use = "deploy" -> {"own"}
      [] use = "standalone" -> {"absent", "other", "unmarked"}
      [] OTHER -> {"absent", "other"}

StartFrom(use, s) ==
    [o \in Objects(use) |-> IF o \in {"namespace", "controlNamespace"} THEN s ELSE "absent"]

Plugin(use) ==
    [objects |-> Objects(use),
     start |-> {StartFrom(use, s) : s \in Starts(use)}
                 \cup (IF use = "standalone"
                       THEN {[StartFrom(use, s) EXCEPT !["placementControl"] = c] :
                                s \in Starts(use), c \in {"own", "other"}}
                       ELSE {}),
     shared |-> Objects(use) \cap {"namespace", "controlNamespace"},
     unmarked |-> IF use = "standalone" THEN {"namespace"} ELSE {},
     drifts |-> Objects(use) \cap {"workloads", "controlNamespace"},
     keeps |-> Objects(use) \cap (IF use = "deploy" THEN {"controlNamespace"} ELSE {"placementControl"}),
     provides |-> Objects(use) \ {"placementControl"}, mutating |-> TRUE, cleanable |-> TRUE,
     flaws |-> IF use # "standalone" THEN {}
               ELSE ValidateApplicationNamespace \cup SpecFlaws \cup Resolve \cup validateArtifacts
                 \cup validateManifestIsolation \cup configureApplicationManifest.flaws
                 \cup {"not an administrator", "manifest refused by the server"},
     validate |-> Validate, precheck |-> Precheck(use), execute |-> Execute(use),
     verify |-> Verify(use), cleanup |-> Cleanup(use), undo |-> Cleanup(use),
     cleanupPrecheck |-> CleanupPrecheck(use), cleanupVerify |-> CleanupVerify(use)]

=============================================================================
