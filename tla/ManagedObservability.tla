------------------------ MODULE ManagedObservability -----------------------
(***************************************************************************)
(* plugins/managed-observability: metrics and dashboards of a cluster (one *)
(* Helm release with its custom resource definitions) and the mon-agent.   *)
(* The namespace carries the marker from its creation, the definitions are *)
(* marked after the release has made them.  Reads of ownership take an     *)
(* error of the query for the absence of the resource; an outage of the    *)
(* server hits all reads of a loop.                                        *)
(***************************************************************************)
EXTENDS PluginScripts

Roles == {"clusterRoles"}
Objects == {"namespace", "release", "crds", "crdMarks", "monAgent"} \cup Roles

SpecFlaws ==
    {"configuration is not JSON", "cluster is no artifact", "storage is no artifact",
     "unsupported interval", "unsupported retention"}
Resolve == {"artifact missing"}
ClusterFlaws == {"cluster identity", "cluster endpoint", "foreign kubeconfig", "storage of another cluster"}
WritableFlaws == {"no registry host", "directories are not writable"}
validateArtifacts(install) == ClusterFlaws \cup (IF install THEN WritableFlaws ELSE {})

Validate == <<Reject(SpecFlaws)>>

(* API, permissions and the storage class of the capability.               *)
Access(install) == <<Reject(Resolve), Reject(validateArtifacts(install)), Probe, Probe, Probe>>

Found == {"namespace", "crds"} \cup Roles

(* Nothing is found when the server does not answer.                       *)
NothingOnError(i, then) == [i EXCEPT !.error = then]
installConflicts == NothingOnError(Check(Found, {"absent"}), "next")

(* Namespace with our marker; definitions with our marker or with none, if *)
(* the namespace is ours; roles with our marker.  Nothing found is fine,   *)
(* and the end of the cleanup.                                             *)
cleanupOwnership ==
    <<NothingOnError(Check({"namespace"} \cup Roles, NotForeign), "return"),
      NothingOnError(Check({"crds"}, NotOther), "return")>>
    \o ReturnWhen(Found, {"absent"})
    \o When({"namespace"}, {"absent"}, <<Check({"crds"}, {"absent"})>>)

Precheck == Access(TRUE) \o <<installConflicts>>
CleanupPrecheck == Access(FALSE) \o cleanupOwnership

Fetch == Probe
managedValues == Probe

(* helm upgrade --install --atomic: its pods and definitions.              *)
installWithDiagnostics == Apply({"release", "crds"})
MarkCRDs == Apply({"crdMarks"})
discoverEndpoints == Check({"release"}, {"own"})
monAgentManifest == {"monAgent"} \cup Roles

Execute ==
    <<Reject(Resolve), Fetch, managedValues, Apply({"namespace"}), installWithDiagnostics, MarkCRDs,
      discoverEndpoints, Apply(monAgentManifest), Check({"monAgent"}, {"own"})>>

(* Pods, volumes and health endpoints, asked again until the deadline.     *)
waitForReadiness(objects) == Check(objects, {"own"})
waitForManagedReadiness == waitForReadiness({"release", "namespace"})
waitForNodeResourceAnnotations == waitForReadiness({"monAgent"})
verifyCRDOwnership == Check({"crds", "crdMarks"} \cup Roles, {"own"})

Verify ==
    <<Reject(Resolve), Check({"release"}, {"own"}), waitForManagedReadiness, Check({"monAgent"}, {"own"}),
      waitForNodeResourceAnnotations, verifyCRDOwnership>>

Cleanup ==
    <<Reject(Resolve)>> \o cleanupOwnership
    \o <<Delete({"release"}), Delete(Roles), Delete({"crds", "crdMarks"}), Delete({"monAgent"}), Delete({"namespace"})>>

verifyCleanup == NothingOnError(Check(Found, {"absent"}), "next")
CleanupVerify == <<Reject(Resolve), verifyCleanup>>

Plugin ==
    [objects |-> Objects,
     start |-> {[o \in Objects |-> "absent"],
                [o \in Objects |-> IF o = "monAgent" THEN "absent" ELSE "other"]},
     shared |-> {"namespace"}, unmarked |-> {"namespace"}, drifts |-> {"release", "monAgent"}, keeps |-> {},
     provides |-> Objects, mutating |-> TRUE, cleanable |-> TRUE,
     flaws |-> SpecFlaws \cup Resolve \cup ClusterFlaws \cup WritableFlaws,
     validate |-> Validate, precheck |-> Precheck, execute |-> Execute, verify |-> Verify,
     cleanup |-> Cleanup, undo |-> Cleanup, cleanupPrecheck |-> CleanupPrecheck,
     cleanupVerify |-> CleanupVerify]

=============================================================================
