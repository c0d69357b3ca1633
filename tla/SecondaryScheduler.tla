------------------------- MODULE SecondaryScheduler -------------------------
(***************************************************************************)
(* plugins/secondary-scheduler: a scheduler installed in the control       *)
(* namespace of the experiment, to which the selected workloads of the     *)
(* application are bound by a patch that records their former scheduler.   *)
(* A prepared application is deployed with the binding in its manifests,   *)
(* then the plugin leaves the workloads alone.                             *)
(***************************************************************************)
EXTENDS PluginScripts

(* schedulerManifest, split by partitionSchedulerManifest into the role    *)
(* bindings, named after the execution, and the objects with fixed names   *)
(* of the control namespace.                                               *)
Foundation == {"schedulerBinding", "authReader"}
Components == {"scheduler", "metrics"}
schedulerResources == Foundation \cup Components
Workloads == <<"workload1", "workload2">>
Namespaces == {"application", "controlNamespace"}

normalizedSchedulerConfig == {"configuration of a wrong kind", "not exactly one profile"}
ValidateFlaws == {"configuration is not JSON", "reference is no artifact", "reference used twice",
                  "image outside of the proxy"}
Resolve == {"artifact missing"}
validateArtifacts == {"foreign scheduler identity", "artifact of another cluster",
                      "target differs from its declaration"}

Validate == <<Reject(ValidateFlaws), Reject(normalizedSchedulerConfig)>>

namespaceOwnership(namespace) == Check({namespace}, {"original"})
ensureSchedulerResourcesAbsent == Check(schedulerResources, {"absent"})

(* readWorkload fails for a missing workload; validateUnboundWorkload for  *)
(* one that carries the marker of any scheduler operation.                 *)
validateUnboundWorkload(o) == Check(o, {"original"})

(* One goroutine per target, the failures are joined at the end.           *)
precheckTargets == Each(LAMBDA o : Deferred(validateUnboundWorkload(o)), Workloads)

PrecheckCluster == <<Reject(Resolve), Reject(validateArtifacts), Probe, Probe>>

Precheck(prepared) ==
    PrecheckCluster
    \o <<namespaceOwnership("application"), namespaceOwnership("controlNamespace"),
         ensureSchedulerResourcesAbsent, Reject(normalizedSchedulerConfig), Probe, Probe>>
    \o IF prepared THEN <<>> ELSE precheckTargets

(* An object without a marker passes, as does a workload without one.      *)
validateCleanupOwnership(prepared) ==
    <<Check(schedulerResources, NotOther)>>
    \o IF prepared THEN <<>> ELSE Each(LAMBDA o : Check(o, NotOther), Workloads)

CleanupPrecheck(prepared) ==
    PrecheckCluster
    \o (IF prepared THEN <<>> ELSE <<namespaceOwnership("application")>>)
    \o <<namespaceOwnership("controlNamespace")>> \o validateCleanupOwnership(prepared)

(* waitForTargetStable: two samples in a row with the binding in place.    *)
waitForTargetStable(o) == Check(o, {"changed"})
bind(o) == <<validateUnboundWorkload(o), Patch(o), waitForTargetStable(o)>>

waitForScheduler == Check({"scheduler"}, {"own"})

Execute(prepared) ==
    <<Reject(Resolve), Reject(normalizedSchedulerConfig), Apply(Foundation),
      namespaceOwnership("controlNamespace"), Probe, Apply(Components), waitForScheduler>>
    \o IF prepared THEN <<>> ELSE bind({"workload1"}) \o bind({"workload2"})

verifyTargets == Each(LAMBDA o : Deferred(Check(o, {"changed"})), Workloads)

Verify(prepared) ==
    <<Reject(Resolve), Check({"scheduler"}, {"own"})>>
    \o IF prepared THEN <<>> ELSE verifyTargets

(* A workload that is gone or does not carry our marker is passed over;    *)
(* the other one is patched back and its rollout awaited.                  *)
restore(o) == <<SkipUnless(Check(o, {"changed"}), 2), Restore(o), Probe>>

Cleanup(prepared) ==
    <<Reject(Resolve)>> \o validateCleanupOwnership(prepared)
    \o (IF prepared THEN <<>> ELSE restore({"workload1"}) \o restore({"workload2"}))
    \o <<Reject(normalizedSchedulerConfig), Delete(schedulerResources)>>

verifyCleanup(prepared) ==
    <<Check(schedulerResources, {"absent"})>>
    \o IF prepared THEN <<>> ELSE Each(LAMBDA o : Check(o, {"absent", "original"}), Workloads)

Plugin(prepared) ==
    [objects |-> schedulerResources \cup Range(Workloads) \cup Namespaces,
     start |-> {[o \in schedulerResources |-> "absent"] @@ w @@ n :
                   w \in [Range(Workloads) -> {"original", "other"}],
                   n \in [Namespaces -> {"original", "other"}]},
     shared |-> Components, unmarked |-> Components, drifts |-> schedulerResources \cup Range(Workloads),
     keeps |-> {}, mutating |-> TRUE, cleanable |-> TRUE,
     provides |-> {"scheduler"} \cup (IF prepared THEN {} ELSE Range(Workloads)),
     flaws |-> ValidateFlaws \cup normalizedSchedulerConfig \cup Resolve \cup validateArtifacts,
     validate |-> Validate, precheck |-> Precheck(prepared), execute |-> Execute(prepared),
     verify |-> Verify(prepared), cleanup |-> Cleanup(prepared), undo |-> Cleanup(prepared),
     cleanupPrecheck |-> CleanupPrecheck(prepared),
     cleanupVerify |-> <<Reject(Resolve)>> \o verifyCleanup(prepared)]

=============================================================================
