------------------------- MODULE StrategyController -------------------------
(***************************************************************************)
(* plugins/strategy-controller: the managed descheduler, which lives in the*)
(* control namespace of the experiment, and the custom pod autoscaler, one *)
(* per selected workload.                                                  *)
(***************************************************************************)
EXTENDS PluginScripts

(* Names under the control namespace are fixed ("descheduler", "policy"),  *)
(* the cluster wide ones carry the execution id.                           *)
deschedulerManifest == {"descheduler", "binding", "metrics"}
autoscalerManifest  == {"account", "configs", "autoscaler1", "autoscaler2"}
Targets == <<"autoscaler1", "autoscaler2">>

ReferenceFlaws == {"configuration is not JSON", "reference is no artifact", "image outside of the proxy"}
Resolve == {"artifact missing"}
validateArtifacts == {"artifact of another cluster", "target without trait"}
scopedDeschedulerPolicy == {"policy without profiles", "policy of a wrong kind", "selector is no object"}
validateAutoscalerSettings == {"replica bounds", "parameters are no object"}
parseTargetOverrides == {"overrides are no object"}
OverrideTargets == {"override of an unselected target"}

ValidateDescheduler ==
    <<Reject(ReferenceFlaws), Reject({"interval"}), Reject(scopedDeschedulerPolicy)>>
ValidateAutoscaler ==
    <<Reject(ReferenceFlaws), Reject(validateAutoscalerSettings), Reject(parseTargetOverrides)>>

(* The control namespace must carry the marker of the application.         *)
namespaceOwnership == Check({"controlNamespace"}, {"original"})

(* manifest() scopes the policy, or matches the overrides with the targets.*)
ManifestDescheduler == Reject(scopedDeschedulerPolicy)
ManifestAutoscaler  == Reject(parseTargetOverrides \cup OverrideTargets \cup validateAutoscalerSettings)

(* verifyAutoscalers reads the autoscaler of one target after the other.   *)
verifyAutoscalers == Each(LAMBDA o : Check(o, {"own"}), Targets)

(* Precheck up to the branch on step.Cleanup, for both kinds.              *)
PrecheckCommon == <<Reject(Resolve \cup validateArtifacts), Probe>>
PrecheckControl == <<Reject({"control namespace undeclared"}), namespaceOwnership>>

PrecheckDescheduler ==
    PrecheckCommon \o PrecheckControl \o <<ManifestDescheduler, Probe, Probe>>
PrecheckAutoscaler == PrecheckCommon \o <<Probe, ManifestAutoscaler, Probe>>

ExecuteDescheduler ==
    <<Reject(Resolve), ManifestDescheduler, Apply(deschedulerManifest),
      Check({"descheduler"}, {"own"})>>
ExecuteAutoscaler ==
    <<Reject(Resolve), ManifestAutoscaler, Apply(autoscalerManifest)>> \o verifyAutoscalers

VerifyDescheduler == <<Reject(Resolve), Check({"descheduler"}, {"own"})>>
VerifyAutoscaler  == <<Reject(Resolve)>> \o verifyAutoscalers

(* deschedulerResources are read one by one; a missing one is fine, and so *)
(* is one without an annotation.  An autoscaler must contain the marker.   *)
validateCleanupOwnership == <<Check(deschedulerManifest, NotOther)>>
CleanupOwnershipAutoscaler == Each(LAMBDA o : Check(o, NotForeign), Targets)

verifyCleanup == <<Check(deschedulerManifest, {"absent"})>>
VerifyCleanupAutoscaler == Each(LAMBDA o : Check(o, {"absent"}), Targets)

(* kubectl delete --ignore-not-found --wait of the same manifest.          *)
CleanupDescheduler == <<Reject(Resolve), ManifestDescheduler, Delete(deschedulerManifest)>>
CleanupAutoscaler  == <<Reject(Resolve), ManifestAutoscaler, Delete(autoscalerManifest)>>

Descheduler ==
    [objects |-> deschedulerManifest \cup {"controlNamespace"},
     start |-> {[o \in deschedulerManifest |-> "absent"] @@ ("controlNamespace" :> s) :
                   s \in {"original", "other"}},
     shared |-> {"descheduler", "metrics"}, unmarked |-> {"descheduler", "metrics"}, drifts |-> deschedulerManifest,
     keeps |-> {}, provides |-> {"descheduler"}, mutating |-> TRUE, cleanable |-> TRUE,
     flaws |-> ReferenceFlaws \cup Resolve \cup validateArtifacts \cup scopedDeschedulerPolicy
                 \cup {"interval", "control namespace undeclared"},
     validate |-> ValidateDescheduler, precheck |-> PrecheckDescheduler,
     execute |-> ExecuteDescheduler, verify |-> VerifyDescheduler,
     cleanup |-> CleanupDescheduler, undo |-> CleanupDescheduler,
     cleanupPrecheck |-> PrecheckCommon \o PrecheckControl \o validateCleanupOwnership,
     cleanupVerify |-> <<Reject(Resolve)>> \o verifyCleanup]

Autoscaler ==
    [objects |-> autoscalerManifest,
     start |-> {[o \in autoscalerManifest |-> "absent"]},
     shared |-> {}, unmarked |-> {}, drifts |-> autoscalerManifest, keeps |-> {},
     provides |-> {"autoscaler1", "autoscaler2"}, mutating |-> TRUE, cleanable |-> TRUE,
     flaws |-> ReferenceFlaws \cup Resolve \cup validateArtifacts \cup validateAutoscalerSettings
                 \cup parseTargetOverrides \cup OverrideTargets,
     validate |-> ValidateAutoscaler, precheck |-> PrecheckAutoscaler,
     execute |-> ExecuteAutoscaler, verify |-> VerifyAutoscaler,
     cleanup |-> CleanupAutoscaler, undo |-> CleanupAutoscaler,
     cleanupPrecheck |-> PrecheckCommon \o CleanupOwnershipAutoscaler,
     cleanupVerify |-> <<Reject(Resolve)>> \o VerifyCleanupAutoscaler]

=============================================================================
