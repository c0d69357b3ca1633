---------------------------- MODULE LoadSession ----------------------------
(***************************************************************************)
(* plugins/load-session: the load generators of a run.  Action "start"     *)
(* creates a deployment of load workers, waits for the end of the timeline *)
(* and scales it down; "stop" and "resume" change the intensity of a       *)
(* session that exists and remember the former one in an annotation.       *)
(***************************************************************************)
EXTENDS PluginScripts

validateLoadTimeline == {"number of steps", "step duration", "timeline longer than a day", "step parameters"}
validateSpecTimeline == validateLoadTimeline \cup {"network phases without a finite timeline", "interactive with a timeline"}
validateWeights == {"zone weights"}
validateGeographicTimeline == validateWeights \cup {"geographic step", "geographic duration differs"}
ValidateFlaws == {"configuration is not JSON", "reference is no artifact", "reference used twice",
                  "scenario name", "unknown action", "number of workers", "number of users", "spawn rate"}

(* resolve looks the scenario and its endpoint up as well.                 *)
Resolve == {"artifact missing", "scenario undeclared", "endpoint undeclared"}
validateArtifacts == {"cluster identity", "cluster endpoint", "foreign kubeconfig", "artifact of another cluster",
                      "scenario digest", "scenario parameters", "load endpoint"}

(* Nodes or peer gateways that the geographic distribution asks for.       *)
TargetFlaws == {"zone without a node", "external target with zones", "unknown peer", "no gateway"}
resolveRuntimeLoadTargets == <<Probe, Reject(TargetFlaws)>>

Validate == <<Reject(ValidateFlaws), Reject(validateSpecTimeline), Reject(validateGeographicTimeline)>>

Flaws == ValidateFlaws \cup validateSpecTimeline \cup validateGeographicTimeline \cup Resolve
           \cup validateArtifacts \cup TargetFlaws

verifyNamespace == Check({"namespace"}, {"original"})
readWorkload == Probe
ownedBy == Check({"workload"}, {"own"})

(* Up to the branch on step.Cleanup.                                       *)
PrecheckSession ==
    <<Reject(Resolve), Reject(validateSpecTimeline), Reject(validateGeographicTimeline),
      Reject(validateArtifacts), Probe, Probe, verifyNamespace, readWorkload>>

(***************************************************************************)
(* Action "start".  The names follow from the scenario, those of the       *)
(* network clock from the ownership marker.                                *)
(***************************************************************************)
networkTimelineResources(timeline) == IF timeline THEN {"clock"} ELSE {}
loadManifest(timeline) == {"config", "workload"} \cup networkTimelineResources(timeline)

Precheck(timeline) ==
    PrecheckSession
    \o <<Check({"workload"}, {"absent"})>> \o resolveRuntimeLoadTargets \o <<Probe, Probe>>

waitForReady == <<ownedBy, Probe>>

(* Shapers first, then the clock the workers poll, then their answers.     *)
armNetworkTimeline == <<Probe, Probe, Apply({"clock"}), Probe, Probe>>

waitForLoadDuration == <<ownedBy, Probe>>

Scale == Check({"workload"}, {"own"})

Execute(timeline) ==
    <<Reject(Resolve), readWorkload, Check({"workload"}, {"absent"})>>
    \o resolveRuntimeLoadTargets \o <<Apply(loadManifest(timeline)), Scale>>
    \o waitForReady \o (IF timeline THEN armNetworkTimeline ELSE <<>>)
    \o waitForLoadDuration \o <<Scale>>

waitForStopped == Probe

Verify == <<Reject(Resolve), readWorkload, ownedBy, waitForStopped>>

CleanupPrecheck == PrecheckSession \o <<ReturnUnless(Check({"workload"}, Present)), ownedBy>>

(* Without the deployment there is nothing to do, the objects next to it   *)
(* are not looked for.                                                     *)
Cleanup(timeline) ==
    <<Reject(Resolve), readWorkload, ReturnUnless(Check({"workload"}, Present)), ownedBy,
      Delete(loadManifest(timeline))>>

CleanupVerify == <<Reject(Resolve), readWorkload, Check({"workload"}, {"absent"})>>

Start(timeline) ==
    [objects |-> loadManifest(timeline) \cup {"namespace"},
     start |-> {[o \in loadManifest(timeline) |-> "absent"] @@ ("namespace" :> s) : s \in {"original", "other"}},
     shared |-> {"workload"}, unmarked |-> {"workload"}, drifts |-> loadManifest(timeline),
     keeps |-> {"config", "clock"} \cap loadManifest(timeline),
     provides |-> {"workload"}, mutating |-> TRUE, cleanable |-> TRUE, flaws |-> Flaws,
     validate |-> Validate, precheck |-> Precheck(timeline), execute |-> Execute(timeline),
     verify |-> Verify, cleanup |-> Cleanup(timeline), undo |-> Cleanup(timeline),
     cleanupPrecheck |-> CleanupPrecheck, cleanupVerify |-> CleanupVerify]

(***************************************************************************)
(* Actions "stop" and "resume".  "workload" is the intensity of an owned   *)
(* session, "previous" the annotation with the intensity before the last   *)
(* transition: "original" when an earlier transition left it there.        *)
(***************************************************************************)
Unchanged == Check({"workload"}, {"original"})
RememberPrevious == Apply({"previous"})
storedPreviousReplicas == Check({"previous"}, Present)
Return == ReturnUnless(Check({"workload"}, {}))

(* Scaling to an intensity that is not the one before this step.           *)
ScaleToStale == Instruction({}, {"workload"}, Present, [Same EXCEPT !["original"] = "changed"])

ExecuteTransition ==
    <<Reject(Resolve), readWorkload, Check({"workload"}, Present), RememberPrevious, Patch({"workload"})>>

CleanupTransition ==
    <<Reject(Resolve), readWorkload, storedPreviousReplicas,
      SkipUnless(Check({"previous"}, {"own", "changed"}), 2), Restore({"workload"}), Return, ScaleToStale>>

Transition ==
    [objects |-> {"namespace", "workload", "previous"},
     start |-> {[namespace |-> "original", workload |-> "original", previous |-> p] :
                   p \in {"absent", "original"}},
     shared |-> {}, unmarked |-> {}, drifts |-> {}, keeps |-> {"previous"}, provides |-> {"workload"},
     mutating |-> TRUE, cleanable |-> TRUE, flaws |-> {},
     validate |-> Validate, precheck |-> PrecheckSession \o <<Unchanged, Probe>>,
     execute |-> ExecuteTransition, verify |-> <<Reject(Resolve), readWorkload, Check({"workload"}, {"changed"}), Probe>>,
     cleanup |-> CleanupTransition, undo |-> CleanupTransition, cleanupPrecheck |-> PrecheckSession \o <<storedPreviousReplicas>>,
     cleanupVerify |-> <<Reject(Resolve), readWorkload, storedPreviousReplicas, Probe>>]

=============================================================================
