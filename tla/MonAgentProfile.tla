-------------------------- MODULE MonAgentProfile --------------------------
(***************************************************************************)
(* plugins/mon-agent-profile: the sampling settings of the monitoring agent*)
(* of a cluster, changed for one run.  The marker annotation on the        *)
(* deployment says whose profile is active and remembers the settings it   *)
(* replaced; it is written before they change and removed after they are   *)
(* back.                                                                   *)
(***************************************************************************)
EXTENDS PluginScripts

Validate == <<Reject({"configuration is not JSON", "reference is no artifact"}),
              Reject({"sampling period", "query range"})>>

Resolve == {"artifact missing"}
validateArtifacts == {"cluster identity", "cluster endpoint", "artifact of another cluster",
                      "agent not ready"}
settings == {"agent settings unreadable"}

readDeployment == Probe
Profile == {"profile"}

PrecheckCluster == <<Reject(Resolve), Reject(validateArtifacts), Probe, readDeployment>>

(* A cleanup is healthy whoever owns the profile.                          *)
Precheck == PrecheckCluster \o <<Check(Profile, {"absent"}), Reject(settings)>>

Execute ==
    <<Reject(Resolve), readDeployment, Check(Profile, {"absent"}), Reject(settings),
      Apply(Profile), Patch({"settings"}), Probe>>

Verify ==
    <<Reject(Resolve), readDeployment, Reject(settings), Check(Profile, {"own"}),
      Check({"settings"}, {"changed"})>>

Cleanup ==
    <<Reject(Resolve), readDeployment, ReturnUnless(Check(Profile, {"own"})),
      Restore({"settings"}), DeleteOwned(Profile), Probe>>

CleanupVerify ==
    <<Reject(Resolve), readDeployment, Reject(settings), ReturnUnless(Check(Profile, NotOther)),
      Check(Profile, {"absent"}), Check({"settings"}, {"original"})>>

Plugin ==
    [objects |-> Profile \cup {"settings"},
     start |-> {[profile |-> "absent", settings |-> "original"],
                [profile |-> "other", settings |-> "other"]},
     shared |-> Profile, unmarked |-> {}, drifts |-> {}, keeps |-> {},
     provides |-> Profile \cup {"settings"}, mutating |-> TRUE, cleanable |-> TRUE,
     flaws |-> {"configuration is not JSON", "reference is no artifact", "sampling period",
                "query range"} \cup Resolve \cup validateArtifacts \cup settings,
     validate |-> Validate, precheck |-> Precheck, execute |-> Execute, verify |-> Verify,
     cleanup |-> Cleanup, undo |-> Cleanup, cleanupPrecheck |-> PrecheckCluster, cleanupVerify |-> CleanupVerify]

=============================================================================
