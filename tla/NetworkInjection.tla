-------------------------- MODULE NetworkInjection --------------------------
(***************************************************************************)
(* plugins/network-injection: one traffic shaper, a daemon set pinned to a *)
(* node, for every node whose zone has an impaired link, in the namespace  *)
(* of the managed chaos runtime.  Names and labels carry the ownership     *)
(* marker of the application.                                              *)
(***************************************************************************)
EXTENDS PluginScripts, FiniteSets

(***************************************************************************)
(* What the profile means: links between zones.                            *)
(*                                                                         *)
(* A profile is [enabled, overrides]: whether a shared effect is enabled,  *)
(* and the sequence of directed overrides [source, target, bidirectional,  *)
(* effect], where effect says that the override enables an effect (one     *)
(* that sets the correlation alone does not).  A specification is the      *)
(* sequence of the profiles of its phases, one profile when it has none.   *)
(***************************************************************************)
Covers(o, source, target) ==
    \/ o.source = source /\ o.target = target
    \/ o.bidirectional /\ o.source = target /\ o.target = source

effective(profile, source, target) ==
    \/ profile.enabled
    \/ \E k \in DOMAIN profile.overrides :
          profile.overrides[k].effect /\ Covers(profile.overrides[k], source, target)

anyPhaseLink(profiles, source, target) ==
    \E k \in DOMAIN profiles : effective(profiles[k], source, target)

(* The links seen before the k-th override is looked at.                   *)
SeenLinks(overrides, k) ==
    UNION {{<<overrides[j].source, overrides[j].target>>}
             \cup (IF overrides[j].bidirectional
                     THEN {<<overrides[j].target, overrides[j].source>>} ELSE {})
           : j \in 1 .. k - 1}

validateOverrides(profile, zones) ==
    \A k \in DOMAIN profile.overrides :
       LET o == profile.overrides[k]
           seen == SeenLinks(profile.overrides, k)
       IN /\ {o.source, o.target} \subseteq zones
          /\ o.source # o.target
          /\ <<o.source, o.target>> \notin seen
          /\ o.bidirectional => <<o.target, o.source>> \notin seen
          /\ effective(profile, o.source, o.target)

(* Nodes is a function from the nodes to their zones; zones holds the      *)
(* remote clusters of a mesh as well.                                      *)
profileDimensions(nodes, zones, profiles) ==
    LET links == {l \in zones \X zones : l[1] # l[2] /\ anyPhaseLink(profiles, l[1], l[2])}
        activeZones == {l[1] : l \in links}
    IN [nodes |-> Cardinality({n \in DOMAIN nodes : nodes[n] \in activeZones}),
        links |-> Cardinality(links)]

(* The shapers that the manifest declares, with the zones each one slows.  *)
networkManifest(nodes, zones, profiles) ==
    LET targetZones(n) == {z \in zones : z # nodes[n] /\ anyPhaseLink(profiles, nodes[n], z)}
    IN {[node |-> n, targets |-> targetZones(n)] : n \in {m \in DOMAIN nodes : targetZones(m) # {}}}

(***************************************************************************)
(* The phase the shaper of a timeline applies: a run of tests on the       *)
(* seconds since the start, of which the last one that holds wins.         *)
(***************************************************************************)
Offset(durations, k) ==
    LET sum[j \in 0 .. k] == IF j = 0 THEN 0 ELSE sum[j - 1] + durations[j] IN sum[k]

phasedShapingScript(durations, elapsed) ==
    LET n == Len(durations)
        tests == {k \in 0 .. n : IF k = 0 THEN elapsed >= 0 ELSE elapsed >= Offset(durations, k)}
        last == IF tests = {} THEN -1 ELSE CHOOSE k \in tests : \A j \in tests : j <= k
    IN IF last = n THEN -1 ELSE last

(***************************************************************************)
(* The step.                                                               *)
(***************************************************************************)
Shapers == {"shaper1", "shaper2"}
ReferenceFlaws == {"configuration is not JSON", "reference is no artifact"}
ValidatePhases == {"too many phases", "phase duration", "no active phase", "phases longer than a day"}
validateConfiguration ==
    {"node group label", "node selector", "network interface", "no network effect",
     "latency range", "bandwidth range", "packet loss range"} \cup ValidatePhases
Resolve == {"artifact missing"}
validateArtifacts == {"cluster identity", "cluster endpoint", "artifact of another cluster",
                      "chaos runtime not ready"}
NodeFlaws == {"node without zone or network", "fewer than two zones"}
LinkFlaws == {"override between unknown zones"}
ManifestFlaws == {"more than 15 target zones"}

Validate == <<Reject(ReferenceFlaws), Reject(validateConfiguration)>>

(* kubectl get nodes, then the checks of what it answered.                 *)
discoverNodes == <<Probe, Reject(NodeFlaws)>>

(* The same for a step marked Cleanup.                                     *)
Precheck ==
    <<Reject(Resolve), Reject(validateArtifacts), Reject(validateConfiguration), Probe,
      Probe, Reject({"no chaos namespace"})>>
    \o discoverNodes \o <<Reject(LinkFlaws), Reject(ManifestFlaws), Probe>>

Execute ==
    <<Reject(Resolve)>> \o discoverNodes
    \o <<Reject(ManifestFlaws), Apply(Shapers), Check(Shapers, {"own"})>>

(* Every node must run a ready pod of the requested script, and the kernel *)
(* the requested queueing disciplines.                                     *)
verifyAppliedProfile == <<Check(Shapers, {"own"}), Probe, Probe>>

profileCount == Probe

Verify == <<Reject(Resolve), profileCount>> \o discoverNodes \o <<Check(Shapers, {"own"})>> \o verifyAppliedProfile

Cleanup == <<Reject(Resolve), DeleteOwned(Shapers)>>

CleanupVerify == <<Reject(Resolve), Check(Shapers, {"absent"})>>

Plugin ==
    [objects |-> Shapers, start |-> {[o \in Shapers |-> "absent"]},
     shared |-> {}, unmarked |-> {}, drifts |-> Shapers, keeps |-> {}, provides |-> Shapers, mutating |-> TRUE, cleanable |-> TRUE,
     flaws |-> ReferenceFlaws \cup validateConfiguration \cup Resolve \cup validateArtifacts
                 \cup {"no chaos namespace"} \cup NodeFlaws \cup LinkFlaws \cup ManifestFlaws,
     validate |-> Validate, precheck |-> Precheck, execute |-> Execute, verify |-> Verify,
     cleanup |-> Cleanup, undo |-> Cleanup, cleanupPrecheck |-> Precheck, cleanupVerify |-> CleanupVerify]

=============================================================================
