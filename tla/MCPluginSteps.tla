--------------------------- MODULE MCPluginSteps ---------------------------
(* The plugins of the repository, one of which the initial state chooses.  *)
EXTENDS PluginRules

SC == INSTANCE StrategyController
SS == INSTANCE SecondaryScheduler
NI == INSTANCE NetworkInjection
MA == INSTANCE MonAgentProfile
LS == INSTANCE LoadSession
MP == INSTANCE ManagedPlatform
AI == INSTANCE ApplicationInspector
MT == INSTANCE Materializers
TB == INSTANCE TargetBinding
RA == INSTANCE RemoteAccess
IP == INSTANCE ImagePublishing
MS == INSTANCE ManagedServices
CB == INSTANCE ClusterBootstrap
VM == INSTANCE MachineProvisioning
AD == INSTANCE ApplicationDeployer
MO == INSTANCE ManagedObservability
MC == INSTANCE MetricsCollector

(* The plugin uses and their scripts.                                       *)
MCNames ==
    {"descheduler", "autoscaler", "secondary_scheduler",
     "prepared_scheduler", "network_injection", "mon_agent_profile",
     "load_session", "network_timeline", "load_transition",
     "managed_platform", "cilium_platform", "application_inspector",
     "redis", "mubench", "localai", "target_binding", "nfs_write",
     "nfs_delete", "nfs_read", "registry_delete", "registry_collect",
     "registry_browse", "ssh_command", "proxmox", "reference",
     "external_load_target", "oci_build", "strategy_image", "nfs", "harbor",
     "oci_executor", "nfs_csi", "k3s", "k3s_reconcile", "cilium_mesh",
     "machine", "machine_removal", "template", "topology",
     "topology_reconcile", "topology_prune", "standalone_application",
     "generated_application", "named_application", "prepare_application",
     "deploy_application", "observability", "metrics_collector"}

MCPlugins == [p \in MCNames |->
    CASE p = "descheduler" -> SC!Descheduler
      [] p = "autoscaler" -> SC!Autoscaler
      [] p = "secondary_scheduler" -> SS!Plugin(FALSE)
      [] p = "prepared_scheduler" -> SS!Plugin(TRUE)
      [] p = "network_injection" -> NI!Plugin
      [] p = "mon_agent_profile" -> MA!Plugin
      [] p = "load_session" -> LS!Start(FALSE)
      [] p = "network_timeline" -> LS!Start(TRUE)
      [] p = "load_transition" -> LS!Transition
      [] p = "managed_platform" -> MP!Plugin(FALSE)
      [] p = "cilium_platform" -> MP!Plugin(TRUE)
      [] p = "application_inspector" -> AI!Plugin
      [] p = "redis" -> MT!Redis
      [] p = "mubench" -> MT!MuBench
      [] p = "localai" -> MT!LocalAI
      [] p = "target_binding" -> TB!Plugin
      [] p = "nfs_write" -> RA!NFSBrowser("write")
      [] p = "nfs_delete" -> RA!NFSBrowser("delete")
      [] p = "nfs_read" -> RA!NFSBrowser("read")
      [] p = "registry_delete" -> RA!HarborBrowser("delete-artifact")
      [] p = "registry_collect" -> RA!HarborBrowser("run-garbage-collection")
      [] p = "registry_browse" -> RA!HarborBrowser("browse")
      [] p = "ssh_command" -> RA!RemoteCommand
      [] p = "proxmox" -> RA!ProxmoxDiscovery
      [] p = "reference" -> RA!Reference
      [] p = "external_load_target" -> RA!ExternalLoadTarget
      [] p = "oci_build" -> IP!OciBuild
      [] p = "strategy_image" -> IP!StrategyImage
      [] p = "nfs" -> MS!NFS
      [] p = "harbor" -> MS!Harbor
      [] p = "oci_executor" -> MS!OciExecutor
      [] p = "nfs_csi" -> MS!NfsCsi
      [] p = "k3s" -> CB!K3s
      [] p = "k3s_reconcile" -> CB!Reconcile
      [] p = "cilium_mesh" -> CB!CiliumMesh
      [] p = "machine" -> VM!CreateMachine
      [] p = "machine_removal" -> VM!RemoveMachine
      [] p = "template" -> VM!Template
      [] p = "topology" -> VM!Topology
      [] p = "topology_reconcile" -> VM!ReconcileTopology
      [] p = "topology_prune" -> VM!Prune
      [] p = "standalone_application" -> AD!Plugin("standalone")
      [] p = "generated_application" -> AD!Plugin("generated")
      [] p = "named_application" -> AD!Plugin("named")
      [] p = "prepare_application" -> AD!Plugin("prepare")
      [] p = "deploy_application" -> AD!Plugin("deploy")
      [] p = "observability" -> MO!Plugin
      [] p = "metrics_collector" -> MC!Plugin]

(* Maintenance of a running cluster: its nodes and its machines.           *)
MCMaintenance == [k3s_reconcile |-> CB!Reconcile, topology_reconcile |-> VM!ReconcileTopology]

(* Plugins that are known to break a property, with what is known of them: *)
(* - foreign: nfs_csi and observability take a failed query for absence,   *)
(*   k3s has no marker and uninstalls what its precheck refused, the two   *)
(*   maintenances are the subject of RollbackKeepsTheOriginals;            *)
(* - unmarked: the cleanup checks of these refuse an object only for the   *)
(*   marker of another; one without a marker is deleted as their own;      *)
(* - removing: the maintenance of a cluster meets the flaws of the previous*)
(*   topology only in Execute, and its rollback uninstalls machines;       *)
(* - unclean: nfs_csi and observability as above, oci_executor marks after *)
(*   it installs, strategy_image removes nothing from the registry,        *)
(*   load_transition returns to replicas an older transition noted;        *)
(* - stuck: nfs_csi, oci_executor and harbor mark after they install and   *)
(*   then refuse to clean up what has no marker, the cleanup of oci_build  *)
(*   is verified like a build, load_transition needs a deployment that is  *)
(*   there.                                                                *)
MCKnown == [foreign |-> {"nfs_csi", "observability", "k3s", "k3s_reconcile", "topology_reconcile"},
            unmarked |-> {"descheduler", "secondary_scheduler", "prepared_scheduler", "managed_platform",
                          "cilium_platform"},
            removing |-> {"k3s_reconcile"},
            unclean |-> {"nfs_csi", "observability", "oci_executor", "strategy_image", "load_transition"},
            stuck |-> {"nfs_csi", "oci_executor", "harbor", "oci_build", "load_transition"}]

(* Plugins whose cleanup looks at one object to decide about others: at a  *)
(* namespace for what is in it, at the profile for the settings.           *)
MCRelated == {"mon_agent_profile", "standalone_application", "generated_application",
              "named_application", "deploy_application"}

(* Plugins that take the marker of one object, or the absence of another,  *)
(* as the sign that the rest is theirs as well.                            *)
MCMarked == {"mon_agent_profile", "managed_platform", "cilium_platform", "nfs", "harbor", "oci_executor"}

(* Plugins whose cleanup depends on the marker of another object.          *)
MCDependent == {"mon_agent_profile", "nfs", "observability"}

(* An outline of the cleaning calls, computed along their commands: where  *)
(* an object may be at all, and then command by command.                   *)
Home(p, o) == {x \in States : \A From \in SUBSET States : Confined(p, o, From) => x \in From}
Drifted(p, o) == IF o \in Plugins[p].drifts THEN {"absent"} ELSE {}

Kept(s, k, o, From) == IF o \in s[k].on THEN {s[k].turns[x] : x \in From \cap s[k].ok} ELSE From
Reach(s, o, From) ==
    LET Leading(k, h) == \/ s[h].refused = "next" /\ h + 1 = k
                         \/ s[h].refused = "jump" /\ Place(s, h + 1 + s[h].skip) = k
                         \/ s[h].refused = "return" /\ Len(s) + 1 = k
        reach[k \in 1 .. (Len(s) + 1)] ==
            IF k = 1 THEN From
            ELSE Kept(s, k - 1, o, reach[k - 1])
                   \cup UNION {Spurned(s, h, o, reach[h]) : h \in {h \in 1 .. (k - 1) : Leading(k, h)}}
    IN  reach

MCOutline == [p \in Names |->
    LET along(c, First(_)) == [o \in Plugins[p].objects |-> Reach(Plugins[p][c], o, First(o))]
        end(c, A, o) == A[o][Len(Plugins[p][c]) + 1] \cup Drifted(p, o)
        first == along("cleanupPrecheck", LAMBDA o : Home(p, o))
        second == along("cleanup", LAMBDA o : end("cleanupPrecheck", first, o))
        third == along("cleanupVerify", LAMBDA o : end("cleanup", second, o))
    IN  [cleanupPrecheck |-> first, cleanup |-> second, cleanupVerify |-> third]]

(* The rules that the plugins keep, and so the properties they have however*)
(* much goes wrong.                                                        *)
ASSUME RulesAssumption ==
    \A p \in Names :
        /\ PutsInPlace(p)
        /\ RefusesFlaws(p)
        /\ p \notin MCKnown.removing => LeavesInPlace(p)
        /\ p \notin MCKnown.unclean \cup MCRelated => CleansUp(p)
        /\ p \notin MCKnown.foreign \cup MCMarked => RespectsOthers(p)
        /\ p \notin MCKnown.unmarked => RespectsUnmarked(p)
        /\ p \notin MCKnown.stuck \cup MCDependent => Unobstructed(p, MCOutline[p])

(* Nothing is excused.                                                     *)
NoneKnown == [p \in {"foreign", "unmarked", "removing", "unclean", "stuck"} |-> {}]

=============================================================================
