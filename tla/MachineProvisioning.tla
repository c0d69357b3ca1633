------------------------ MODULE MachineProvisioning ------------------------
(***************************************************************************)
(* plugins/proxmox-vm: single machines, machine templates and topologies on*)
(* Proxmox, and the reconciliation of the topology of a live cluster.  A   *)
(* machine is "own" from its clone on: before the ownership marker is      *)
(* written it is recognised by its unique name.  An object that a step     *)
(* removes on purpose counts as changed.                                   *)
(***************************************************************************)
EXTENDS PluginScripts

All(objects, state) == [o \in objects |-> state]

parseStep == Reject({"connection missing"})
ConnectionFlaws == {"connection missing", "inventory unreadable", "node offline", "privilege missing"}
parseSpec == Reject(ConnectionFlaws)

(* Names and VMIDs of the inventory are protected.                         *)
validateMachineNames(vms) == Check(vms, {"absent"})

(* Stops the machine if it runs, and deletes it.                           *)
removeVM(vm) == <<Probe, Instruction({}, {vm}, States, [s \in States |-> IF s \in Foreign THEN s ELSE "absent"])>>

(***************************************************************************)
(* One machine                                                             *)
(***************************************************************************)
validateValues == {"values", "template missing"}

MachineCleanup ==
    <<parseStep, ReturnUnless(Check({"vm"}, Present)), Check({"vm"}, NotForeign)>> \o removeVM("vm")

CreateMachine ==
    [objects |-> {"vm"}, start |-> {[vm |-> "absent"], [vm |-> "other"]},
     shared |-> {"vm"}, unmarked |-> {"vm"}, drifts |-> {"vm"}, keeps |-> {}, provides |-> {"vm"},
     mutating |-> TRUE, cleanable |-> FALSE, flaws |-> ConnectionFlaws \cup validateValues,
     validate |-> <<parseSpec, Reject(validateValues), Probe, validateMachineNames({"vm"}), Probe>>,
     precheck |-> <<parseStep, Probe, validateMachineNames({"vm"})>>,
     execute |-> <<parseStep, validateMachineNames({"vm"}), Create({"vm"}), Check({"vm"}, {"own"}), Probe, Probe>>,
     verify |-> <<parseStep, Check({"vm"}, {"own"})>>,
     cleanup |-> MachineCleanup, undo |-> MachineCleanup,
     cleanupPrecheck |-> <<>>, cleanupVerify |-> <<>>]

(* The second step of a machine that is only a test: the machine goes.     *)
removeOwnedVM == <<Check({"vm"}, {"original"}), Probe, Patch({"vm"})>>

RemovalCleanup ==
    <<parseStep, ReturnUnless(Check({"vm"}, {"original", "other", "unmarked"})), Check({"vm"}, NotForeign), Patch({"vm"})>>

RemoveMachine ==
    [objects |-> {"vm"}, start |-> {[vm |-> "original"], [vm |-> "other"], [vm |-> "absent"]},
     shared |-> {}, unmarked |-> {}, drifts |-> {}, keeps |-> {"vm"}, provides |-> {"vm"},
     mutating |-> TRUE, cleanable |-> FALSE, flaws |-> ConnectionFlaws,
     validate |-> <<parseSpec>>,
     precheck |-> <<parseStep, Probe, Check({"vm"}, {"original"})>>,
     execute |-> <<parseStep>> \o removeOwnedVM,
     verify |-> <<parseStep, Check({"vm"}, {"changed"})>>,
     cleanup |-> RemovalCleanup, undo |-> RemovalCleanup, cleanupPrecheck |-> <<>>, cleanupVerify |-> <<>>]

(***************************************************************************)
(* A template: a machine made from a cloud image, prepared and converted.  *)
(* The image stays in the staging storage.                                 *)
(***************************************************************************)
validateTemplateValues == {"template values", "storage incompatible"}

ensureTemplateImage == <<Probe>> \o When({"image"}, {"absent"}, <<Apply({"image"}), Check({"image"}, Present)>>)
createTemplateVM == <<Check({"vm"}, {"absent"}), Create({"vm"}), Probe, Probe>>
Convert == <<Probe, Probe, Check({"vm"}, {"own"}), Probe>>

deleteOwnedTemplate ==
    <<parseStep, ReturnUnless(Check({"vm"}, Present)), Check({"vm"}, {"own"})>> \o removeVM("vm")

Template ==
    [objects |-> {"vm", "image"},
     start |-> {[vm |-> v, image |-> i] : v \in {"absent", "other"}, i \in {"absent", "original"}},
     shared |-> {"vm"}, unmarked |-> {"vm"}, drifts |-> {"vm"}, keeps |-> {"image"}, provides |-> {"vm"},
     mutating |-> TRUE, cleanable |-> TRUE, flaws |-> ConnectionFlaws \cup validateTemplateValues,
     validate |-> <<parseSpec, Reject(validateTemplateValues), Probe, Check({"vm"}, {"absent"})>>,
     precheck |-> <<parseStep, Probe, Check({"vm"}, {"absent"}), Probe, Reject(validateTemplateValues)>>,
     execute |-> <<parseStep>> \o ensureTemplateImage \o createTemplateVM \o Convert,
     verify |-> <<parseStep, Check({"vm"}, {"own"}), Probe>>,
     cleanup |-> deleteOwnedTemplate, undo |-> deleteOwnedTemplate,
     cleanupPrecheck |-> <<parseStep, Probe, ReturnUnless(Check({"vm"}, Present)), Check({"vm"}, {"own"})>>,
     cleanupVerify |-> <<parseStep, Check({"vm"}, {"absent"})>>]

(***************************************************************************)
(* A topology of machines.  A failed creation is cleaned up by Execute and *)
(* again by the worker; the second cleanup covers the first.               *)
(***************************************************************************)
VMs == {"first", "second"}

validateTopologyValues == {"topology values", "profiles or names do not match the count"}
topologyAddresses == {"gateway outside of the subnet", "too few addresses"}
validateTopologyTemplateArtifact == Reject({"template artifact", "template mismatch"})
topologyRootDisk == Reject({"root disk unsupported"})
TopologyFlaws == ConnectionFlaws \cup validateTopologyValues \cup topologyAddresses \cup
                 {"template artifact", "template mismatch", "root disk unsupported"}

validateTopologyInventory == Check(VMs, {"absent"})
validatePlannedInventory == <<validateTopologyInventory, validateMachineNames(VMs)>>

(* Clone, configure and mark, resize, start.                               *)
createTopologyMachine(vm) == <<Check({vm}, {"absent"}), Create({vm}), Check({vm}, {"own"}), Probe, Probe>>

verifyTopologyGuestAddresses == Probe
verifyTopologyGateways == Probe
topologyExecutionResult == Probe
validateTopologyResult == Probe

Provision ==
    <<parseStep, validateTopologyTemplateArtifact>> \o createTopologyMachine("first") \o
    createTopologyMachine("second") \o
    <<verifyTopologyGuestAddresses, verifyTopologyGateways, topologyExecutionResult>>

VerifyTopology(vms) == <<parseStep, validateTopologyTemplateArtifact, validateTopologyResult, Check(vms, {"own", "changed"}), Probe>>

(* Each machine in turn, the errors of all of them at the end.             *)
remove(vms) == Deferred(Instruction({}, vms, NotForeign, [s \in States |-> "absent"]))
cleanupTopology(names) == Each(remove, names)

TopologyCleanup == <<parseStep>> \o cleanupTopology(<<"second", "first">>)

Topology ==
    [objects |-> VMs,
     start |-> {All(VMs, "absent"), [first |-> "absent", second |-> "other"]},
     shared |-> VMs, unmarked |-> VMs, drifts |-> VMs, keeps |-> {}, provides |-> VMs,
     mutating |-> TRUE, cleanable |-> TRUE, flaws |-> TopologyFlaws,
     validate |-> <<parseSpec, Reject(validateTopologyValues \cup topologyAddresses), Probe,
                    validateTopologyInventory, topologyRootDisk, Probe>>,
     precheck |-> <<parseStep, validateTopologyTemplateArtifact, Probe>> \o validatePlannedInventory \o <<topologyRootDisk>>,
     execute |-> Provision,
     verify |-> VerifyTopology(VMs),
     cleanup |-> TopologyCleanup, undo |-> TopologyCleanup,
     cleanupPrecheck |-> <<parseStep, validateTopologyTemplateArtifact, Probe, Check(VMs, {"absent", "own"})>>,
     cleanupVerify |-> <<parseStep, validateTopologyTemplateArtifact, Check(VMs, {"absent"})>>]

(***************************************************************************)
(* Maintenance of a topology: machines are added and migrated while the    *)
(* cluster runs; those that leave are pruned by a later step.  All of them *)
(* carry the marker of the cluster, so Cleanup takes every machine of the  *)
(* old and of the new topology for its own.                                *)
(***************************************************************************)
validateReconcileSpec == {"previous references", "identities not unique"}
previousTopology == Reject({"previous topology differs"})
checkReconcile ==
    <<previousTopology, Probe, Probe, Reject({"privilege missing"}), Check({"kept", "leaving"}, NotForeign),
      Check({"added"}, {"absent"}), topologyRootDisk, Check({"kept"}, Present)>>

ReconcileMachines == <<"added", "kept", "leaving">>

executeReconcile ==
    <<parseStep, validateTopologyTemplateArtifact, previousTopology>> \o checkReconcile \o
    <<Create({"added"}), Check({"added"}, {"own"}), Probe, Patch({"kept"}), Check({"kept"}, Present),
      verifyTopologyGuestAddresses, topologyExecutionResult>>

cleanupReconcileInput == cleanupTopology(ReconcileMachines)

ReconcileTopology ==
    [objects |-> {"added", "kept", "leaving"},
     start |-> {[added |-> "absent", kept |-> "original", leaving |-> "original"]},
     shared |-> {}, unmarked |-> {}, drifts |-> {}, keeps |-> {}, provides |-> {"added", "kept"},
     mutating |-> TRUE, cleanable |-> TRUE,
     flaws |-> TopologyFlaws \cup validateReconcileSpec \cup {"previous topology differs"},
     validate |-> <<parseSpec, Reject(validateTopologyValues \cup topologyAddresses \cup validateReconcileSpec)>>,
     precheck |-> <<parseStep, validateTopologyTemplateArtifact>> \o checkReconcile,
     execute |-> executeReconcile,
     verify |-> VerifyTopology({"added", "kept"}),
     cleanup |-> <<parseStep>> \o cleanupReconcileInput, undo |-> <<parseStep>> \o cleanupReconcileInput,
     cleanupPrecheck |-> <<parseStep, validateTopologyTemplateArtifact, Check({"added", "kept", "leaving"}, NotForeign)>>,
     cleanupVerify |-> <<parseStep, Check({"added", "kept", "leaving"}, {"absent"})>>]

(* The drained machines are deleted once the cluster is ready without them;*)
(* the cleanup of this step does nothing.                                  *)
Prune ==
    [objects |-> {"leaving"}, start |-> {[leaving |-> "original"], [leaving |-> "other"], [leaving |-> "absent"]},
     shared |-> {}, unmarked |-> {}, drifts |-> {}, keeps |-> {"leaving"}, provides |-> {},
     mutating |-> TRUE, cleanable |-> FALSE,
     flaws |-> (TopologyFlaws \ {"root disk unsupported"}) \cup validateReconcileSpec \cup
               {"previous topology differs", "cluster not ready"},
     validate |-> <<parseSpec, Reject(validateTopologyValues \cup topologyAddresses \cup validateReconcileSpec)>>,
     precheck |-> <<parseStep, validateTopologyTemplateArtifact, previousTopology, Probe, Check({"leaving"}, NotForeign),
                    Reject({"cluster not ready"})>>,
     execute |-> <<parseStep, validateTopologyTemplateArtifact, previousTopology, Reject({"cluster not ready"}),
                   Check({"leaving"}, NotForeign), Deferred(Instruction({}, {"leaving"}, NotForeign,
                       [Same EXCEPT !["original"] = "changed"]))>>,
     verify |-> <<parseStep, Check({"leaving"}, {"changed", "absent"})>>,
     cleanup |-> <<parseStep>>, undo |-> <<parseStep>>,
     cleanupPrecheck |-> <<>>, cleanupVerify |-> <<>>]

=============================================================================
