-------------------------- MODULE ManagedServices --------------------------
(***************************************************************************)
(* plugins/nfs, plugins/harbor, plugins/oci-executor and plugins/nfs-csi:  *)
(* the services KubePhos installs on machines and clusters of its own.  A  *)
(* marker says that an installation belongs to this step; cleanup touches  *)
(* nothing without it.  The three machines are set up by one ssh command   *)
(* each, a chain in which every part may be the last one to happen.        *)
(***************************************************************************)
EXTENDS PluginScripts

Marker == {"marker"}
All(objects, state) == [o \in objects |-> state]

Resolve == {"artifact missing"}
ReferenceFlaws == {"configuration is not JSON", "machine set reference", "machine access reference", "name"}

(* One running machine inside of the managed network, and its key.         *)
validateArtifacts == {"not one dedicated machine", "network not canonical", "machine invalid",
                      "machine too small", "access key pair"}

Service(parts, extra, precheck, install, verify, cleanupPrecheck, cleanup, cleanupVerify) ==
    [objects |-> Marker \cup parts \cup {"hostname"},
     start |-> {All(Marker \cup parts, "absent") @@ [hostname |-> "original"],
                All(Marker \cup parts, "other") @@ [hostname |-> "original"]},
     shared |-> {}, unmarked |-> {}, drifts |-> {}, keeps |-> {"hostname"}, provides |-> (Marker \cup parts) \ extra,
     mutating |-> TRUE, cleanable |-> TRUE, flaws |-> Resolve \cup ReferenceFlaws \cup validateArtifacts,
     validate |-> <<Reject(ReferenceFlaws)>>,
     precheck |-> <<Reject(Resolve), Reject(validateArtifacts), Probe>> \o precheck,
     execute |-> <<Reject(Resolve)>> \o install,
     verify |-> <<Reject(Resolve)>> \o verify,
     cleanup |-> <<Reject(Resolve)>> \o cleanup, undo |-> <<Reject(Resolve)>> \o cleanup,
     cleanupPrecheck |-> <<Reject(Resolve), Reject(validateArtifacts), Probe>> \o cleanupPrecheck,
     cleanupVerify |-> <<Reject(Resolve)>> \o cleanupVerify]

(* Without a marker nothing of the service may be there, a marker must be  *)
(* that of the step.                                                       *)
cleanupPrecheckCommand(parts) ==
    When(Marker, {"absent"}, <<Check(parts, {"absent"})>>) \o <<Check(Marker, {"absent", "own"})>>

(***************************************************************************)
(* plugins/nfs: the marker is the first thing written, the last removed.   *)
(***************************************************************************)
NFSInstall ==
    <<Patch({"hostname"}), Probe, Apply(Marker), Apply({"data"}), Apply({"export"}), Probe, Probe>>
NFSReadiness == <<Check(Marker, {"own"}), Check({"data", "export"}, {"own"}), Probe>>
NFSCleanup ==
    ReturnWhen(Marker \cup {"data", "export"}, {"absent"}) \o
    <<Check(Marker, {"own"}), Delete({"export"}), Probe, Delete({"data"}), Delete(Marker)>>

NFS ==
    Service({"data", "export"}, {}, <<Check(Marker \cup {"data", "export"}, {"absent"})>>,
            NFSInstall, NFSReadiness, cleanupPrecheckCommand({"data", "export"}), NFSCleanup,
            <<Check(Marker \cup {"data", "export"}, {"absent"})>>)

(***************************************************************************)
(* plugins/harbor: the image archives are uploaded before and the data     *)
(* directory is made before the marker.                                    *)
(***************************************************************************)
prepareBundledImages == <<Apply({"images"})>>
HarborInstall ==
    prepareBundledImages \o
    <<Patch({"hostname"}), Probe, Apply({"data"}), Apply(Marker), Probe, Apply({"install"}), Probe,
      Apply({"unit"}), Probe, Probe, Probe, Delete({"images"})>>
HarborReadiness == <<Check(Marker, {"own"}), Check({"install", "unit"}, {"own"}), Probe, Probe>>
HarborCleanup ==
    <<DeleteOwned({"images"})>> \o
    ReturnWhen(Marker \cup {"install", "data", "unit"}, {"absent"}) \o
    <<Check(Marker, {"own"}), Ignored(Probe), Probe, Delete({"unit"}), Delete({"install", "data"}),
      Delete(Marker)>>

Harbor ==
    Service({"data", "install", "unit", "images"}, {"images"},
            <<Check(Marker \cup {"install", "data"}, {"absent"})>>, HarborInstall, HarborReadiness,
            cleanupPrecheckCommand({"install", "data"}), HarborCleanup,
            <<Check(Marker \cup {"install", "data", "unit"}, {"absent"})>>)

(***************************************************************************)
(* plugins/oci-executor: the package repository and the packages come      *)
(* before the marker; the packages are purged after it is gone.            *)
(***************************************************************************)
ExecutorInstall ==
    <<Probe, Apply({"repository"}), Probe, Apply({"packages"}), Apply(Marker), Probe, Apply({"rootless"}),
      Probe, Apply({"proxy"}), Probe>>
ExecutorReadiness == <<Check(Marker, {"own"}), Check({"proxy"}, {"own"}), Check({"rootless"}, {"own"}), Probe>>
ExecutorCleanup ==
    <<ReturnUnless(Check(Marker, Present)), Check(Marker, {"own"}), Ignored(Probe), Ignored(Probe),
      Delete({"rootless", "proxy"}), Delete(Marker \cup {"repository"}), Delete({"packages"}), Probe>>

OciExecutor ==
    Service({"repository", "packages", "rootless", "proxy"}, {},
            <<Check(Marker \cup {"repository", "packages", "rootless", "proxy"}, {"absent"})>>,
            ExecutorInstall, ExecutorReadiness, cleanupPrecheckCommand({"rootless", "repository"}),
            ExecutorCleanup, <<Check(Marker \cup {"repository", "rootless", "proxy"}, {"absent"})>>)

(***************************************************************************)
(* plugins/nfs-csi: the driver is applied to the cluster and marked        *)
(* afterwards, each of its resources by a command of its own.  "mark"      *)
(* stands for the annotation of a resource.                                *)
(***************************************************************************)
CSIReferences == {"configuration is not JSON", "cluster reference", "storage reference", "class name"}
CSIArtifacts == {"cluster identity", "cluster endpoint", "storage endpoint", "network not canonical",
                 "export path", "mount options"}
Driver == {"driver", "controller"}
Marks == {"driverMark", "controllerMark"}
Watched == {"driver", "controller", "class"}
Mark(o) == {CASE o = "driver" -> "driverMark" [] o = "controller" -> "controllerMark" [] OTHER -> o}

ClusterReady == <<Reject(Resolve), Reject(CSIArtifacts), Probe, Probe, Probe>>

(* An error of the query is taken for the absence of the resource.         *)
absent(o) == [AbsentOnError(Check({o}, {"absent"})) EXCEPT !.error = "next"]
checkResourcesAbsent == <<absent("driver"), absent("controller"), absent("class")>>

owned(o) ==
    <<AbsentOnError(SkipUnless(Check({o}, Present), 1)), [Check(Mark(o), {"own"}) EXCEPT !.error = "none"]>>
checkCleanupOwnership == owned("driver") \o owned("controller") \o owned("class")

manifestBundle == Probe

CSIExecute ==
    <<Reject(Resolve), manifestBundle, Apply(Driver), Probe, Apply({"driverMark"}), Apply({"controllerMark"}),
      Apply({"class"})>>

verifyManagedResources == <<Check(Marks, {"own"}), Check({"class"}, {"own"})>>

(* A namespace of its own, removed at the end whatever happened; an error  *)
(* of that removal is not looked at.                                       *)
runProvisioningProbe == <<Apply({"probe"}), Probe, Ignored(Delete({"probe"}))>>

CSICleanup ==
    <<Reject(Resolve)>> \o checkCleanupOwnership \o ReturnWhen(Watched, {"absent"}) \o
    <<Ignored(Delete({"probe"})), Delete({"class"}), manifestBundle, Delete(Driver \cup Marks)>>

NfsCsi ==
    [objects |-> Watched \cup Marks \cup {"probe"},
     start |-> {All(Watched \cup Marks \cup {"probe"}, "absent"),
                All(Driver \cup Marks, "other") @@ All({"class", "probe"}, "absent")},
     shared |-> {}, unmarked |-> {}, drifts |-> {}, keeps |-> {"probe"}, provides |-> Driver \cup {"class"},
     mutating |-> TRUE, cleanable |-> TRUE, flaws |-> Resolve \cup CSIReferences \cup CSIArtifacts,
     validate |-> <<Reject(CSIReferences)>>,
     precheck |-> ClusterReady \o checkResourcesAbsent,
     execute |-> CSIExecute,
     verify |-> <<Reject(Resolve), Check(Driver, Present)>> \o verifyManagedResources \o runProvisioningProbe,
     cleanup |-> CSICleanup, undo |-> CSICleanup,
     cleanupPrecheck |-> ClusterReady \o checkCleanupOwnership,
     cleanupVerify |-> <<Reject(Resolve)>> \o checkResourcesAbsent]

=============================================================================
