---------------------------- MODULE RemoteAccess ----------------------------
(***************************************************************************)
(* plugins/nfs-browser, plugins/harbor-browser, plugins/ssh-command,       *)
(* plugins/proxmox, plugins/reference and plugins/external-load-target:    *)
(* what a user asks of a managed service.  All but the last do not declare *)
(* lifecycle.cleanup: what they changed was asked for and stays, and the   *)
(* rollback of a failed step does nothing.                                 *)
(***************************************************************************)
EXTENDS PluginScripts

Requested(parts, starts, requestFlaws, resolve, before, change, after) ==
    [objects |-> parts, start |-> starts, shared |-> {}, unmarked |-> {}, drifts |-> {}, keeps |-> parts,
     provides |-> parts, mutating |-> parts # {}, cleanable |-> FALSE,
     flaws |-> requestFlaws \cup resolve,
     validate |-> <<Reject(requestFlaws)>>,
     precheck |-> <<Reject(resolve)>> \o before,
     execute |-> <<Reject(resolve)>> \o change,
     verify |-> <<Reject(resolve)>> \o after,
     cleanup |-> <<>>, undo |-> <<>>, cleanupPrecheck |-> <<>>, cleanupVerify |-> <<>>]

(***************************************************************************)
(* plugins/nfs-browser: list, read, write and delete below the export.     *)
(* "changed" is what was asked for: the new content, or its absence.       *)
(***************************************************************************)
validateRequest == {"action", "content too long", "content for a read"}
validRelativePath == {"path leaves the export", "hidden path"}
NFSArtifacts == {"configuration is not JSON", "artifact missing", "export of another machine", "endpoint not ready"}

File == {"file"}
NFSReady == <<Probe>>          \* ssh reaches the machine, the export carries our marker
WriteFile == <<Apply(File), Check(File, {"own", "changed"})>>
DeleteFile == <<Patch(File)>>  \* fails for a file that is not there

NFSBrowser(action) ==
    Requested(IF action \in {"write", "delete"} THEN File ELSE {},
              IF action = "write" THEN {[file |-> "absent"], [file |-> "original"]}
              ELSE IF action = "delete" THEN {[file |-> "original"], [file |-> "absent"]} ELSE {<<>>},
              validateRequest \cup validRelativePath, NFSArtifacts, NFSReady,
              CASE action = "write" -> WriteFile [] action = "delete" -> DeleteFile [] OTHER -> <<Probe>>,
              <<Check(IF action \in {"write", "delete"} THEN File ELSE {}, {"own", "changed"})>>)

(***************************************************************************)
(* plugins/harbor-browser: browse, delete an artifact, collect garbage.    *)
(***************************************************************************)
validateAction == {"action", "project", "repository", "reference"}
HarborArtifacts == {"configuration is not JSON", "artifact missing", "registry of another endpoint"}

HarborReady(action) ==
    <<Probe, Probe>> \o (IF action = "run-garbage-collection" THEN <<Probe>> ELSE <<>>)

(* Scheduling the job, then asking for its state until it ends.            *)
runGarbageCollection == <<Patch({"entry"}), Probe, Probe>>

HarborBrowser(action) ==
    Requested(IF action = "browse" THEN {} ELSE {"entry"},
              IF action = "browse" THEN {<<>>} ELSE {[entry |-> "original"]},
              validateAction, HarborArtifacts, HarborReady(action),
              CASE action = "delete-artifact" -> <<Patch({"entry"})>>
                [] action = "run-garbage-collection" -> runGarbageCollection
                [] OTHER -> <<Probe>>,
              <<Probe, Check(IF action = "browse" THEN {} ELSE {"entry"}, {"changed"})>>)

(***************************************************************************)
(* plugins/ssh-command: a command of the user on a managed machine, which  *)
(* may change anything there; afterwards the machine must be reachable.    *)
(***************************************************************************)
CommandFlaws == {"configuration is not JSON", "machine", "command", "timeout"}
CommandArtifacts == {"artifact missing", "unknown machine", "access without a key"}

RemoteCommand ==
    Requested({"machine"}, {[machine |-> "original"]}, CommandFlaws, CommandArtifacts,
              <<Probe>>, <<Patch({"machine"})>>, <<Probe>>)

(***************************************************************************)
(* plugins/proxmox: discovery of a cluster, reads only; plugins/reference: *)
(* the example of the documentation, which waits and may fail on request.  *)
(***************************************************************************)
parseSpec == {"configuration is not JSON", "endpoint", "token", "certificate authority"}
ProxmoxDiscovery == Requested({}, {<<>>}, parseSpec, {"client"}, <<Probe>>, <<Probe, Probe, Probe>>, <<>>)

Reference ==
    Requested({}, {<<>>}, {"configuration is not JSON", "message", "delay"}, {"typed input missing"},
              <<>>, <<Probe>>, <<>>)

(***************************************************************************)
(* plugins/external-load-target: a namespace of its own for the load       *)
(* driver, named after the execution and marked with it.                   *)
(***************************************************************************)
normalizedSpec == {"configuration is not JSON", "target URL", "scenario", "namespace"}
ExternalResolve == {"artifact missing", "cluster connection"}
namespaceMarker(ok) == Check({"namespace"}, ok)
NoMarker == {"absent", "unmarked"}   \* the query answers both with nothing
Cluster == <<Reject(ExternalResolve), Probe, Probe>>

ExternalCleanup ==
    <<Reject(ExternalResolve), ReturnUnless(namespaceMarker(States \ NoMarker)), namespaceMarker(NotOther),
      Delete({"namespace"})>>

ExternalLoadTarget ==
    [objects |-> {"namespace"}, start |-> {[namespace |-> "absent"], [namespace |-> "other"]},
     shared |-> {"namespace"}, unmarked |-> {}, drifts |-> {"namespace"}, keeps |-> {}, provides |-> {"namespace"},
     mutating |-> TRUE, cleanable |-> TRUE, flaws |-> normalizedSpec \cup ExternalResolve,
     validate |-> <<Reject(normalizedSpec)>>,
     precheck |-> Cluster \o <<namespaceMarker(NoMarker)>>,
     execute |-> <<Reject(ExternalResolve), Apply({"namespace"})>>,
     verify |-> <<Reject(ExternalResolve), namespaceMarker({"own"})>>,
     cleanup |-> ExternalCleanup, undo |-> ExternalCleanup,
     cleanupPrecheck |-> Cluster \o <<namespaceMarker(NotOther)>>,
     cleanupVerify |-> <<Reject(ExternalResolve), namespaceMarker(NoMarker)>>]

=============================================================================
