----------------------------- MODULE Placement -----------------------------
(***************************************************************************)
(* Edits of the placement of an application deployment: internal/api and   *)
(* internal/storage/application_deployment_settings.go and plugins/        *)
(* application-deployer/runtime/live_placement.go.                         *)
(*                                                                         *)
(* An edit stores the settings first, then writes them to a control object *)
(* in the cluster and patches the workloads that exist.  While a deployment*)
(* is executed or verified, a follower reads the control object every two  *)
(* seconds and patches the workloads as well, so that edits made before a  *)
(* workload exists reach it.  Every edit makes a new version; settings are *)
(* identified with the version that stored them.  Previous settings come   *)
(* from the annotation of the workload, which is never missing here.       *)
(*                                                                         *)
(* This is one run of a deployment, on one cluster; the run may fail by    *)
(* another stage or member, or as the sweeper's verdict on a worker that   *)
(* goes on.  A retry of a failed one is another run, with a control object *)
(* of its own, and starts from the row.                                    *)
(***************************************************************************)
EXTENDS Integers, FiniteSets

CONSTANTS
    Editors,     \* requests that edit the placement at the same time
    Workloads,   \* workloads of the application, not Jobs
    NoVersion,   \* no control object, no workload
    MaxEdits,    \* stored edits
    MaxFaults    \* failed calls, crashed servers and lost database sessions

Follower == "follower"
Actors == Editors \cup {Follower}
Versions == 0 .. MaxEdits
Statuses == {"provisioning", "ready", "failed"}

(* What the other definitions rely on: names of actors and versions differ. *)
ConstantsOK ==
    /\ {Follower, "free"} \cap Editors = {}
    /\ MaxEdits \in Nat /\ MaxFaults \in Nat
    /\ NoVersion \notin Versions

VARIABLES
    saved,     \* version in the row
    control,   \* version in the control object
    applied,   \* workload |-> version of its annotation and template
    lock,      \* the editor with the session lock, "free" if there is none
    actor,     \* what every editor and the follower is doing
    fresh,     \* actors whose workload is as they have read it
    manifest,  \* version the execution will apply, NoVersion before it starts
    status,    \* of the deployment, as its run has it
    stray,     \* editors at work that have lost the session lock
    quiet,     \* "edit": the newest edit is at work and nobody else; "yes": it has ended well
    faults

vars == <<saved, control, applied, lock, actor, fresh, manifest, status, stray, quiet, faults>>

Off == [step |-> "off"]

TypeOK ==
    /\ saved \in Versions
    /\ control \in Versions \cup {NoVersion}
    /\ applied \in [Workloads -> Versions \cup {NoVersion}]
    /\ lock \in Editors \cup {"free"}
    /\ \A a \in Actors : actor[a] = Off \/ actor[a].step \in
          {"asked", "stored", "written", "read", "got", "waiting", "rollback", "clearing"}
    /\ fresh \subseteq Actors
    /\ manifest \in Versions \cup {NoVersion}
    /\ status \in Statuses
    /\ stray \subseteq Editors
    /\ quiet \in {"no", "edit", "yes"}
    /\ faults \in 0 .. MaxFaults

Init ==
    /\ saved = 0
    /\ control = NoVersion
    /\ applied = [w \in Workloads |-> NoVersion]
    /\ lock = "free"
    /\ actor = [a \in Actors |-> Off]
    /\ fresh = {}
    /\ manifest = NoVersion
    /\ status = "provisioning"
    /\ stray = {}
    /\ quiet = "no"
    /\ faults = 0

Become(a, state) == actor' = [actor EXCEPT ![a] = state]

(***************************************************************************)
(* applyLivePlacement: one workload after the other is read and patched,   *)
(* the patch tests the resource version that was read.                     *)
(***************************************************************************)
GetWorkload(a) ==
    /\ actor[a].step = "read"
    /\ \E w \in actor[a].left :
          IF applied[w] \in {NoVersion, actor[a].version}
          THEN Become(a, [actor[a] EXCEPT !.left = @ \ {w}]) /\ UNCHANGED fresh
          ELSE /\ Become(a, [step |-> "got", version |-> actor[a].version, left |-> actor[a].left, workload |-> w])
               /\ fresh' = fresh \cup {a}
    /\ UNCHANGED <<saved, control, applied, lock, manifest, status, stray, quiet, faults>>

Write(w, version) ==
    /\ applied' = [applied EXCEPT ![w] = version]
    /\ fresh' = {a \in fresh : actor[a].workload # w}

PatchWorkload(a) ==
    /\ actor[a].step = "got"
    /\ a \in fresh
    /\ Write(actor[a].workload, actor[a].version)
    /\ Become(a, [step |-> "read", version |-> actor[a].version, left |-> actor[a].left \ {actor[a].workload}])
    /\ UNCHANGED <<saved, control, lock, manifest, status, stray, quiet, faults>>

(***************************************************************************)
(* An edit                                                                 *)
(***************************************************************************)
updateApplicationDeploymentPlacement(e) ==
    /\ actor[e] = Off
    /\ Become(e, [step |-> "asked", seen |-> saved, status |-> status])
    /\ UNCHANGED <<saved, control, applied, lock, fresh, manifest, status, stray, quiet, faults>>

(* A transaction that compares the version and raises it.  The edit of a   *)
(* deployment that the request has found failed ends with it.              *)
StoreSettings(e) ==
    /\ \/ /\ actor[e].seen = saved /\ saved < MaxEdits
          /\ saved' = saved + 1
          /\ \/ /\ actor[e].status = "failed"
                /\ Become(e, Off)
                /\ quiet' = "no"
                /\ UNCHANGED lock
             \/ /\ actor[e].status # "failed"
                /\ Become(e, [step |-> "stored", version |-> saved + 1])
                /\ quiet' = IF actor[Follower] = Off /\ stray = {} THEN "edit" ELSE "no"
                /\ lock' = e
       \/ /\ actor[e].seen # saved \/ saved = MaxEdits
          /\ Become(e, Off)
          /\ UNCHANGED <<saved, lock, quiet>>
    /\ UNCHANGED <<control, applied, fresh, manifest, status, stray, faults>>

(* Mutant: edits do not wait for each other.                               *)
UpdateApplicationDeploymentSettingsUnlocked(e) ==
    /\ actor[e].step = "asked"
    /\ StoreSettings(e)

(* The session lock, held until the edit has been applied.                 *)
UpdateApplicationDeploymentSettings(e) ==
    /\ actor[e].step = "asked" /\ lock = "free"
    /\ StoreSettings(e)

WritePlacementControl(e) ==
    /\ actor[e].step = "stored"
    /\ control' = actor[e].version
    /\ Become(e, [step |-> "written", version |-> actor[e].version])
    /\ UNCHANGED <<saved, applied, lock, fresh, manifest, status, stray, quiet, faults>>

(* What counts is what the control object holds now, if there is one.      *)
ApplyLivePlacement(e) ==
    /\ actor[e].step = "written"
    /\ Become(e, [step |-> "read", left |-> Workloads,
                  version |-> IF control = NoVersion THEN actor[e].version ELSE control])
    /\ UNCHANGED <<saved, control, applied, lock, fresh, manifest, status, stray, quiet, faults>>

LetGo(e) ==
    /\ Become(e, Off)
    /\ lock' = IF lock = e THEN "free" ELSE lock
    /\ stray' = stray \ {e}
    /\ fresh' = fresh \ {e}

(* The answer: saved and applied.                                          *)
EndEdit(e) ==
    /\ actor[e].step = "read" /\ actor[e].left = {}
    /\ LetGo(e)
    /\ quiet' = IF quiet = "edit" THEN "yes" ELSE quiet
    /\ UNCHANGED <<saved, control, applied, manifest, status, faults>>

(* A call fails, the patch is refused, or the server dies: the edit stays  *)
(* stored, "save again to retry".                                          *)
FailEdit(e) ==
    /\ actor[e].step \in {"stored", "written", "read", "got"}
    /\ \/ actor[e].step = "got" /\ e \notin fresh /\ UNCHANGED faults
       \/ faults < MaxFaults /\ faults' = faults + 1
    /\ LetGo(e)
    /\ quiet' = "no"
    /\ UNCHANGED <<saved, control, applied, manifest, status>>

(* The database session with the lock is lost while the edit goes on.      *)
LoseLock ==
    /\ lock # "free" /\ faults < MaxFaults
    /\ lock' = "free"
    /\ stray' = stray \cup {lock}
    /\ quiet' = "no"
    /\ faults' = faults + 1
    /\ UNCHANGED <<saved, control, applied, actor, fresh, manifest, status>>

(***************************************************************************)
(* The deployment: it reads the control object, applies its manifests and  *)
(* is verified, with a follower during both; then it rests.  When one of   *)
(* them fails, it removes the control object and the namespace again.      *)
(***************************************************************************)
Following == actor[Follower].step \in {"waiting", "read", "got"}

StartDeployment ==
    /\ manifest = NoVersion /\ status = "provisioning"
    /\ manifest' = IF control = NoVersion THEN 0 ELSE control
    /\ Become(Follower, [step |-> "waiting"])
    /\ quiet' = "no"
    /\ UNCHANGED <<saved, control, applied, lock, fresh, status, stray, faults>>

ApplyManifest(w) ==
    /\ Following
    /\ applied[w] = NoVersion
    /\ Write(w, manifest)
    /\ UNCHANGED <<saved, control, lock, actor, manifest, status, stray, quiet, faults>>

(* Mutant: the follower keeps to the settings it deployed with.            *)
followPlacementOfTheManifest ==
    /\ actor[Follower].step = "waiting"
    /\ control # NoVersion
    /\ Become(Follower, [step |-> "read", version |-> manifest, left |-> Workloads])
    /\ UNCHANGED <<saved, control, applied, lock, fresh, manifest, status, stray, quiet, faults>>

followPlacement ==
    /\ actor[Follower].step = "waiting"
    /\ control # NoVersion
    /\ Become(Follower, [step |-> "read", version |-> control, left |-> Workloads])
    /\ UNCHANGED <<saved, control, applied, lock, fresh, manifest, status, stray, quiet, faults>>

(* A tick ends, or an error ends it; the next one starts anew.             *)
EndTick ==
    /\ \/ actor[Follower].step = "read" /\ actor[Follower].left = {} /\ UNCHANGED faults
       \/ actor[Follower].step = "got" /\ Follower \notin fresh /\ UNCHANGED faults
       \/ actor[Follower].step \in {"read", "got"} /\ faults < MaxFaults /\ faults' = faults + 1
    /\ Become(Follower, [step |-> "waiting"])
    /\ fresh' = fresh \ {Follower}
    /\ UNCHANGED <<saved, control, applied, lock, manifest, status, stray, quiet>>

(* Verification ends: the follower is stopped wherever it is.  The last of *)
(* the members makes the deployment ready.                                 *)
EndDeployment ==
    /\ Following
    /\ \A w \in Workloads : applied[w] # NoVersion
    /\ Become(Follower, Off)
    /\ fresh' = fresh \ {Follower}
    /\ UNCHANGED status \/ (status = "provisioning" /\ status' = "ready")
    /\ UNCHANGED <<saved, control, applied, lock, manifest, stray, quiet, faults>>

(* Execution or verification fails here, and is rolled back.               *)
FailDeployment ==
    /\ Following
    /\ Become(Follower, [step |-> "rollback"])
    /\ fresh' = fresh \ {Follower}
    /\ UNCHANGED <<saved, control, applied, lock, manifest, status, stray, quiet, faults>>

RemoveControl ==
    /\ actor[Follower].step = "rollback"
    /\ control' = NoVersion
    /\ Become(Follower, [step |-> "clearing"])
    /\ UNCHANGED <<saved, applied, lock, fresh, manifest, status, stray, quiet, faults>>

ClearNamespace ==
    /\ actor[Follower].step = "clearing"
    /\ applied' = [w \in Workloads |-> NoVersion]
    /\ Become(Follower, Off)
    /\ fresh' = {}
    /\ UNCHANGED <<saved, control, lock, manifest, status, stray, quiet, faults>>

(* A rollback that fails leaves what it has not removed.                   *)
FailRollback ==
    /\ actor[Follower].step \in {"rollback", "clearing"}
    /\ Become(Follower, Off)
    /\ UNCHANGED <<saved, control, applied, lock, fresh, manifest, status, stray, quiet, faults>>

(* The run fails: by this operation, another stage or member, or since the *)
(* sweeper takes a worker for dead that may still be following.            *)
FailRun ==
    /\ status = "provisioning"
    /\ status' = "failed"
    /\ UNCHANGED <<saved, control, applied, lock, actor, fresh, manifest, stray, quiet, faults>>

Tick == followPlacement \/ GetWorkload(Follower) \/ PatchWorkload(Follower) \/ EndTick

Edit(e) ==
    \/ UpdateApplicationDeploymentSettings(e) \/ WritePlacementControl(e) \/ ApplyLivePlacement(e)
    \/ GetWorkload(e) \/ PatchWorkload(e) \/ EndEdit(e)

Next ==
    \/ \E e \in Editors : updateApplicationDeploymentPlacement(e) \/ Edit(e) \/ FailEdit(e)
    \/ LoseLock
    \/ StartDeployment
    \/ \E w \in Workloads : ApplyManifest(w)
    \/ Tick
    \/ EndDeployment \/ FailDeployment \/ RemoveControl \/ ClearNamespace \/ FailRollback
    \/ FailRun

(* The follower ticks every two seconds; edits have sixty seconds.         *)
Fairness ==
    /\ WF_vars(Tick)
    /\ \A e \in Editors : WF_vars(Edit(e) \/ FailEdit(e))
    /\ \A w \in Workloads : WF_vars(ApplyManifest(w))

Spec == Init /\ [][Next]_vars /\ Fairness

(***************************************************************************)
(* Properties                                                              *)
(***************************************************************************)

(* After an edit that was answered with success every workload has the     *)
(* settings of the row, and so has the control object, whatever edits came *)
(* before it, at the same time or failed half way: unless a deployment was *)
(* active or rolled back, the database session of an edit was lost, or the *)
(* request found the deployment failed.  Such an edit is only stored, for  *)
(* the retry, although members of a group may have been deployed           *)
(* (api/application_deployment_settings.go:115).                           *)
PlacementFollowsTheRow ==
    quiet = "yes" => /\ control = saved
                     /\ \A w \in Workloads : applied[w] \in {saved, NoVersion}

(* Edits saved during provisioning are followed by the active deployment:  *)
(* while it is active and no edit comes, every workload gets the settings  *)
(* of the control object and keeps them (docs/experiments.md:202).         *)
FollowerCatchesUp ==
    <>[](Following /\ control # NoVersion /\ \A e \in Editors : actor[e].step \in {"off", "asked"}) =>
       <>[](\A w \in Workloads : applied[w] = control)

=============================================================================
