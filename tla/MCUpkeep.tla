------------------------------ MODULE MCUpkeep ------------------------------
(***************************************************************************)
(* The background loops that keep records in step with the outside,        *)
(* checked under fairness on small instances: the deletion of files, the   *)
(* connectivity monitors and the follower of a placement.  The three share *)
(* no state, so one of them moves in a behaviour and the others rest.      *)
(***************************************************************************)
EXTENDS Outbox

CONSTANTS
    Monitors, Targets, NoLease   \* Connectivity: monitors, targets of the resource, an owner that is none

VARIABLES
    part,                                                                   \* the module that moves
    up, shown, failures, due, lease, probe, older, late,                    \* Connectivity
    version, control, applied, lock, actor, fresh, manifest, status, stray, quiet   \* Placement

(* A run belongs to both experiments, and operations of one run read what  *)
(* operations of the other wrote.                                          *)
MCTrials == [x \in {"x1", "x2"} |-> IF x = "x1" THEN {"r1", "r2"} ELSE {"r2"}]
MCOwns == [r \in {"r1", "r2"} |-> IF r = "r1" THEN {"o1", "o2"} ELSE {"o3"}]
MCFeeds == [o \in {"o1", "o2", "o3"} |-> CASE o = "o1" -> {"o2"} [] o = "o2" -> {"o3"} [] o = "o3" -> {}]

CN == INSTANCE Connectivity

(* An edit of the placement of two workloads.                              *)
PL == INSTANCE Placement WITH
         Editors <- {"e1"}, Workloads <- {"d1", "d2"}, NoVersion <- 99, MaxEdits <- 2, MaxFaults <- 1,
         saved <- version

(* The instances are ones the proofs speak about.                          *)
ASSUME InstancesOK == ConstantsOK /\ CN!ConstantsOK /\ PL!ConstantsOK

files == <<experiments, run, op, artifact, stored, queue, batch, import>>
probes == <<up, shown, failures, due, lease, probe, older, late>>
placement == <<version, control, applied, lock, actor, fresh, manifest, status, stray, quiet>>
upkeep == <<part, faults, files, probes, placement>>

Files(A) == part = "files" /\ A /\ UNCHANGED <<part, probes, placement>>
Probes(A) == part = "probes" /\ A /\ UNCHANGED <<part, files, placement>>
Places(A) == part = "placement" /\ A /\ UNCHANGED <<part, files, probes>>

UpkeepInit == part \in {"files", "probes", "placement"} /\ Init /\ CN!Init /\ PL!Init
UpkeepNext == Files(Next) \/ Probes(CN!Next) \/ Places(PL!Next)

(* The fairness of the part that moves.                                    *)
UpkeepFairness ==
    /\ \A w \in Workers : WF_upkeep(Files(DeletionLoop(w)))
    /\ \A k \in Keys : WF_upkeep(Files(RetryAfter(k)))
    /\ \A i \in Imports : WF_upkeep(Files(WriteObjects(i) \/ CommitImport(i)))
    /\ \A m \in Monitors : WF_upkeep(Probes(CN!Monitor(m)))
    /\ WF_upkeep(Probes(CN!NextCheck))
    /\ WF_upkeep(Places(PL!Tick))
    /\ WF_upkeep(Places(PL!Edit("e1") \/ PL!FailEdit("e1")))
    /\ \A w \in {"d1", "d2"} : WF_upkeep(Places(PL!ApplyManifest(w)))

UpkeepSpec == UpkeepInit /\ [][UpkeepNext]_upkeep /\ UpkeepFairness

-----------------------------------------------------------------------------
(* NewestVerdictStands of Connectivity: no old report replaces a newer one *)
(* although a probe may outlive its claim.                                 *)
NewestVerdictStands == CN!NewestVerdictStands

(* VerdictSettles of Connectivity, under the fairness of the monitors.     *)
VerdictSettles == part = "probes" => CN!VerdictSettles

(* FollowerCatchesUp of Placement, under the fairness of the follower.     *)
FollowerCatchesUp == PL!FollowerCatchesUp

=============================================================================
