---------------------------- MODULE Connectivity ----------------------------
(***************************************************************************)
(* The connectivity monitors of the workers: internal/engine/              *)
(* connectivity.go and internal/storage/connectivity.go.                   *)
(*                                                                         *)
(* Every worker process runs a monitor that sweeps over the resources; a   *)
(* claim in the row keeps the others away for a minute and names the probe *)
(* whose report is accepted.  A failed check is shown as "checking" until  *)
(* a second one confirms it.  One resource with several targets (the       *)
(* members of a cluster group) is modelled; resources are independent.     *)
(***************************************************************************)
EXTENDS Integers, Sequences, FiniteSets

CONSTANTS
    Monitors,    \* worker processes
    Targets,     \* targets of the resource
    NoLease,     \* connectivity_lease_id of a row that was never claimed
    MaxFaults    \* crashes, stalls and probes that give a wrong answer

(* What the other definitions rely on.  A resource has at least one target. *)
ConstantsOK == Targets # {} /\ MaxFaults \in Nat

Statuses == {"reachable", "unknown", "unreachable"}
Priority == [reachable |-> 0, unknown |-> 1, unreachable |-> 5]

VARIABLES
    up,        \* targets that answer
    shown,     \* status in the row
    failures,  \* connectivity_failures, 2 standing for more as well
    due,       \* connectivity_next_check_at has passed
    lease,     \* connectivity_lease_id: the monitor of the newest claim
    probe,     \* monitor |-> "idle", "claimed" or the report it will save
    older,     \* monitor |-> open claims that are older than its own
    late,      \* monitors whose claim is older than the report in the row
    faults

vars == <<up, shown, failures, due, lease, probe, older, late, faults>>

TypeOK ==
    /\ up \subseteq Targets
    /\ shown \in Statuses \cup {"checking"}
    /\ failures \in 0 .. 2
    /\ due \in BOOLEAN
    /\ lease \in Monitors \cup {NoLease}
    /\ probe \in [Monitors -> Statuses \cup {"idle", "claimed"}]
    /\ older \in [Monitors -> SUBSET Monitors]
    /\ late \subseteq Monitors
    /\ faults \in 0 .. MaxFaults

Init ==
    /\ up = Targets
    /\ shown = "unknown"
    /\ failures = 0
    /\ due = TRUE
    /\ lease = NoLease
    /\ probe = [m \in Monitors |-> "idle"]
    /\ older = [m \in Monitors |-> {}]
    /\ late = {}
    /\ faults = 0

Open == {m \in Monitors : probe[m] # "idle"}

(* A sweep of the monitor reaches the resource.                            *)
ClaimConnectivityCheck(m) ==
    /\ probe[m] = "idle" /\ due
    /\ due' = FALSE
    /\ lease' = m
    /\ probe' = [probe EXCEPT ![m] = "claimed"]
    /\ older' = [older EXCEPT ![m] = Open]
    /\ UNCHANGED <<up, shown, failures, late, faults>>

(* The worst status of the targets is that of the resource.                *)
connectivityReport(status) ==
    CHOOSE s \in Statuses : /\ s \in {status[t] : t \in Targets}
                            /\ \A t \in Targets : Priority[status[t]] <= Priority[s]

probeResource(m) ==
    /\ probe[m] = "claimed"
    /\ probe' = [probe EXCEPT ![m] =
                    connectivityReport([t \in Targets |-> IF t \in up THEN "reachable" ELSE "unreachable"])]
    /\ UNCHANGED <<up, shown, failures, due, lease, older, late, faults>>

(* The saved access cannot be read, or a target does not answer in time.   *)
ProbeGoesWrong(m) ==
    /\ probe[m] = "claimed" /\ faults < MaxFaults
    /\ \E s \in {"unknown", "unreachable"} : probe' = [probe EXCEPT ![m] = s]
    /\ faults' = faults + 1
    /\ UNCHANGED <<up, shown, failures, due, lease, older, late>>

(* The claim ends; claims that are older than it are late from now on.     *)
EndClaim(m, reported) ==
    /\ probe' = [probe EXCEPT ![m] = "idle"]
    /\ older' = [n \in Monitors |-> IF n = m THEN {} ELSE older[n] \ {m}]
    /\ late' = (IF reported THEN late \cup older[m] ELSE late) \ {m}

(* Mutant: a report is saved although the claim has passed on.             *)
SaveConnectivityAnyway(m) ==
    /\ probe[m] \in Statuses
    /\ shown' = IF probe[m] = "unreachable" /\ failures = 0 THEN "checking" ELSE probe[m]
    /\ failures' = IF probe[m] = "unreachable" THEN (IF failures = 2 THEN 2 ELSE failures + 1) ELSE 0
    /\ EndClaim(m, TRUE)
    /\ UNCHANGED <<up, due, lease, faults>>

(* Mutant: the failure is shown but not counted.                           *)
SaveConnectivityUncounted(m) ==
    /\ probe[m] \in Statuses
    /\ shown' = IF lease # m THEN shown
                ELSE IF probe[m] = "unreachable" /\ failures = 0 THEN "checking" ELSE probe[m]
    /\ EndClaim(m, lease = m)
    /\ UNCHANGED <<up, failures, due, lease, faults>>

SaveConnectivity(m) ==
    /\ probe[m] \in Statuses
    /\ IF lease = m
       THEN /\ shown' = IF probe[m] = "unreachable" /\ failures = 0 THEN "checking" ELSE probe[m]
            /\ failures' = IF probe[m] = "unreachable" THEN (IF failures = 2 THEN 2 ELSE failures + 1) ELSE 0
       ELSE UNCHANGED <<shown, failures>>
    /\ EndClaim(m, lease = m)
    /\ UNCHANGED <<up, due, lease, faults>>

(* A minute passes after a claim.  A probe and its report take at most     *)
(* fifty seconds, so that the holder is done unless its process stalled.   *)
NextCheck ==
    /\ ~ due
    /\ \/ lease \notin Open /\ UNCHANGED faults
       \/ lease \in Open /\ faults < MaxFaults /\ faults' = faults + 1
    /\ due' = TRUE
    /\ UNCHANGED <<up, shown, failures, lease, probe, older, late>>

(* The process ends, or the report cannot be saved.                        *)
Crash(m) ==
    /\ m \in Open /\ faults < MaxFaults
    /\ EndClaim(m, FALSE)
    /\ faults' = faults + 1
    /\ UNCHANGED <<up, shown, failures, due, lease>>

(* A target goes down or comes back.                                       *)
Change(t) ==
    /\ up' = IF t \in up THEN up \ {t} ELSE up \cup {t}
    /\ UNCHANGED <<shown, failures, due, lease, probe, older, late, faults>>

Monitor(m) == ClaimConnectivityCheck(m) \/ probeResource(m) \/ SaveConnectivity(m)

Next ==
    \/ \E m \in Monitors : Monitor(m) \/ ProbeGoesWrong(m) \/ Crash(m)
    \/ NextCheck
    \/ \E t \in Targets : Change(t)

(* Every monitor sweeps every thirty seconds, and time passes.             *)
Fairness ==
    /\ \A m \in Monitors : WF_vars(Monitor(m))
    /\ WF_vars(NextCheck)

Spec == Init /\ [][Next]_vars /\ Fairness

(***************************************************************************)
(* Properties                                                              *)
(***************************************************************************)

(* A report never replaces that of a newer check: a probe that outlived    *)
(* its claim does not bring an old verdict back (SaveConnectivity).        *)
NewestVerdictStands ==
    [][\A m \in Monitors : m \in late /\ probe'[m] # probe[m] => shown' = shown /\ failures' = failures]_vars

(* What stays down is shown as unreachable and what stays up as reachable  *)
(* in the end, in spite of stalled, crashed and wrong probes.              *)
VerdictSettles ==
    /\ <>[](up # Targets) => <>[](shown = "unreachable")
    /\ <>[](up = Targets) => <>[](shown = "reachable")

=============================================================================
