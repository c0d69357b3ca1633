----------------------------- MODULE MCRecords -----------------------------
(***************************************************************************)
(* The records KubePhos keeps of machines, nodes and workloads, checked on *)
(* small instances: the infrastructure ledger, node settings and           *)
(* placement.  The three share no state, so one of them moves in a         *)
(* behaviour and the others rest.                                          *)
(***************************************************************************)
EXTENDS Ledger

CONSTANTS
    Editors,               \* requests that edit nodes or the placement of workloads
    Count, Keys, Values,   \* NodeSettings: nodes of the pool, keys and values of its entries
    Workloads,             \* Placement: workloads of the application
    NoVersion, MaxEdits    \* Placement: the version of what is absent, bound on stored edits

VARIABLES
    part,                                                                   \* the module that moves
    saved, entries, note, args, request, edit, touched,                     \* NodeSettings
    version, control, applied, lock, actor, fresh, manifest, status, stray, quiet   \* Placement

(* Three operations compete for one of two identities; the first removes   *)
(* its machines again.                                                     *)
MCCreates == [o \in {"o1", "o2", "o3"} |-> IF o = "o1" THEN {"m1", "m2"} ELSE {"m2"}]

(* Two cleanups for the first, and one that comes into the work of others. *)
MCTarget == [c \in {"c1", "c2", "c3"} |-> IF c = "c3" THEN "o2" ELSE "o1"]

NS == INSTANCE NodeSettings
PL == INSTANCE Placement WITH saved <- version

(* The instances are ones the proofs speak about.                          *)
ASSUME InstancesOK == ConstantsOK /\ NS!ConstantsOK /\ PL!ConstantsOK

ledger == <<machine, row, stage, progress, lapsed, cleaning, listed>>
nodes == <<saved, entries, note, args, request, edit, touched>>
placement == <<version, control, applied, lock, actor, fresh, manifest, status, stray, quiet>>

RecordsInit ==
    /\ part \in {"ledger", "nodes", "placement"}
    /\ Init /\ NS!Init /\ PL!Init
    /\ part # "nodes" => saved = [k \in Keys |-> NS!None]

RecordsNext ==
    \/ part = "ledger" /\ Next /\ UNCHANGED <<part, nodes, placement>>
    \/ part = "nodes" /\ NS!Next /\ UNCHANGED <<part, faults, ledger, placement>>
    \/ part = "placement" /\ PL!Next /\ UNCHANGED <<part, ledger, nodes>>

RecordsSpec == RecordsInit /\ [][RecordsNext]_<<part, faults, ledger, nodes, placement>>

-----------------------------------------------------------------------------
(* StoredIsInForce of NodeSettings, with two requests that edit two nodes. *)
StoredIsInForce == NS!StoredIsInForce

(* PlacementFollowsTheRow of Placement, with two requests that edit.       *)
PlacementFollowsTheRow == PL!PlacementFollowsTheRow

=============================================================================
