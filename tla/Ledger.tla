------------------------------- MODULE Ledger -------------------------------
(***************************************************************************)
(* The infrastructure ledger: internal/storage/managed_resources.go and    *)
(* the worker's use of it (reserveEffects, completeEffects, cleanup and    *)
(* captureDiscovery in internal/engine/worker.go).                         *)
(*                                                                         *)
(* Operations create machines under identities that the provider shares    *)
(* with everybody.  A row is reserved before the plugin runs, completed    *)
(* after it, and given back by a rollback or a cleanup operation; a        *)
(* discovery imports the machines nobody reserved.  The provider and the   *)
(* database change one after the other, and the worker may die in between  *)
(* or go on although the sweeper has failed its operation.                 *)
(*                                                                         *)
(* All operations belong to one workspace.  The plugin is the one of       *)
(* module MachineProvisioning: it creates no machine under a taken         *)
(* identity and removes only machines with its own marker.                 *)
(***************************************************************************)
EXTENDS Integers, FiniteSets

CONSTANTS
    Ids,         \* identities of machines at the provider (ledger ids)
    Ops,         \* operations that create machines
    Creates,     \* operation |-> identities its create effects name
    Shared,      \* identities under which others create machines as well
    Temporary,   \* operations whose second step removes the machines again
    Cleanups,    \* cleanup operations; nothing limits their number or keeps them apart
    Target,      \* cleanup operation |-> the operation it cleans up after
    MaxFaults    \* failing calls and crashes

NoMachine == "no machine"
Foreign == "foreign"      \* a machine that no operation made
NoRow == [ownership |-> "none", state |-> "none", owner |-> "none"]
NoList == {"not listed"}  \* no discovery is under way
Offered == {"deleted", "cleaned"}

(* What the other definitions rely on: operations are told from the marks. *)
ConstantsOK ==
    /\ Creates \in [Ops -> SUBSET Ids]
    /\ Target \in [Cleanups -> Ops]
    /\ Shared \subseteq Ids
    /\ {NoMachine, Foreign, "none"} \cap Ops = {}
    /\ MaxFaults \in Nat

VARIABLES
    machine,   \* identity |-> who made the machine
    row,       \* identity |-> its row in infrastructure_resources
    stage,     \* operation |-> where the worker is in it
    progress,  \* operation |-> identities its worker has created machines under
    lapsed,    \* operations that the sweeper has failed with their worker at work
    cleaning,  \* cleanup operation |-> where its worker is in it
    listed,    \* identities a discovery found and has yet to record
    faults

vars == <<machine, row, stage, progress, lapsed, cleaning, listed, faults>>

Stages == {"queued", "checked", "reserved", "created", "removing", "rollback", "undone", "succeeded", "failed"}
InWork == {"checked", "reserved", "created", "removing", "rollback", "undone"}

TypeOK ==
    /\ machine \in [Ids -> Ops \cup {NoMachine, Foreign}]
    /\ \A e \in Ids : row[e] = NoRow \/ row[e] \in
          [ownership : {"managed", "imported"}, owner : Ops \cup {"none"},
           state : {"reserved", "running", "failed"} \cup Offered]
    /\ stage \in [Ops -> Stages]
    /\ progress \in [Ops -> SUBSET Ids]
    /\ lapsed \subseteq Ops
    /\ cleaning \in [Cleanups -> {"none", "authorized", "removed", "verified", "done"}]
    /\ listed = NoList \/ listed \subseteq Ids
    /\ faults \in 0 .. MaxFaults

Init ==
    /\ machine = [e \in Ids |-> NoMachine]
    /\ row = [e \in Ids |-> NoRow]
    /\ stage = [o \in Ops |-> "queued"]
    /\ progress = [o \in Ops |-> {}]
    /\ lapsed = {}
    /\ cleaning = [c \in Cleanups |-> "none"]
    /\ listed = NoList
    /\ faults = 0

Enter(o, next) == stage' = [stage EXCEPT ![o] = next]

(***************************************************************************)
(* The ledger's statements                                                 *)
(***************************************************************************)

(* EnsureResourceAvailable and the condition of the upsert.                *)
Available(e) == row[e] = NoRow \/ (row[e].ownership = "managed" /\ row[e].state \in Offered)

(* The upsert keeps the ownership of a row it takes over.                  *)
Reserved(o, e) ==
    [ownership |-> IF row[e] = NoRow THEN "managed" ELSE row[e].ownership, state |-> "reserved", owner |-> o]

(* The rows of an operation change their state together; a failure spares  *)
(* those that were given back.                                             *)
SetOperationManagedResourcesState(o, state) ==
    row' = [e \in Ids |-> IF /\ row[e].owner = o /\ row[e].ownership = "managed"
                             /\ (state = "failed" => row[e].state \notin Offered)
                          THEN [row[e] EXCEPT !.state = state] ELSE row[e]]

AuthorizeManagedCleanup(o) == \A e \in Creates[o] : row[e].ownership = "managed"

(***************************************************************************)
(* An operation                                                            *)
(***************************************************************************)
Precheck(o) ==
    /\ stage[o] = "queued"
    /\ \A e \in Creates[o] : machine[e] = NoMachine
    /\ Enter(o, "checked")
    /\ UNCHANGED <<machine, row, progress, lapsed, cleaning, listed, faults>>

(* One transaction for all create effects.                                 *)
ReserveManagedResources(o) ==
    /\ stage[o] = "checked"
    /\ \A e \in Creates[o] : Available(e) \/ row[e].owner = o
    /\ row' = [e \in Ids |-> IF e \in Creates[o] /\ Available(e) THEN Reserved(o, e) ELSE row[e]]
    /\ Enter(o, "reserved")
    /\ UNCHANGED <<machine, progress, lapsed, cleaning, listed, faults>>

(* fail: a refused precheck or a conflict, nothing to roll back.           *)
Refuse(o) ==
    /\ \/ stage[o] = "queued" /\ \E e \in Creates[o] : machine[e] # NoMachine
       \/ stage[o] = "checked" /\ \E e \in Creates[o] : ~ Available(e) /\ row[e].owner # o
    /\ SetOperationManagedResourcesState(o, "failed")
    /\ Enter(o, "failed")
    /\ UNCHANGED <<machine, progress, lapsed, cleaning, listed, faults>>

Made(o) == {e \in Creates[o] : machine[e] = o}

(* The reservation cannot be recorded in the audit log: it is released,    *)
(* unless that fails as well, and the operation fails.                     *)
ReleaseManagedResourceReservations(o) ==
    /\ stage[o] = "reserved" /\ progress[o] = {} /\ faults < MaxFaults
    /\ \E released \in SUBSET {"reserved"} :
          row' = [e \in Ids |-> IF row[e].owner # o \/ row[e].ownership # "managed" \/ row[e].state \in Offered
                                THEN row[e]
                                ELSE [row[e] EXCEPT !.state = IF @ \in released THEN "cleaned" ELSE "failed"]]
    /\ Enter(o, "failed")
    /\ faults' = faults + 1
    /\ UNCHANGED <<machine, progress, lapsed, cleaning, listed>>

CreateMachine(o) ==
    /\ stage[o] = "reserved"
    /\ \E e \in Creates[o] \ progress[o] :
          IF machine[e] = NoMachine
          THEN /\ machine' = [machine EXCEPT ![e] = o]
               /\ progress' = [progress EXCEPT ![o] = @ \cup {e}]
               /\ Enter(o, IF progress[o] \cup {e} = Creates[o] THEN "created" ELSE "reserved")
          ELSE /\ Enter(o, "rollback")
               /\ UNCHANGED <<machine, progress>>
    /\ UNCHANGED <<row, lapsed, cleaning, listed, faults>>

(* CompleteManagedResource for one effect after the other, until one whose *)
(* row is not the operation's.                                             *)
completeEffects(o) ==
    LET own == {e \in Creates[o] : row[e].owner = o /\ row[e].ownership = "managed"}
        Complete(done) == row' = [e \in Ids |-> IF e \in done THEN [row[e] EXCEPT !.state = "running"] ELSE row[e]]
    IN
    /\ stage[o] = "created"
    /\ \/ /\ own = Creates[o]
          /\ Complete(own)
          /\ Enter(o, IF o \in Temporary THEN "removing" ELSE "succeeded")
       \/ /\ own # Creates[o]
          /\ \E done \in SUBSET own : Complete(done)
          /\ Enter(o, "rollback")
    /\ UNCHANGED <<machine, progress, lapsed, cleaning, listed, faults>>

(* The second step of a temporary machine: remove, verify, record.         *)
RemoveTemporary(o) ==
    /\ stage[o] = "removing"
    /\ \/ /\ Made(o) # {}
          /\ machine' = [e \in Ids |-> IF e \in Made(o) THEN NoMachine ELSE machine[e]]
          /\ UNCHANGED <<row, stage>>
       \/ /\ Made(o) = {}
          /\ row' = [e \in Ids |-> IF e \in Creates[o] THEN [row[e] EXCEPT !.state = "deleted"] ELSE row[e]]
          /\ Enter(o, "succeeded")
          /\ UNCHANGED machine
    /\ UNCHANGED <<progress, lapsed, cleaning, listed, faults>>

(* A call of Execute or Verify fails.                                      *)
FailStep(o) ==
    /\ stage[o] \in {"reserved", "created", "removing"} /\ faults < MaxFaults
    /\ faults' = faults + 1
    /\ Enter(o, "rollback")
    /\ UNCHANGED <<machine, row, progress, lapsed, cleaning, listed>>

(* cleanup: the plugin removes what the step made, unless somebody else's  *)
(* machine is in the way; then every row of the operation is given back.   *)
Rollback(o) ==
    /\ stage[o] = "rollback"
    /\ IF \A e \in Creates[o] : machine[e] \in {o, NoMachine}
       THEN /\ machine' = [e \in Ids |-> IF e \in Made(o) THEN NoMachine ELSE machine[e]]
            /\ Enter(o, "undone")
            /\ UNCHANGED row
       ELSE /\ SetOperationManagedResourcesState(o, "failed")
            /\ Enter(o, "failed")
            /\ UNCHANGED machine
    /\ UNCHANGED <<progress, lapsed, cleaning, listed, faults>>

GiveBack(o) ==
    /\ stage[o] = "undone"
    /\ SetOperationManagedResourcesState(o, "cleaned")
    /\ Enter(o, "failed")
    /\ UNCHANGED <<machine, progress, lapsed, cleaning, listed, faults>>

(* Mutant: the rows are given back although the rollback failed.           *)
FailRollbackGivesBack(o) ==
    /\ stage[o] = "rollback" /\ faults < MaxFaults
    /\ \E gone \in SUBSET Made(o) : machine' = [e \in Ids |-> IF e \in gone THEN NoMachine ELSE machine[e]]
    /\ SetOperationManagedResourcesState(o, "cleaned")
    /\ Enter(o, "failed")
    /\ faults' = faults + 1
    /\ UNCHANGED <<progress, lapsed, cleaning, listed>>

(* The rollback fails half way.                                            *)
FailRollback(o) ==
    /\ stage[o] = "rollback" /\ faults < MaxFaults
    /\ \E gone \in SUBSET Made(o) : machine' = [e \in Ids |-> IF e \in gone THEN NoMachine ELSE machine[e]]
    /\ SetOperationManagedResourcesState(o, "failed")
    /\ Enter(o, "failed")
    /\ faults' = faults + 1
    /\ UNCHANGED <<progress, lapsed, cleaning, listed>>

(* The worker dies: the sweeper fails the operation, the ledger stays.     *)
Crash(o) ==
    /\ stage[o] \in InWork /\ faults < MaxFaults
    /\ Enter(o, "failed")
    /\ faults' = faults + 1
    /\ UNCHANGED <<machine, row, progress, lapsed, cleaning, listed>>

(* The sweeper fails an operation whose worker cannot renew the lease; the *)
(* worker logs that and goes on.  Its reports bring the operation back for *)
(* the length of a lease that is no longer renewed, then it fails again.   *)
ExpireLease(o) ==
    /\ stage[o] \in InWork /\ o \notin lapsed /\ faults < MaxFaults
    /\ lapsed' = lapsed \cup {o}
    /\ faults' = faults + 1
    /\ UNCHANGED <<machine, row, stage, progress, cleaning, listed>>

(***************************************************************************)
(* A cleanup operation of an operation that ended, as its row has it.      *)
(* What the sweeper says of a cleanup with a worker at work changes nothing*)
(* here: any number of cleanups may be at work in the same machines.       *)
(***************************************************************************)
Continue(c, next) == cleaning' = [cleaning EXCEPT ![c] = next]

AuthorizeCleanup(c) ==
    /\ stage[Target[c]] \in {"succeeded", "failed"} \/ Target[c] \in lapsed
    /\ cleaning[c] = "none"
    /\ AuthorizeManagedCleanup(Target[c])
    /\ Continue(c, "authorized")
    /\ UNCHANGED <<machine, row, stage, progress, lapsed, listed, faults>>

CleanupMachines(c) ==
    /\ cleaning[c] = "authorized"
    /\ IF \A e \in Creates[Target[c]] : machine[e] \in {Target[c], NoMachine}
       THEN /\ machine' = [e \in Ids |-> IF e \in Made(Target[c]) THEN NoMachine ELSE machine[e]]
            /\ Continue(c, "removed")
       ELSE /\ Continue(c, "none")
            /\ UNCHANGED machine
    /\ UNCHANGED <<row, stage, progress, lapsed, listed, faults>>

VerifyCleanup(c) ==
    /\ cleaning[c] = "removed"
    /\ Continue(c, IF \A e \in Creates[Target[c]] : machine[e] = NoMachine THEN "verified" ELSE "none")
    /\ UNCHANGED <<machine, row, stage, progress, lapsed, listed, faults>>

(* SetManagedResourceState asks for the workspace, not for the operation.  *)
RecordCleanup(c) ==
    /\ cleaning[c] = "verified"
    /\ row' = [e \in Ids |-> IF e \in Creates[Target[c]] THEN [row[e] EXCEPT !.state = "deleted"] ELSE row[e]]
    /\ Continue(c, "done")
    /\ UNCHANGED <<machine, stage, progress, lapsed, listed, faults>>

CrashCleanup(c) ==
    /\ cleaning[c] \in {"authorized", "removed", "verified"} /\ faults < MaxFaults
    /\ Continue(c, "none")
    /\ faults' = faults + 1
    /\ UNCHANGED <<machine, row, stage, progress, lapsed, listed>>

(***************************************************************************)
(* Discovery: what is found is recorded later, in one transaction.         *)
(***************************************************************************)
Discover ==
    /\ listed = NoList
    /\ listed' = {e \in Ids : machine[e] # NoMachine}
    /\ UNCHANGED <<machine, row, stage, progress, lapsed, cleaning, faults>>

SyncDiscoveredResources ==
    /\ listed # NoList
    /\ row' = [e \in Ids |-> IF e \notin listed THEN row[e]
                             ELSE IF row[e] = NoRow
                             THEN [ownership |-> "imported", state |-> "running", owner |-> "none"]
                             ELSE [row[e] EXCEPT !.state = "running"]]
    /\ listed' = NoList
    /\ UNCHANGED <<machine, stage, progress, lapsed, cleaning, faults>>

(* Somebody else creates a machine at the provider, or removes it.         *)
ForeignMachine(e) ==
    /\ machine[e] \in {NoMachine, Foreign}
    /\ machine' = [machine EXCEPT ![e] = IF @ = Foreign THEN NoMachine ELSE Foreign]
    /\ UNCHANGED <<row, stage, progress, lapsed, cleaning, listed, faults>>

Next ==
    \/ \E o \in Ops :
          \/ Precheck(o) \/ ReserveManagedResources(o) \/ ReleaseManagedResourceReservations(o)
          \/ Refuse(o) \/ CreateMachine(o)
          \/ completeEffects(o) \/ RemoveTemporary(o) \/ FailStep(o) \/ Rollback(o)
          \/ GiveBack(o) \/ FailRollback(o) \/ Crash(o) \/ ExpireLease(o)
    \/ \E c \in Cleanups :
          \/ AuthorizeCleanup(c) \/ CleanupMachines(c) \/ VerifyCleanup(c) \/ RecordCleanup(c)
          \/ CrashCleanup(c)
    \/ Discover
    \/ SyncDiscoveredResources
    \/ \E e \in Shared : ForeignMachine(e)

Spec == Init /\ [][Next]_vars

(***************************************************************************)
(* Properties                                                              *)
(***************************************************************************)

(* Every machine an operation made is in the ledger as managed from before *)
(* it exists, through crashes, rollbacks and discoveries, so that its      *)
(* cleanup is always authorized; what was imported stays read-only, nobody *)
(* owns it; and an identity is given away again only when its machine is   *)
(* gone, unless a cleanup that names it has come into the work of another  *)
(* operation, or of the same one when its worker has outlived its lease.   *)
LedgerCoversMachines ==
    /\ \A e \in Ids :
          /\ machine[e] \in Ops => row[e].ownership = "managed"
          /\ row[e].ownership = "imported" => row[e].owner = "none"
    /\ \A e \in Ids, o \in Ops :
          (/\ machine[e] = o
           /\ \A c \in Cleanups : (e \in Creates[Target[c]] /\ (Target[c] # o \/ o \in lapsed)) =>
                                   cleaning[c] = "none") =>
             row[e].state \notin Offered

=============================================================================
