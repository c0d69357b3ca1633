---------------------------- MODULE RecordsProofs ----------------------------
(***************************************************************************)
(* The records of machines, nodes and workloads, for every value of the    *)
(* constants: first the infrastructure ledger, then the settings of nodes, *)
(* then placement, and last the three of them side by side.                *)
(***************************************************************************)
EXTENDS MCRecords, TLAPS

-----------------------------------------------------------------------------
(***************************************************************************)
(* For any number of operations, identities and faults: the ledger covers  *)
(* every machine.  The argument follows the row of an identity: it passes  *)
(* to another operation only when it is on offer, it is put on offer only  *)
(* by its owner, when the owner's machine is gone, or by a cleanup that    *)
(* names the same identity, of another operation or of one whose worker    *)
(* outlived its lease; so a machine without such a cleanup has the row of  *)
(* the operation that made it.                                             *)
(***************************************************************************)
Rows == [ownership : {"managed", "imported"}, owner : Ops \cup {"none"},
         state : {"reserved", "running", "failed"} \cup Offered]

LedgerTyped ==
    /\ machine \in [Ids -> Ops \cup {NoMachine, Foreign}]
    /\ row \in [Ids -> {NoRow} \cup Rows]
    /\ stage \in [Ops -> Stages]
    /\ progress \in [Ops -> SUBSET Ids]
    /\ lapsed \subseteq Ops
    /\ cleaning \in [Cleanups -> {"none", "authorized", "removed", "verified", "done"}]
    /\ listed = NoList \/ listed \subseteq Ids
    /\ faults \in 0 .. MaxFaults

Managed(e) == row[e].ownership = "managed"

(* A cleanup recorded the identity as deleted: that of another operation, or
   one beside a worker that has outlived its lease. *)
Disturbed(e, o) ==
    \E c \in Cleanups : e \in Creates[Target[c]] /\ cleaning[c] = "done" /\ (Target[c] # o \/ o \in lapsed)

(* The row of an identity is the operation's and not on offer. *)
Keeps(e, o) == Managed(e) /\ (Disturbed(e, o) \/ (row[e].owner = o /\ row[e].state \notin Offered))

(* Whose a row may be. *)
Owned(e) ==
    /\ row[e].ownership = "imported" => row[e].owner = "none"
    /\ row[e].owner \in Ops => Managed(e)

(* What holds for a machine an operation made. *)
Covered(e, o) == machine[e] = o => e \in Creates[o] /\ Keeps(e, o)

Early == {"queued", "checked", "reserved"}
Holding == {"reserved", "created", "removing"}
Ended == {"succeeded", "failed"}

(* What holds at the stages of an operation. *)
Staged(o) ==
    /\ stage[o] \in Early => Made(o) \subseteq progress[o]
    /\ stage[o] \in Holding => \A e \in Creates[o] : Keeps(e, o)
    /\ stage[o] = "undone" => Made(o) = {}

(* What holds at the stages of a cleanup operation. *)
Cleaned(c) ==
    /\ cleaning[c] # "none" => /\ stage[Target[c]] \in Ended \/ Target[c] \in lapsed
                               /\ \A e \in Creates[Target[c]] : Managed(e)
    /\ cleaning[c] \in {"removed", "verified", "done"} => Target[c] \in lapsed \/ Made(Target[c]) = {}

LedgerInv ==
    /\ LedgerTyped
    /\ \A e \in Ids : Owned(e)
    /\ \A e \in Ids, o \in Ops : Covered(e, o)
    /\ \A o \in Ops : Staged(o)
    /\ \A c \in Cleanups : Cleaned(c)

(* What every step but a reservation does to the rows: a managed row keeps
   its owner, and it is put on offer only under a machine that is gone, by
   an operation that has ended, or by a cleanup that disturbs it. *)
RowsStep ==
    /\ \A e \in Ids : Owned(e)'
    /\ \A e \in Ids : Managed(e) => row'[e].owner = row[e].owner /\ Managed(e)'
    /\ \A e \in Ids, p \in Ops :
          (row[e].owner = p /\ row[e].state \notin Offered /\ row'[e].state \in Offered /\ Managed(e)) =>
             Disturbed(e, p)' \/ (machine'[e] # p /\ stage'[p] \notin Holding)

(* What every step does to the machines and the stages. *)
WorkStep ==
    /\ \A c \in Cleanups : cleaning[c] = "done" => cleaning'[c] = "done"
    /\ lapsed \subseteq lapsed'
    /\ \A e \in Ids, p \in Ops :
          machine'[e] = p => machine[e] = p \/ (e \in Creates[p] /\ stage[p] = "reserved" /\ e \in progress'[p])
    /\ \A p \in Ops :
          /\ progress[p] \subseteq progress'[p]
          /\ stage'[p] \in Early => stage[p] \in Early
          /\ stage'[p] \in Holding => stage[p] \in Holding
          /\ stage'[p] = "undone" => \A e \in Creates[p] : machine'[e] # p
    /\ \A c \in Cleanups :
          /\ cleaning'[c] # "none" => /\ stage'[Target[c]] \in Ended \/ Target[c] \in lapsed'
                                      /\ \A e \in Creates[Target[c]] : Managed(e)
          /\ cleaning'[c] \in {"removed", "verified", "done"} =>
                Target[c] \in lapsed' \/ \A e \in Creates[Target[c]] : machine'[e] # Target[c]

(* Whoever keeps an identity goes on keeping it. *)
LEMMA KeepsStep ==
    ASSUME ConstantsOK, LedgerInv, RowsStep, WorkStep, NEW e \in Ids, NEW p \in Ops, Keeps(e, p),
           machine'[e] = p \/ stage'[p] \in Holding
    PROVE  Keeps(e, p)'
<1>1. Disturbed(e, p) => Disturbed(e, p)'
    BY DEF Disturbed, WorkStep
<1>2. Managed(e)' /\ row'[e].owner = row[e].owner
    BY DEF Keeps, RowsStep
<1> QED BY <1>1, <1>2 DEF Keeps, RowsStep

(* The invariant survives every such step. *)
LEMMA StepKeeps ==
    ASSUME ConstantsOK, LedgerInv, LedgerTyped', RowsStep, WorkStep
    PROVE  LedgerInv'
<1>1. \A e \in Ids : Owned(e)'
    BY DEF RowsStep
<1>2. ASSUME NEW e \in Ids, NEW p \in Ops, machine'[e] = p
      PROVE  e \in Creates[p] /\ Keeps(e, p)'
    <2>1. machine[e] = p \/ (e \in Creates[p] /\ stage[p] = "reserved")
        BY <1>2 DEF WorkStep
    <2>2. e \in Creates[p] /\ Keeps(e, p)
        BY <2>1 DEF LedgerInv, Covered, Staged, Holding
    <2> QED BY <1>2, <2>2, KeepsStep
<1>3. ASSUME NEW p \in Ops
      PROVE  Staged(p)'
    <2>1. Creates[p] \subseteq Ids
        BY DEF ConstantsOK
    <2>2. ASSUME stage'[p] \in Holding
          PROVE  \A e \in Creates[p] : Keeps(e, p)'
        <3>1. stage[p] \in Holding
            BY <2>2 DEF WorkStep
        <3>2. \A e \in Creates[p] : Keeps(e, p)
            BY <3>1 DEF LedgerInv, Staged, Holding
        <3> QED BY <2>1, <2>2, <3>2, KeepsStep
    <2>3. stage'[p] \in Early => \A e \in Creates[p] : machine'[e] = p => e \in progress'[p]
        <3>1. SUFFICES ASSUME stage'[p] \in Early, NEW e \in Creates[p], machine'[e] = p, machine[e] = p
                       PROVE  e \in progress'[p]
            BY <2>1 DEF WorkStep
        <3>2. e \in progress[p]
            BY <3>1 DEF WorkStep, LedgerInv, Staged, Made
        <3> QED BY <3>2 DEF WorkStep
    <2>4. stage'[p] = "undone" => \A e \in Creates[p] : machine'[e] # p
        BY DEF WorkStep
    <2> QED BY <2>2, <2>3, <2>4 DEF Staged, Made
<1>4. ASSUME NEW c \in Cleanups
      PROVE  Cleaned(c)'
    <2>1. Target[c] \in Ops /\ Creates[Target[c]] \subseteq Ids
        BY DEF ConstantsOK
    <2>2. \A e \in Creates[Target[c]] : Managed(e) => Managed(e)'
        BY <2>1 DEF RowsStep
    <2> QED BY <2>2 DEF Cleaned, WorkStep, Made
<1> QED BY <1>1, <1>2, <1>3, <1>4 DEF LedgerInv, Covered

(* Steps that leave the rows alone. *)
LEMMA RowsRest ==
    ASSUME LedgerInv, UNCHANGED row
    PROVE  RowsStep
BY DEF LedgerInv, RowsStep, Owned, Managed

(* Steps that leave the machines and the cleanups alone and do not reserve. *)
LEMMA StageStep ==
    ASSUME ConstantsOK, LedgerInv, NEW o \in Ops, NEW next, Enter(o, next), stage[o] \notin Ended,
           UNCHANGED <<machine, progress, lapsed, cleaning>>,
           next \in Holding => stage[o] \in Holding,
           next \in Early => stage[o] \in Early,
           next # "undone"
    PROVE  WorkStep
<1>1. \A p \in Ops : stage'[p] = IF p = o THEN next ELSE stage[p]
    BY DEF Enter, LedgerInv, LedgerTyped
<1>2. \A c \in Cleanups : Target[c] \in Ops
    BY DEF ConstantsOK
<1> QED BY <1>1, <1>2 DEF WorkStep, LedgerInv, Staged, Cleaned, Made
(* Steps that take machines away and leave the cleanups alone. *)
LEMMA TakeStep ==
    ASSUME ConstantsOK, LedgerInv, NEW o \in Ops, stage[o] \notin Ended,
           \A e \in Ids, p \in Ops : machine'[e] = p => machine[e] = p,
           UNCHANGED <<progress, lapsed, cleaning>>,
           \/ UNCHANGED stage
           \/ Enter(o, "failed")
           \/ Enter(o, "undone") /\ \A e \in Creates[o] : machine'[e] # o
    PROVE  WorkStep
<1>1. \A p \in Ops : stage'[p] = stage[p] \/ (p = o /\ stage'[p] \in {"failed", "undone"})
    BY DEF Enter, LedgerInv, LedgerTyped
<1>2. \A c \in Cleanups : Target[c] \in Ops /\ Creates[Target[c]] \subseteq Ids
    BY DEF ConstantsOK
<1>3. \A p \in Ops : Creates[p] \subseteq Ids
    BY DEF ConstantsOK
<1>4. \A p \in Ops : stage'[p] = "undone" => \A e \in Creates[p] : machine'[e] # p
    <2>1. \A p \in Ops : p # o \/ UNCHANGED stage => stage'[p] = stage[p]
        BY DEF Enter, LedgerInv, LedgerTyped
    <2>2. Enter(o, "failed") => stage'[o] = "failed"
        BY DEF Enter, LedgerInv, LedgerTyped
    <2> QED BY <1>3, <2>1, <2>2 DEF LedgerInv, Staged, Made
<1>5. \A p \in Ops : (stage'[p] \in Early => stage[p] \in Early) /\ (stage'[p] \in Holding => stage[p] \in Holding)
    BY <1>1 DEF Early, Holding
<1>6. \A c \in Cleanups :
          /\ cleaning'[c] # "none" => /\ stage'[Target[c]] \in Ended \/ Target[c] \in lapsed'
                                      /\ \A e \in Creates[Target[c]] : Managed(e)
          /\ cleaning'[c] \in {"removed", "verified", "done"} =>
                Target[c] \in lapsed' \/ \A e \in Creates[Target[c]] : machine'[e] # Target[c]
    BY <1>1, <1>2 DEF LedgerInv, Cleaned, Made, Ended
<1> QED BY <1>4, <1>5, <1>6 DEF WorkStep

States == {"reserved", "running", "failed"} \cup Offered

(* A row that exists gets a new state and nothing else. *)
LEMMA Restated ==
    ASSUME NEW r \in {NoRow} \cup Rows, r # NoRow, NEW s \in States
    PROVE  /\ [r EXCEPT !.state = s] \in Rows
           /\ [r EXCEPT !.state = s].owner = r.owner
           /\ [r EXCEPT !.state = s].ownership = r.ownership
           /\ [r EXCEPT !.state = s].state = s
<1>1. r \in Rows
    OBVIOUS
<1> QED BY <1>1 DEF Rows, States

(* A managed row exists. *)
LEMMA ManagedExists ==
    ASSUME NEW e \in Ids, Managed(e)
    PROVE  row[e] # NoRow
BY DEF Managed, NoRow

(* An update that gives managed rows new states, each of them allowed. *)
LEMMA RestatedRows ==
    ASSUME ConstantsOK, LedgerInv, NEW S \in SUBSET Ids, NEW new, \A e \in S : Managed(e) /\ new[e] \in States,
           row' = [e \in Ids |-> IF e \in S THEN [row[e] EXCEPT !.state = new[e]] ELSE row[e]],
           \A e \in S, p \in Ops : (row[e].owner = p /\ row[e].state \notin Offered /\ new[e] \in Offered) =>
               Disturbed(e, p)' \/ (machine'[e] # p /\ stage'[p] \notin Holding)
    PROVE  row' \in [Ids -> {NoRow} \cup Rows] /\ RowsStep
<1>1. row \in [Ids -> {NoRow} \cup Rows]
    BY DEF LedgerInv, LedgerTyped
<1>2. ASSUME NEW e \in Ids
      PROVE  /\ row'[e] \in {NoRow} \cup Rows
             /\ row'[e].owner = row[e].owner
             /\ row'[e].ownership = row[e].ownership
             /\ row'[e].state = IF e \in S THEN new[e] ELSE row[e].state
    <2>1. CASE e \in S
        <3>1. row'[e] = [row[e] EXCEPT !.state = new[e]]
            BY <2>1
        <3>2. row[e] # NoRow /\ row[e] \in {NoRow} \cup Rows
            BY <1>1, <2>1, ManagedExists
        <3> QED BY <2>1, <3>1, <3>2, Restated
    <2>2. CASE e \notin S
        BY <1>1, <2>2
    <2> QED BY <2>1, <2>2
<1>3. row' \in [Ids -> {NoRow} \cup Rows]
    BY <1>2
<1>4. RowsStep
    BY <1>2 DEF RowsStep, LedgerInv, Owned, Managed
<1> QED BY <1>3, <1>4

(* SetOperationManagedResourcesState with "failed" puts nothing on offer. *)
LEMMA FailedRows ==
    ASSUME ConstantsOK, LedgerInv, NEW o \in Ops, SetOperationManagedResourcesState(o, "failed")
    PROVE  row' \in [Ids -> {NoRow} \cup Rows] /\ RowsStep
<1> DEFINE S == {e \in Ids : row[e].owner = o /\ row[e].ownership = "managed" /\ row[e].state \notin Offered}
           new == [e \in Ids |-> "failed"]
<1>1. row' = [e \in Ids |-> IF e \in S THEN [row[e] EXCEPT !.state = new[e]] ELSE row[e]]
    BY DEF SetOperationManagedResourcesState
<1>2. \A e \in S : Managed(e) /\ new[e] \in States /\ new[e] \notin Offered
    BY DEF Managed, States, Offered
<1>3. S \in SUBSET Ids
    OBVIOUS
<1> HIDE DEF S, new
<1> QED BY <1>1, <1>2, <1>3, RestatedRows

(* SetOperationManagedResourcesState with "cleaned", after the machines of
   the operation are gone. *)
LEMMA CleanedRows ==
    ASSUME ConstantsOK, LedgerInv, NEW o \in Ops, SetOperationManagedResourcesState(o, "cleaned"),
           Made(o) = {}, UNCHANGED machine, stage'[o] \notin Holding
    PROVE  row' \in [Ids -> {NoRow} \cup Rows] /\ RowsStep
<1> DEFINE S == {e \in Ids : row[e].owner = o /\ row[e].ownership = "managed"}
           new == [e \in Ids |-> "cleaned"]
<1>1. row' = [e \in Ids |-> IF e \in S THEN [row[e] EXCEPT !.state = new[e]] ELSE row[e]]
    BY DEF SetOperationManagedResourcesState
<1>2. \A e \in S : Managed(e) /\ new[e] \in States /\ row[e].owner = o
    BY DEF Managed, States, Offered
<1>3. S \in SUBSET Ids
    OBVIOUS
<1>4. \A e \in Ids : machine'[e] # o
    BY DEF Made, LedgerInv, Covered
<1> HIDE DEF S, new
<1> QED BY <1>1, <1>2, <1>3, <1>4, RestatedRows

(* Precheck, refusals and crashes. *)
LEMMA PrecheckKept ==
    ASSUME ConstantsOK, LedgerInv, NEW o \in Ops, Precheck(o) \/ Refuse(o) \/ Crash(o) \/ FailStep(o)
    PROVE  LedgerInv'
<1>1. stage[o] \notin Ended /\ UNCHANGED <<machine, progress, lapsed, cleaning, listed>>
    BY DEF Precheck, Refuse, Crash, FailStep, InWork, Ended
<1>2. CASE Refuse(o)
    <2>1. row' \in [Ids -> {NoRow} \cup Rows] /\ RowsStep
        BY <1>2, FailedRows DEF Refuse
    <2>2. WorkStep
        BY <1>1, <1>2, StageStep DEF Refuse, Holding, Early
    <2>3. LedgerTyped'
        BY <1>1, <1>2, <2>1 DEF Refuse, Enter, LedgerInv, LedgerTyped, Stages
    <2> QED BY <2>1, <2>2, <2>3, StepKeeps
<1>3. CASE Precheck(o) \/ Crash(o) \/ FailStep(o)
    <2>1. RowsStep
        BY <1>3, RowsRest DEF Precheck, Crash, FailStep
    <2>2. WorkStep
        <3>1. PICK next \in {"checked", "failed", "rollback"} : Enter(o, next) /\ (next = "checked" => stage[o] = "queued")
            BY <1>3 DEF Precheck, Crash, FailStep
        <3> QED BY <1>1, <3>1, StageStep DEF Holding, Early
    <2>3. LedgerTyped'
        BY <1>1, <1>3 DEF Precheck, Crash, FailStep, Enter, LedgerInv, LedgerTyped, Stages, ConstantsOK
    <2> QED BY <2>1, <2>2, <2>3, StepKeeps
<1> QED BY <1>2, <1>3
(* The sweeper fails an operation whose worker goes on. *)
LEMMA ExpireKept ==
    ASSUME ConstantsOK, LedgerInv, NEW o \in Ops, ExpireLease(o)
    PROVE  LedgerInv'
<1>1. /\ UNCHANGED <<machine, row, stage, progress, cleaning, listed>>
      /\ lapsed' = lapsed \cup {o} /\ faults' \in 0 .. MaxFaults
    BY DEF ExpireLease, LedgerInv, LedgerTyped, ConstantsOK
<1>2. WorkStep
    BY <1>1 DEF WorkStep, LedgerInv, Staged, Cleaned, Made
<1>3. LedgerTyped'
    BY <1>1 DEF LedgerInv, LedgerTyped
<1> QED BY <1>1, <1>2, <1>3, RowsRest, StepKeeps

(* A reservation takes over rows that are on offer, and no machine that
   nobody's cleanup disturbed stands behind one of these. *)
LEMMA ReserveKept ==
    ASSUME ConstantsOK, LedgerInv, NEW o \in Ops, ReserveManagedResources(o)
    PROVE  LedgerInv'
<1>1. /\ stage[o] = "checked" /\ stage' = [stage EXCEPT ![o] = "reserved"]
      /\ \A e \in Creates[o] : Available(e) \/ row[e].owner = o
      /\ row' = [e \in Ids |-> IF e \in Creates[o] /\ Available(e) THEN Reserved(o, e) ELSE row[e]]
      /\ UNCHANGED <<machine, progress, lapsed, cleaning, listed, faults>>
    BY DEF ReserveManagedResources, Enter
<1>2. Creates[o] \subseteq Ids /\ o # "none"
    BY DEF ConstantsOK
<1>3. ASSUME NEW e \in Ids
      PROVE  /\ row[e] \in {NoRow} \cup Rows
             /\ row'[e] \in {NoRow} \cup Rows
             /\ Managed(e) => Managed(e)'
             /\ \/ row'[e] = row[e]
                \/ /\ Available(e) /\ e \in Creates[o]
                   /\ Managed(e)' /\ row'[e].owner = o /\ row'[e].state = "reserved"
             /\ e \in Creates[o] => Managed(e)' /\ row'[e].owner = o /\ row'[e].state \notin Offered
    <2>1. row[e] \in {NoRow} \cup Rows /\ Owned(e)
        BY DEF LedgerInv, LedgerTyped
    <2>2. CASE e \in Creates[o] /\ Available(e)
        <3>1. row'[e] = [ownership |-> "managed", state |-> "reserved", owner |-> o]
            BY <1>1, <2>2 DEF Reserved, Available
        <3>2. row'[e] \in Rows
            BY <3>1 DEF Rows
        <3> QED BY <2>1, <2>2, <3>1, <3>2 DEF Managed, Offered
    <2>3. CASE ~ (e \in Creates[o] /\ Available(e))
        <3>1. row'[e] = row[e]
            BY <1>1, <2>3
        <3>2. e \in Creates[o] => Managed(e)' /\ row'[e].owner = o /\ row'[e].state \notin Offered
            BY <1>1, <2>1, <2>3, <3>1 DEF Owned, Managed, Available
        <3> QED BY <2>1, <3>1, <3>2 DEF Managed
    <2> QED BY <2>2, <2>3
<1>4. LedgerTyped'
    <2>1. row' \in [Ids -> {NoRow} \cup Rows]
        BY <1>1, <1>3
    <2> QED BY <1>1, <2>1 DEF LedgerInv, LedgerTyped, Stages
<1>5. \A e \in Ids, p \in Ops : Disturbed(e, p)' <=> Disturbed(e, p)
    BY <1>1 DEF Disturbed
<1>6. ASSUME NEW e \in Ids
      PROVE  Owned(e)'
    BY <1>3, <1>2 DEF LedgerInv, Owned, Managed
<1>7. ASSUME NEW e \in Ids, NEW p \in Ops, Keeps(e, p)
      PROVE  Keeps(e, p)'
    <2>1. CASE row'[e] = row[e]
        BY <1>5, <1>7, <2>1 DEF Keeps, Managed
    <2>2. CASE Available(e) /\ Managed(e)'
        <3>1. row[e].state \in Offered
            BY <1>7, <2>2, ManagedExists DEF Keeps, Available
        <3> QED BY <1>5, <1>7, <2>2, <3>1 DEF Keeps
    <2> QED BY <1>3, <2>1, <2>2
<1>8. ASSUME NEW e \in Ids, NEW p \in Ops
      PROVE  Covered(e, p)'
    BY <1>1, <1>7 DEF LedgerInv, Covered
<1>9. ASSUME NEW p \in Ops
      PROVE  Staged(p)'
    <2>1. Creates[p] \subseteq Ids /\ Staged(p)
        BY DEF ConstantsOK, LedgerInv
    <2>2. CASE p # o
        <3>1. stage'[p] = stage[p]
            BY <1>1, <2>2 DEF LedgerInv, LedgerTyped
        <3> QED BY <1>1, <1>3, <1>7, <2>1, <3>1 DEF Staged, Made
    <2>3. CASE p = o
        <3>1. stage'[p] = "reserved"
            BY <1>1, <2>3 DEF LedgerInv, LedgerTyped
        <3>2. \A e \in Creates[p] : Keeps(e, p)'
            BY <1>3, <2>1, <2>3 DEF Keeps
        <3>3. Made(p) \subseteq progress[p]
            BY <1>1, <2>1, <2>3 DEF Staged, Early
        <3>4. (Made(p) \subseteq progress[p])'
            BY <1>1, <3>3 DEF Made
        <3> QED BY <3>1, <3>2, <3>4 DEF Staged
    <2> QED BY <2>2, <2>3
<1>10. ASSUME NEW c \in Cleanups
       PROVE  Cleaned(c)'
    <2>1. Target[c] \in Ops /\ Creates[Target[c]] \subseteq Ids /\ Cleaned(c)
        BY DEF ConstantsOK, LedgerInv
    <2>2. stage'[Target[c]] \in Ended \/ stage[Target[c]] \notin Ended
        BY <1>1, <2>1 DEF LedgerInv, LedgerTyped, Ended
    <2> QED BY <1>1, <1>3, <2>1, <2>2 DEF Cleaned, Made
<1> QED BY <1>4, <1>6, <1>8, <1>9, <1>10 DEF LedgerInv

(* The reservation is released before anything was made. *)
LEMMA ReleaseKept ==
    ASSUME ConstantsOK, LedgerInv, NEW o \in Ops, ReleaseManagedResourceReservations(o)
    PROVE  LedgerInv'
<1>1. /\ stage[o] = "reserved" /\ Made(o) = {} /\ faults < MaxFaults /\ faults' = faults + 1
      /\ Enter(o, "failed") /\ UNCHANGED <<machine, progress, lapsed, cleaning, listed>>
    BY DEF ReleaseManagedResourceReservations, LedgerInv, Staged, Early
<1>2. PICK released \in SUBSET {"reserved"} :
          row' = [e \in Ids |-> IF row[e].owner # o \/ row[e].ownership # "managed" \/ row[e].state \in Offered
                                THEN row[e]
                                ELSE [row[e] EXCEPT !.state = IF @ \in released THEN "cleaned" ELSE "failed"]]
    BY DEF ReleaseManagedResourceReservations
<1>3. stage[o] \notin Ended
    BY <1>1 DEF Ended
<1>4. WorkStep
    BY <1>1, <1>3, StageStep DEF Holding, Early
<1>5. stage'[o] = "failed" /\ stage' \in [Ops -> Stages]
    BY <1>1 DEF Enter, LedgerInv, LedgerTyped, Stages
<1> DEFINE S == {e \in Ids : row[e].owner = o /\ row[e].ownership = "managed" /\ row[e].state \notin Offered}
           new == [e \in Ids |-> IF row[e].state \in released THEN "cleaned" ELSE "failed"]
<1>6. row' = [e \in Ids |-> IF e \in S THEN [row[e] EXCEPT !.state = new[e]] ELSE row[e]]
    BY <1>2
<1>7. \A e \in S : Managed(e) /\ new[e] \in States /\ row[e].owner = o
    BY DEF Managed, States, Offered
<1>8. S \in SUBSET Ids
    OBVIOUS
<1>9. \A e \in Ids : machine'[e] # o
    BY <1>1 DEF Made, LedgerInv, Covered
<1> HIDE DEF S, new
<1>10. row' \in [Ids -> {NoRow} \cup Rows] /\ RowsStep
    BY <1>5, <1>6, <1>7, <1>8, <1>9, RestatedRows, ZenonT(30) DEF Holding
<1>11. LedgerTyped'
    BY <1>1, <1>5, <1>10 DEF LedgerInv, LedgerTyped, ConstantsOK
<1> QED BY <1>4, <1>10, <1>11, StepKeeps

(* The plugin creates a machine under a reserved identity, or gives up. *)
LEMMA CreateKept ==
    ASSUME ConstantsOK, LedgerInv, NEW o \in Ops, CreateMachine(o)
    PROVE  LedgerInv'
<1>1. stage[o] = "reserved" /\ stage[o] \notin Ended /\ UNCHANGED <<row, lapsed, cleaning, listed, faults>>
    BY DEF CreateMachine, Ended
<1>2. RowsStep
    BY <1>1, RowsRest
<1>3. PICK e \in Creates[o] :
          IF machine[e] = NoMachine
          THEN /\ machine' = [machine EXCEPT ![e] = o]
               /\ progress' = [progress EXCEPT ![o] = @ \cup {e}]
               /\ Enter(o, IF progress[o] \cup {e} = Creates[o] THEN "created" ELSE "reserved")
          ELSE Enter(o, "rollback") /\ UNCHANGED <<machine, progress>>
    BY DEF CreateMachine
<1>4. e \in Ids
    BY DEF ConstantsOK
<1>5. CASE machine[e] # NoMachine
    <2>1. WorkStep
        BY <1>1, <1>3, <1>5, StageStep DEF Holding, Early
    <2>2. LedgerTyped'
        BY <1>1, <1>3, <1>5 DEF Enter, LedgerInv, LedgerTyped, Stages
    <2> QED BY <1>2, <2>1, <2>2, StepKeeps
<1>6. CASE machine[e] = NoMachine
    <2>1. PICK next \in {"created", "reserved"} : Enter(o, next)
        BY <1>3, <1>6
    <2>2. \A p \in Ops : stage'[p] = IF p = o THEN next ELSE stage[p]
        BY <2>1 DEF Enter, LedgerInv, LedgerTyped
    <2>3. \A f \in Ids : machine'[f] = IF f = e THEN o ELSE machine[f]
        BY <1>3, <1>6 DEF LedgerInv, LedgerTyped
    <2>4. WorkStep
        <3>1. \A p \in Ops : Creates[p] \subseteq Ids
            BY DEF ConstantsOK
        <3>2. \A c \in Cleanups : Target[c] \in Ops
            BY DEF ConstantsOK
        <3>3. \A p \in Ops : progress'[p] = IF p = o THEN progress[p] \cup {e} ELSE progress[p]
            BY <1>3, <1>6 DEF LedgerInv, LedgerTyped
        <3>4. \A p \in Ops : (stage'[p] \in Early => stage[p] \in Early) /\ (stage'[p] \in Holding => stage[p] \in Holding)
            BY <1>1, <2>2 DEF Early, Holding
        <3>5. \A p \in Ops : stage'[p] = "undone" => \A f \in Creates[p] : machine'[f] # p
            BY <2>2, <2>3, <3>1 DEF LedgerInv, Staged, Made
        <3>6. \A c \in Cleanups :
                 /\ cleaning[c] # "none" => /\ stage'[Target[c]] \in Ended \/ Target[c] \in lapsed
                                            /\ \A f \in Creates[Target[c]] : Managed(f)
                 /\ cleaning[c] \in {"removed", "verified", "done"} =>
                       Target[c] \in lapsed \/ \A f \in Creates[Target[c]] : machine'[f] # Target[c]
            BY <1>1, <2>2, <2>3, <3>1, <3>2 DEF LedgerInv, Cleaned, Made
        <3> QED BY <1>1, <1>3, <1>4, <2>3, <3>3, <3>4, <3>5, <3>6 DEF WorkStep
    <2>5. LedgerTyped'
        BY <1>1, <1>3, <1>4, <1>6, <2>1 DEF Enter, LedgerInv, LedgerTyped, Stages
    <2> QED BY <1>2, <2>4, <2>5, StepKeeps
<1> QED BY <1>5, <1>6
(* Machines go: nobody gets one, and the types stay. *)
LEMMA MachinesGo ==
    ASSUME ConstantsOK, LedgerInv, NEW gone,
           machine' = [e \in Ids |-> IF e \in gone THEN NoMachine ELSE machine[e]]
    PROVE  /\ machine' \in [Ids -> Ops \cup {NoMachine, Foreign}]
           /\ \A e \in Ids, p \in Ops : machine'[e] = p => machine[e] = p /\ e \notin gone
BY DEF LedgerInv, LedgerTyped, ConstantsOK

(* The effects are recorded as complete, as far as the rows are the
   operation's. *)
LEMMA CompleteKept ==
    ASSUME ConstantsOK, LedgerInv, NEW o \in Ops, completeEffects(o)
    PROVE  LedgerInv'
<1>1. stage[o] = "created" /\ stage[o] \notin Ended /\ UNCHANGED <<machine, progress, lapsed, cleaning, listed, faults>>
    BY DEF completeEffects, Ended
<1>2. PICK done \in SUBSET {e \in Creates[o] : row[e].owner = o /\ row[e].ownership = "managed"} :
          row' = [e \in Ids |-> IF e \in done THEN [row[e] EXCEPT !.state = "running"] ELSE row[e]]
    BY DEF completeEffects
<1>3. PICK next \in {"removing", "succeeded", "rollback"} : Enter(o, next)
    BY DEF completeEffects
<1>4. WorkStep
    BY <1>1, <1>3, StageStep DEF Holding, Early
<1> DEFINE new == [e \in Ids |-> "running"]
<1>5. done \in SUBSET Ids
    BY DEF ConstantsOK
<1>6. row' = [e \in Ids |-> IF e \in done THEN [row[e] EXCEPT !.state = new[e]] ELSE row[e]]
    BY <1>2
<1>7. \A e \in done : Managed(e) /\ new[e] \in States /\ new[e] \notin Offered
    BY <1>5 DEF Managed, States, Offered
<1> HIDE DEF new
<1>8. row' \in [Ids -> {NoRow} \cup Rows] /\ RowsStep
    BY <1>5, <1>6, <1>7, RestatedRows
<1>9. LedgerTyped'
    BY <1>1, <1>3, <1>8 DEF Enter, LedgerInv, LedgerTyped, Stages
<1> QED BY <1>4, <1>8, <1>9, StepKeeps

(* A temporary machine is removed and then recorded as deleted: by then
   nobody else's machine can be behind the row. *)
LEMMA RemoveTemporaryKept ==
    ASSUME ConstantsOK, LedgerInv, NEW o \in Ops, RemoveTemporary(o)
    PROVE  LedgerInv'
<1>1. /\ stage[o] = "removing" /\ stage[o] \notin Ended /\ UNCHANGED <<progress, lapsed, cleaning, listed, faults>>
      /\ Creates[o] \subseteq Ids
    BY DEF RemoveTemporary, Ended, ConstantsOK
<1>2. CASE /\ machine' = [e \in Ids |-> IF e \in Made(o) THEN NoMachine ELSE machine[e]]
           /\ UNCHANGED <<row, stage>>
    <2>1. /\ machine' \in [Ids -> Ops \cup {NoMachine, Foreign}]
          /\ \A e \in Ids, p \in Ops : machine'[e] = p => machine[e] = p
        BY <1>2, MachinesGo
    <2>2. WorkStep
        BY <1>1, <1>2, <2>1, TakeStep
    <2>3. RowsStep
        BY <1>2, RowsRest
    <2>4. LedgerTyped'
        BY <1>1, <1>2, <2>1 DEF LedgerInv, LedgerTyped
    <2> QED BY <2>2, <2>3, <2>4, StepKeeps
<1>3. CASE /\ Made(o) = {} /\ Enter(o, "succeeded") /\ UNCHANGED machine
           /\ row' = [e \in Ids |-> IF e \in Creates[o] THEN [row[e] EXCEPT !.state = "deleted"] ELSE row[e]]
    <2>1. WorkStep
        BY <1>1, <1>3, StageStep DEF Holding, Early
    <2>2. \A p \in Ops : stage'[p] = IF p = o THEN "succeeded" ELSE stage[p]
        BY <1>3 DEF Enter, LedgerInv, LedgerTyped
    <2> DEFINE new == [e \in Ids |-> "deleted"]
    <2>3. row' = [e \in Ids |-> IF e \in Creates[o] THEN [row[e] EXCEPT !.state = new[e]] ELSE row[e]]
        BY <1>1, <1>3
    <2>4. \A e \in Creates[o] : Keeps(e, o) /\ Managed(e) /\ new[e] \in States
        BY <1>1 DEF LedgerInv, Staged, Holding, Keeps, States, Offered
    <2>5. ASSUME NEW e \in Creates[o], NEW p \in Ops, row[e].owner = p, row[e].state \notin Offered
          PROVE  Disturbed(e, p)' \/ (machine'[e] # p /\ stage'[p] \notin Holding)
        <3>1. CASE p = o
            BY <1>1, <1>3, <2>2, <3>1 DEF Made, Holding
        <3>2. CASE p # o
            <4>1. PICK c \in Cleanups : e \in Creates[Target[c]] /\ cleaning[c] = "done"
                BY <2>4, <2>5, <3>2 DEF Keeps, Disturbed
            <4>2. CASE Target[c] # p \/ p \in lapsed
                BY <1>1, <4>1, <4>2 DEF Disturbed
            <4>3. CASE Target[c] = p /\ p \notin lapsed
                <5>1. Made(p) = {} /\ stage[p] \in Ended
                    BY <4>1, <4>3 DEF LedgerInv, Cleaned
                <5> QED BY <1>3, <2>2, <3>2, <4>1, <4>3, <5>1 DEF Made, Holding, Ended
            <4> QED BY <4>2, <4>3
        <3> QED BY <3>1, <3>2
    <2> HIDE DEF new
    <2>6. row' \in [Ids -> {NoRow} \cup Rows] /\ RowsStep
        BY <1>1, <2>3, <2>4, <2>5, RestatedRows
    <2>7. LedgerTyped'
        BY <1>1, <1>3, <2>6 DEF Enter, LedgerInv, LedgerTyped, Stages
    <2> QED BY <2>1, <2>6, <2>7, StepKeeps
<1> QED BY <1>2, <1>3 DEF RemoveTemporary

(* The rollback, whole or half way, and the rows that are given back. *)
LEMMA RollbackKept ==
    ASSUME ConstantsOK, LedgerInv, NEW o \in Ops, Rollback(o) \/ FailRollback(o) \/ GiveBack(o)
    PROVE  LedgerInv'
<1>1. /\ stage[o] \in {"rollback", "undone"} /\ stage[o] \notin Ended
      /\ UNCHANGED <<progress, lapsed, cleaning, listed>>
    BY DEF Rollback, FailRollback, GiveBack, Ended
<1>2. \A p \in Ops : Creates[p] \subseteq Ids
    BY DEF ConstantsOK
<1>3. CASE /\ machine' = [e \in Ids |-> IF e \in Made(o) THEN NoMachine ELSE machine[e]]
           /\ Enter(o, "undone") /\ UNCHANGED <<row, faults>>
    <2>1. /\ machine' \in [Ids -> Ops \cup {NoMachine, Foreign}]
          /\ \A e \in Ids, p \in Ops : machine'[e] = p => machine[e] = p /\ e \notin Made(o)
        BY <1>3, MachinesGo
    <2>2. \A p \in Ops : stage'[p] = IF p = o THEN "undone" ELSE stage[p]
        BY <1>3 DEF Enter, LedgerInv, LedgerTyped
    <2>3. WorkStep
        BY <1>1, <1>2, <1>3, <2>1, TakeStep DEF Made
    <2>4. RowsStep
        BY <1>3, RowsRest
    <2>5. LedgerTyped'
        BY <1>1, <1>3, <2>1 DEF Enter, LedgerInv, LedgerTyped, Stages
    <2> QED BY <2>3, <2>4, <2>5, StepKeeps
<1>4. CASE SetOperationManagedResourcesState(o, "failed") /\ Enter(o, "failed") /\ UNCHANGED <<machine, faults>>
    <2>1. row' \in [Ids -> {NoRow} \cup Rows] /\ RowsStep
        BY <1>4, FailedRows
    <2>2. WorkStep
        BY <1>1, <1>4, StageStep DEF Holding, Early
    <2>3. LedgerTyped'
        BY <1>1, <1>4, <2>1 DEF Enter, LedgerInv, LedgerTyped, Stages
    <2> QED BY <2>1, <2>2, <2>3, StepKeeps
<1>5. CASE FailRollback(o)
    <2>1. row' \in [Ids -> {NoRow} \cup Rows] /\ RowsStep
        BY <1>5, FailedRows DEF FailRollback
    <2>2. PICK gone \in SUBSET Made(o) : machine' = [e \in Ids |-> IF e \in gone THEN NoMachine ELSE machine[e]]
        BY <1>5 DEF FailRollback
    <2>3. /\ machine' \in [Ids -> Ops \cup {NoMachine, Foreign}]
          /\ \A e \in Ids, p \in Ops : machine'[e] = p => machine[e] = p
        BY <2>2, MachinesGo
    <2>4. Enter(o, "failed") /\ faults' \in 0 .. MaxFaults
        BY <1>5 DEF FailRollback, LedgerInv, LedgerTyped, ConstantsOK
    <2>5. \A p \in Ops : stage'[p] = IF p = o THEN "failed" ELSE stage[p]
        BY <2>4 DEF Enter, LedgerInv, LedgerTyped
    <2>6. WorkStep
        BY <1>1, <2>3, <2>4, TakeStep
    <2>7. LedgerTyped'
        BY <1>1, <2>1, <2>3, <2>4 DEF Enter, LedgerInv, LedgerTyped, Stages
    <2> QED BY <2>1, <2>6, <2>7, StepKeeps
<1>6. CASE GiveBack(o)
    <2>1. Made(o) = {} /\ Enter(o, "failed") /\ UNCHANGED <<machine, faults>>
        BY <1>6 DEF GiveBack, LedgerInv, Staged
    <2>2. stage'[o] \notin Holding
        BY <2>1 DEF Enter, LedgerInv, LedgerTyped, Holding
    <2>3. row' \in [Ids -> {NoRow} \cup Rows] /\ RowsStep
        BY <1>6, <2>1, <2>2, CleanedRows DEF GiveBack
    <2>4. WorkStep
        BY <1>1, <2>1, StageStep DEF Holding, Early
    <2>5. LedgerTyped'
        BY <1>1, <2>1, <2>3 DEF Enter, LedgerInv, LedgerTyped, Stages
    <2> QED BY <2>3, <2>4, <2>5, StepKeeps
<1> QED BY <1>3, <1>4, <1>5, <1>6 DEF Rollback
(* A cleanup operation works on the machines and leaves the rows alone
   until it is verified. *)
LEMMA CleanupKept ==
    ASSUME ConstantsOK, LedgerInv, NEW c \in Cleanups,
           AuthorizeCleanup(c) \/ CleanupMachines(c) \/ VerifyCleanup(c) \/ CrashCleanup(c)
    PROVE  LedgerInv'
<1> DEFINE o == Target[c]
<1>1. UNCHANGED <<row, stage, progress, lapsed, listed>> /\ cleaning[c] # "done"
    BY DEF AuthorizeCleanup, CleanupMachines, VerifyCleanup, CrashCleanup
<1>2. o \in Ops /\ \A p \in Ops : Creates[p] \subseteq Ids
    BY DEF ConstantsOK
<1>3. RowsStep
    BY <1>1, RowsRest
<1>4. PICK next \in {"none", "authorized", "removed", "verified"} : cleaning' = [cleaning EXCEPT ![c] = next]
    BY DEF AuthorizeCleanup, CleanupMachines, VerifyCleanup, CrashCleanup, Continue
<1>5. \A d \in Cleanups : cleaning'[d] = IF d = c THEN next ELSE cleaning[d]
    BY <1>4 DEF LedgerInv, LedgerTyped
<1>6. next # "none" => (stage[o] \in Ended \/ o \in lapsed) /\ \A e \in Creates[o] : Managed(e)
    BY <1>4, <1>5 DEF AuthorizeCleanup, CleanupMachines, VerifyCleanup, CrashCleanup, Continue,
                      AuthorizeManagedCleanup, Managed, LedgerInv, Cleaned, Ended
<1>7. /\ machine' \in [Ids -> Ops \cup {NoMachine, Foreign}]
      /\ \A e \in Ids, p \in Ops : machine'[e] = p => machine[e] = p
      /\ next \in {"removed", "verified"} => o \in lapsed \/ \A e \in Creates[o] : machine'[e] # o
    <2>1. CASE machine' = [e \in Ids |-> IF e \in Made(o) THEN NoMachine ELSE machine[e]]
        BY <1>2, <2>1, MachinesGo DEF Made
    <2>2. CASE UNCHANGED machine /\ ~ CleanupMachines(c)
        BY <1>5, <2>2 DEF AuthorizeCleanup, VerifyCleanup, CrashCleanup, Continue, LedgerInv, Cleaned, Made, LedgerTyped
    <2>3. CASE UNCHANGED machine /\ CleanupMachines(c) /\ next = "none"
        BY <2>3 DEF LedgerInv, LedgerTyped
    <2>4. CleanupMachines(c) =>
             machine' = [e \in Ids |-> IF e \in Made(o) THEN NoMachine ELSE machine[e]] \/ (UNCHANGED machine /\ next = "none")
        BY <1>5 DEF CleanupMachines, Continue, LedgerInv, LedgerTyped
    <2> QED BY <2>1, <2>2, <2>3, <2>4 DEF AuthorizeCleanup, VerifyCleanup, CrashCleanup
<1>8. WorkStep
    <2>1. \A d \in Cleanups : Target[d] \in Ops /\ Creates[Target[d]] \subseteq Ids
        BY DEF ConstantsOK
    <2>2. \A p \in Ops : stage[p] = "undone" => \A e \in Creates[p] : machine'[e] # p
        BY <1>2, <1>7 DEF LedgerInv, Staged, Made
    <2>3. \A d \in Cleanups :
             /\ cleaning'[d] # "none" => /\ stage[Target[d]] \in Ended \/ Target[d] \in lapsed
                                         /\ \A e \in Creates[Target[d]] : Managed(e)
             /\ cleaning'[d] \in {"removed", "verified", "done"} =>
                   Target[d] \in lapsed \/ \A e \in Creates[Target[d]] : machine'[e] # Target[d]
        BY <1>5, <1>6, <1>7, <2>1 DEF LedgerInv, Cleaned, Made
    <2> QED BY <1>1, <1>5, <1>7, <2>2, <2>3 DEF WorkStep
<1>9. faults' \in 0 .. MaxFaults
    BY DEF AuthorizeCleanup, CleanupMachines, VerifyCleanup, CrashCleanup, LedgerInv, LedgerTyped, ConstantsOK
<1>10. LedgerTyped'
    BY <1>1, <1>4, <1>7, <1>9 DEF LedgerInv, LedgerTyped
<1> QED BY <1>3, <1>8, <1>10, StepKeeps

(* RecordCleanup names the identities and not the operation: from then on
   the machines others have under them count as disturbed, and those of a
   worker that has outlived its lease. *)
LEMMA RecordCleanupKept ==
    ASSUME ConstantsOK, LedgerInv, NEW c \in Cleanups, RecordCleanup(c)
    PROVE  LedgerInv'
<1> DEFINE o == Target[c]
<1>1. /\ cleaning[c] = "verified" /\ cleaning' = [cleaning EXCEPT ![c] = "done"]
      /\ row' = [e \in Ids |-> IF e \in Creates[o] THEN [row[e] EXCEPT !.state = "deleted"] ELSE row[e]]
      /\ UNCHANGED <<machine, stage, progress, lapsed, listed, faults>>
    BY DEF RecordCleanup, Continue
<1>2. /\ o \in lapsed \/ (stage[o] \in Ended /\ Made(o) = {})
      /\ \A e \in Creates[o] : Managed(e)
    BY <1>1 DEF LedgerInv, Cleaned
<1>3. o \in Ops /\ \A p \in Ops : Creates[p] \subseteq Ids
    BY DEF ConstantsOK
<1>4. \A d \in Cleanups : cleaning'[d] = IF d = c THEN "done" ELSE cleaning[d]
    BY <1>1 DEF LedgerInv, LedgerTyped
<1>5. WorkStep
    <2>1. \A d \in Cleanups :
             /\ cleaning'[d] # "none" => /\ stage[Target[d]] \in Ended \/ Target[d] \in lapsed
                                         /\ \A e \in Creates[Target[d]] : Managed(e)
             /\ cleaning'[d] \in {"removed", "verified", "done"} =>
                   Target[d] \in lapsed \/ \A e \in Creates[Target[d]] : machine[e] # Target[d]
        BY <1>1, <1>4 DEF LedgerInv, Cleaned, Made
    <2> QED BY <1>1, <1>4, <2>1 DEF WorkStep, LedgerInv, Staged, Made
<1> DEFINE new == [e \in Ids |-> "deleted"]
<1>6. row' = [e \in Ids |-> IF e \in Creates[o] THEN [row[e] EXCEPT !.state = new[e]] ELSE row[e]]
    BY <1>1, <1>3
<1>7. \A e \in Creates[o] : Managed(e) /\ new[e] \in States
    BY <1>2, <1>3 DEF States, Offered
<1>8. ASSUME NEW e \in Creates[o], NEW p \in Ops
      PROVE  Disturbed(e, p)' \/ (machine'[e] # p /\ stage'[p] \notin Holding)
    BY <1>1, <1>2, <1>4 DEF Disturbed, Made, Holding, Ended
<1> HIDE DEF new
<1>9. row' \in [Ids -> {NoRow} \cup Rows] /\ RowsStep
    <2>1. Creates[o] \in SUBSET Ids
        BY <1>3
    <2> HIDE DEF o
    <2> QED BY <1>6, <1>7, <1>8, <2>1, RestatedRows
<1>10. LedgerTyped'
    BY <1>1, <1>9 DEF LedgerInv, LedgerTyped
<1> QED BY <1>5, <1>9, <1>10, StepKeeps

(* A discovery imports machines without a row and calls the others running. *)
LEMMA SyncKept ==
    ASSUME ConstantsOK, LedgerInv, SyncDiscoveredResources
    PROVE  LedgerInv'
<1>1. /\ listed # NoList /\ listed' = NoList /\ UNCHANGED <<machine, stage, progress, lapsed, cleaning, faults>>
      /\ row' = [e \in Ids |-> IF e \notin listed THEN row[e]
                               ELSE IF row[e] = NoRow
                               THEN [ownership |-> "imported", state |-> "running", owner |-> "none"]
                               ELSE [row[e] EXCEPT !.state = "running"]]
    BY DEF SyncDiscoveredResources
<1>2. ASSUME NEW e \in Ids
      PROVE  /\ row'[e] \in {NoRow} \cup Rows
             /\ Owned(e)'
             /\ Managed(e) => row'[e].owner = row[e].owner /\ Managed(e)'
             /\ row'[e].state \in Offered => row[e].state \in Offered
    <2>1. row[e] \in {NoRow} \cup Rows /\ Owned(e)
        BY DEF LedgerInv, LedgerTyped
    <2>2. CASE e \notin listed
        BY <1>1, <2>1, <2>2 DEF Owned, Managed
    <2>3. CASE e \in listed /\ row[e] = NoRow
        <3>1. row'[e] = [ownership |-> "imported", state |-> "running", owner |-> "none"]
            BY <1>1, <2>3
        <3>2. row'[e] \in Rows
            BY <3>1 DEF Rows
        <3>3. "none" \notin Ops
            BY DEF ConstantsOK
        <3> QED BY <2>3, <3>1, <3>2, <3>3 DEF Owned, Managed, NoRow, Offered
    <2>4. CASE e \in listed /\ row[e] # NoRow
        <3>1. row'[e] = [row[e] EXCEPT !.state = "running"]
            BY <1>1, <2>4
        <3>2. "running" \in States /\ "running" \notin Offered
            BY DEF States, Offered
        <3>3. row'[e] \in Rows /\ row'[e].owner = row[e].owner /\ row'[e].ownership = row[e].ownership
              /\ row'[e].state = "running"
            BY <2>1, <2>4, <3>1, <3>2, Restated
        <3> QED BY <2>1, <3>2, <3>3 DEF Owned, Managed
    <2> QED BY <2>2, <2>3, <2>4
<1>3. RowsStep
    BY <1>2 DEF RowsStep
<1>4. WorkStep
    BY <1>1 DEF WorkStep, LedgerInv, Staged, Cleaned, Made
<1>5. LedgerTyped'
    <2>1. row' \in [Ids -> {NoRow} \cup Rows]
        BY <1>1, <1>2
    <2> QED BY <1>1, <2>1 DEF LedgerInv, LedgerTyped
<1> QED BY <1>3, <1>4, <1>5, StepKeeps

(* Listing, strangers at the provider and steps that change nothing. *)
LEMMA OutsideKept ==
    ASSUME ConstantsOK, LedgerInv, Discover \/ (\E e \in Shared : ForeignMachine(e)) \/ UNCHANGED vars
    PROVE  LedgerInv'
<1>1. UNCHANGED <<row, stage, progress, lapsed, cleaning, faults>>
    BY DEF Discover, ForeignMachine, vars
<1>2. /\ machine' \in [Ids -> Ops \cup {NoMachine, Foreign}]
      /\ \A e \in Ids, p \in Ops : machine'[e] = p => machine[e] = p
    <2>1. CASE UNCHANGED machine
        BY <2>1 DEF LedgerInv, LedgerTyped
    <2>2. ASSUME NEW e \in Shared, ForeignMachine(e)
          PROVE  /\ machine' \in [Ids -> Ops \cup {NoMachine, Foreign}]
                 /\ \A f \in Ids, p \in Ops : machine'[f] = p => machine[f] = p
        BY <2>2 DEF ForeignMachine, LedgerInv, LedgerTyped, ConstantsOK
    <2> QED BY <2>1, <2>2 DEF Discover, vars
<1>3. listed' = NoList \/ listed' \subseteq Ids
    BY DEF Discover, ForeignMachine, vars, LedgerInv, LedgerTyped
<1>4. (\A p \in Ops : Creates[p] \subseteq Ids) /\ \A c \in Cleanups : Target[c] \in Ops
    BY DEF ConstantsOK
<1>5. WorkStep
    BY <1>1, <1>2, <1>4 DEF WorkStep, LedgerInv, Staged, Cleaned, Made
<1>6. LedgerTyped'
    BY <1>1, <1>2, <1>3 DEF LedgerInv, LedgerTyped
<1> QED BY <1>1, <1>5, <1>6, RowsRest, StepKeeps

(* The inductive invariant holds at first and is kept by every step. *)
LEMMA LedgerInvInit ==
    ASSUME ConstantsOK, Init
    PROVE  LedgerInv
BY DEF ConstantsOK, Init, LedgerInv, LedgerTyped, Owned, Covered, Staged, Cleaned, Early, Holding, Made, Managed, NoRow, Stages

(* Every step preserves the inductive invariant: one lemma per action. *)
LEMMA LedgerInvNext ==
    ASSUME ConstantsOK, LedgerInv, [Next]_vars
    PROVE  LedgerInv'
BY PrecheckKept, ExpireKept, ReserveKept, ReleaseKept, CreateKept, CompleteKept, RemoveTemporaryKept, RollbackKept,
   CleanupKept, RecordCleanupKept, SyncKept, OutsideKept DEF Next

(* What the invariant says about a machine nobody's cleanup works on. *)
LEMMA LedgerInvCovers ==
    ASSUME ConstantsOK, LedgerInv
    PROVE  TypeOK /\ LedgerCoversMachines
<1>1. TypeOK
    BY DEF LedgerInv, LedgerTyped, TypeOK, Rows
<1>2. LedgerCoversMachines
    BY DEF LedgerInv, Covered, Owned, Keeps, Managed, Disturbed, LedgerCoversMachines
<1> QED BY <1>1, <1>2

(* A machine's row stays with the operation that made it until its machine
   is gone, unless a cleanup recorded it as deleted: that of another
   operation, or of the same one whose worker had outlived its lease. *)
THEOREM LedgerKept ==
    ASSUME ConstantsOK
    PROVE  Spec => []LedgerInv
<1>1. Init => LedgerInv
    BY LedgerInvInit
<1>2. LedgerInv /\ [Next]_vars => LedgerInv'
    BY LedgerInvNext
<1> QED BY <1>1, <1>2, PTL DEF Spec

(* The ledger, the machines and the stages of operations keep their types. *)
THEOREM LedgerTypes ==
    ASSUME ConstantsOK
    PROVE  Spec => []TypeOK
<1>1. LedgerInv => TypeOK
    BY LedgerInvCovers
<1> QED BY <1>1, LedgerKept, PTL

(* LedgerCoversMachines for every number of operations, identities, shared
   identities and faults. *)
THEOREM LedgerCoversAlways ==
    ASSUME ConstantsOK
    PROVE  Spec => []LedgerCoversMachines
<1>1. LedgerInv => LedgerCoversMachines
    BY LedgerInvCovers
<1> QED BY <1>1, LedgerKept, PTL

-----------------------------------------------------------------------------
(***************************************************************************)
(* For any number of editors, nodes, keys and values: an edit that is      *)
(* stored is in force on every node.  An edit can only tell its own        *)
(* entries from those of an operator by the annotation of the node or, for *)
(* a node without one, by the row; so the invariant says that every entry  *)
(* with a value of the settings is the one this record gives, in every     *)
(* state, also after an edit that failed half way.                         *)
(***************************************************************************)
Entries == [Keys -> Values \cup {NS!None, NS!Hand}]
Requests == [step : {"asked"}, want : NS!Settings, current : BOOLEAN]
Edits == [step : {"read", "patch", "register", "commit"}, by : Editors, stored : NS!Settings, want : NS!Settings,
          entries : [NS!Nodes -> Entries], note : [NS!Nodes -> NS!Settings \cup {NS!NoNote}], node : NS!Nodes]

NodesTyped ==
    /\ saved \in NS!Settings
    /\ entries \in [NS!Nodes -> Entries]
    /\ note \in [NS!Nodes -> NS!Settings \cup {NS!NoNote}]
    /\ args \in [NS!Nodes -> NS!Settings]
    /\ request \in [Editors -> {NS!Idle} \cup Requests]
    /\ edit \in {NS!Free} \cup Edits
    /\ touched \subseteq NS!Nodes

(* What KubePhos has put on a node, as the annotation or the row tell. *)
Applied(n) == IF note[n] = NS!NoNote THEN saved ELSE note[n]

Traced == \A n \in NS!Nodes, k \in Keys : entries[n][k] \in Values => entries[n][k] = Applied(n)[k]

(* The nodes the edit has patched, and those whose agent it is done with. *)
IsPatched(n) == n < edit.node \/ (n = edit.node /\ edit.step \in {"register", "commit"})
IsRegistered(n) == n < edit.node \/ (n = edit.node /\ edit.step = "commit")

(* An edit has read the nodes it has not patched yet as they are, unless
   they were touched since. *)
SnapshotHolds(n) ==
    /\ edit.note[n] = note[n]
    /\ \A k \in Keys : edit.entries[n][k] \in Values => edit.entries[n][k] = NS!Before(n)[k]
    /\ n \notin touched => edit.entries[n] = entries[n]

EntriesInForce(n) ==
    /\ note[n] = edit.want \/ (note[n] = NS!NoNote /\ edit.stored = edit.want)
    /\ n \notin touched => \A k \in Keys :
          IF edit.want[k] # NS!None THEN entries[n][k] = edit.want[k] ELSE entries[n][k] \notin Values

ArgsInForce(n) == \A k \in Keys : edit.want[k] # edit.stored[k] => args[n][k] = edit.want[k]

Progress ==
    /\ edit.stored = saved
    /\ edit.step = "read" => edit.node = 1
    /\ edit.step # "read" => \A n \in NS!Nodes :
          /\ IF IsPatched(n) THEN EntriesInForce(n) ELSE SnapshotHolds(n)
          /\ IsRegistered(n) => ArgsInForce(n)
    /\ edit.step = "commit" => edit.node = Count
    /\ edit.step = "register" => NS!NeedsRegistration(edit.node)

NodesInv == NodesTyped /\ Traced /\ (edit # NS!Free => Progress)

(* What nodeSettingsPatch makes of a node all of whose settings are traced:
   every wanted entry is there and no other value of the settings is. *)
LEMMA PatchForces ==
    ASSUME NS!ConstantsOK, NEW current \in Entries, NEW before \in NS!Settings, NEW after \in NS!Settings,
           \A k \in Keys : current[k] \in Values => current[k] = before[k]
    PROVE  /\ NS!nodeSettingsPatch(current, before, after) \in Entries
           /\ \A k \in Keys : IF after[k] # NS!None THEN NS!nodeSettingsPatch(current, before, after)[k] = after[k]
                              ELSE NS!nodeSettingsPatch(current, before, after)[k] \notin Values
<1> DEFINE p == NS!nodeSettingsPatch(current, before, after)
<1>1. \A k \in Keys : p[k] = IF after[k] # NS!None THEN after[k]
                             ELSE IF before[k] # NS!None /\ current[k] = before[k] THEN NS!None
                             ELSE current[k]
    BY DEF NS!nodeSettingsPatch
<1>2. p = [k \in Keys |-> p[k]]
    BY DEF NS!nodeSettingsPatch
<1> HIDE DEF p
<1>3. ASSUME NEW k \in Keys
      PROVE  /\ p[k] \in Values \cup {NS!None, NS!Hand}
             /\ IF after[k] # NS!None THEN p[k] = after[k] ELSE p[k] \notin Values
    BY <1>1, <1>3 DEF NS!ConstantsOK, Entries, NS!Settings
<1>4. p \in Entries
    BY <1>2, <1>3 DEF Entries
<1> QED BY <1>3, <1>4 DEF p

(* A node without the annotation is told from one whose annotation is empty. *)
LEMMA NoteIsTold ==
    ASSUME NS!ConstantsOK
    PROVE  NS!NoNote \notin NS!Settings
<1>1. ASSUME NS!NoNote \in NS!Settings
      PROVE  FALSE
    <2>1. DOMAIN NS!NoNote = Keys
        BY <1>1 DEF NS!Settings
    <2>2. DOMAIN NS!NoNote = {}
        BY DEF NS!NoNote
    <2> QED BY <2>1, <2>2 DEF NS!ConstantsOK
<1> QED BY <1>1

(* An edit under way and the settings it compares have their types. *)
LEMMA EditTyped ==
    ASSUME NodesTyped, edit # NS!Free
    PROVE  /\ edit \in Edits /\ edit.node \in NS!Nodes
           /\ edit.want \in NS!Settings /\ edit.stored \in NS!Settings
           /\ \A n \in NS!Nodes : NS!Before(n) \in NS!Settings
BY DEF NodesTyped, Edits, NS!Before

(* One patched node: its settings stay traced and are in force, whether the
   annotation had to be written or already held the wanted settings. *)
LEMMA ApplyPatchForces ==
    ASSUME NS!ConstantsOK, NodesInv, edit # NS!Free, edit.step = "patch", NS!ApplyPatch(edit.node),
           UNCHANGED saved
    PROVE  /\ entries' \in [NS!Nodes -> Entries]
           /\ note' \in [NS!Nodes -> NS!Settings \cup {NS!NoNote}]
           /\ \A n \in NS!Nodes \ {edit.node} : entries'[n] = entries[n] /\ note'[n] = note[n]
           /\ Traced'
           /\ note'[edit.node] = edit.want \/ (note'[edit.node] = NS!NoNote /\ edit.stored = edit.want)
           /\ \A k \in Keys : IF edit.want[k] # NS!None THEN entries'[edit.node][k] = edit.want[k]
                              ELSE entries'[edit.node][k] \notin Values
<1> DEFINE n == edit.node
<1>1. edit \in Edits /\ n \in NS!Nodes /\ edit.want \in NS!Settings /\ edit.stored \in NS!Settings /\ NS!Before(n) \in NS!Settings
    BY EditTyped DEF NodesInv
<1>2. edit.entries[n] \in Entries
    BY <1>1 DEF Edits
<1>3. SnapshotHolds(n) /\ edit.stored = saved
    BY <1>1 DEF NodesInv, Progress, IsPatched, NS!Nodes, NS!ConstantsOK
<1>4. /\ NS!Patched(n) \in Entries
      /\ \A k \in Keys : IF edit.want[k] # NS!None THEN NS!Patched(n)[k] = edit.want[k] ELSE NS!Patched(n)[k] \notin Values
    BY <1>1, <1>2, <1>3, PatchForces DEF SnapshotHolds, NS!Patched
<1>5. /\ entries' = [entries EXCEPT ![n] = NS!Patched(n)]
      /\ note' = IF NS!NeedsRegistration(n) THEN [note EXCEPT ![n] = edit.want] ELSE note
    BY DEF NS!ApplyPatch
<1>6. note'[n] = edit.want \/ (note'[n] = NS!NoNote /\ edit.stored = edit.want)
    BY <1>1, <1>3, <1>5 DEF NS!NeedsRegistration, NS!Before, SnapshotHolds, NodesInv, NodesTyped
<1> HIDE DEF n
<1>7. /\ entries' \in [NS!Nodes -> Entries]
      /\ note' \in [NS!Nodes -> NS!Settings \cup {NS!NoNote}]
      /\ \A m \in NS!Nodes \ {n} : entries'[m] = entries[m] /\ note'[m] = note[m]
      /\ entries'[n] = NS!Patched(n)
    BY <1>1, <1>4, <1>5 DEF NodesInv, NodesTyped
<1>8. ASSUME NEW m \in NS!Nodes, NEW k \in Keys, entries'[m][k] \in Values
      PROVE  entries'[m][k] = Applied(m)'[k]
    <2>1. CASE m = n
        <3>1. Applied(m)' = edit.want
            BY <1>1, <1>6, <1>3, <2>1, NoteIsTold DEF Applied
        <3>2. entries'[m][k] = edit.want[k]
            BY <1>4, <1>7, <1>8, <2>1
        <3> QED BY <3>1, <3>2
    <2>2. CASE m # n
        BY <1>7, <1>8, <2>2 DEF NodesInv, Traced, Applied
    <2> QED BY <2>1, <2>2
<1>9. Traced'
    BY <1>8 DEF Traced
<1> QED BY <1>4, <1>6, <1>7, <1>9 DEF n

(* The arguments of the agent after it was registered: what the edit changes
   is as it wants it. *)
LEMMA RegistrationForces ==
    ASSUME NS!ConstantsOK, NodesInv, edit # NS!Free, NS!nodeRegistrationCommand(edit.node)
    PROVE  /\ args' \in [NS!Nodes -> NS!Settings]
           /\ \A n \in NS!Nodes \ {edit.node} : args'[n] = args[n]
           /\ \A k \in Keys : edit.want[k] # edit.stored[k] => args'[edit.node][k] = edit.want[k]
<1> DEFINE n == edit.node
           owned == {k \in Keys : \E s \in {edit.stored, NS!Before(n), edit.want} : s[k] # NS!None}
           new == [k \in Keys |-> IF k \in owned THEN edit.want[k] ELSE args[n][k]]
<1>1. n \in NS!Nodes /\ edit.want \in NS!Settings /\ edit.stored \in NS!Settings
    BY EditTyped DEF NodesInv
<1>2. args' = [args EXCEPT ![n] = new]
    BY DEF NS!nodeRegistrationCommand
<1>3. \A k \in Keys : edit.want[k] # edit.stored[k] => k \in owned
    OBVIOUS
<1> HIDE DEF owned, n
<1>4. new \in NS!Settings
    BY <1>1 DEF NS!Settings, NodesInv, NodesTyped
<1>5. \A k \in Keys : edit.want[k] # edit.stored[k] => new[k] = edit.want[k]
    BY <1>3
<1> HIDE DEF new
<1> QED BY <1>1, <1>2, <1>4, <1>5 DEF NodesInv, NodesTyped, n

(* Where Following leads: the edit stays with its node to register the agent
   or is done with the node, and everything it has read stays as it was. *)
LEMMA FollowingLeads ==
    ASSUME NS!ConstantsOK, NodesTyped, edit # NS!Free, NEW registered \in BOOLEAN, edit' = NS!Following(edit.node, registered)
    PROVE  /\ edit' \in Edits /\ edit' # NS!Free
           /\ edit'.stored = edit.stored /\ edit'.want = edit.want
           /\ edit'.entries = edit.entries /\ edit'.note = edit.note
           /\ \/ /\ NS!NeedsRegistration(edit.node) /\ ~ registered
                 /\ edit'.step = "register" /\ edit'.node = edit.node
              \/ /\ ~ NS!NeedsRegistration(edit.node) \/ registered
                 /\ \/ edit'.step = "commit" /\ edit'.node = edit.node /\ edit.node = Count
                    \/ edit'.step = "patch" /\ edit'.node = edit.node + 1
<1>1. edit \in Edits /\ edit.node \in 1 .. Count /\ Count \in Nat
    BY EditTyped DEF NS!Nodes, NS!ConstantsOK
<1>2. CASE NS!NeedsRegistration(edit.node) /\ ~ registered
    <2>1. edit' = [edit EXCEPT !.step = "register"]
        BY <1>2 DEF NS!Following
    <2>2. edit' \in Edits
        BY <1>1, <2>1 DEF Edits
    <2> QED BY <1>1, <1>2, <2>1, <2>2 DEF Edits, NS!Free
<1>3. CASE ~ (NS!NeedsRegistration(edit.node) /\ ~ registered) /\ edit.node = Count
    <2>1. edit' = [edit EXCEPT !.step = "commit"]
        BY <1>3 DEF NS!Following
    <2>2. edit' \in Edits
        BY <1>1, <2>1 DEF Edits
    <2> QED BY <1>1, <1>3, <2>1, <2>2 DEF Edits, NS!Free
<1>4. CASE ~ (NS!NeedsRegistration(edit.node) /\ ~ registered) /\ edit.node # Count
    <2>1. edit' = [edit EXCEPT !.step = "patch", !.node = edit.node + 1]
        BY <1>4 DEF NS!Following
    <2>2. edit.node + 1 \in NS!Nodes
        BY <1>1, <1>4 DEF NS!Nodes
    <2>3. edit' \in Edits
        BY <1>1, <2>1, <2>2 DEF Edits
    <2> QED BY <1>1, <1>4, <2>1, <2>3 DEF Edits, NS!Free
<1> QED BY <1>2, <1>3, <1>4

(* A node is patched: what the edit read of the nodes that follow stands,
   and this one has joined those on which the edit is in force. *)
LEMMA ReconcileKept ==
    ASSUME NS!ConstantsOK, NodesInv, edit # NS!Free, NS!reconcileNodeSettings
    PROVE  NodesInv'
<1> PICK n \in NS!Nodes : n = edit.node
    BY EditTyped DEF NodesInv
<1>1. edit \in Edits /\ edit.step = "patch" /\ UNCHANGED <<saved, args, request, touched>>
    BY EditTyped DEF NodesInv, NS!reconcileNodeSettings
<1>2. edit' = NS!Following(n, FALSE)
    BY DEF NS!reconcileNodeSettings
<1>3. /\ edit' \in Edits /\ edit' # NS!Free
      /\ edit'.stored = edit.stored /\ edit'.want = edit.want
      /\ edit'.entries = edit.entries /\ edit'.note = edit.note
      /\ \/ /\ NS!NeedsRegistration(n)
            /\ edit'.step = "register" /\ edit'.node = n
         \/ /\ ~ NS!NeedsRegistration(n)
            /\ \/ edit'.step = "commit" /\ edit'.node = n /\ n = Count
               \/ edit'.step = "patch" /\ edit'.node = n + 1
    BY <1>2, FollowingLeads DEF NodesInv
<1>4. SnapshotHolds(n) /\ edit.stored = saved
    BY <1>1 DEF NodesInv, Progress, IsPatched, NS!Nodes, NS!ConstantsOK
<1>5. /\ entries' \in [NS!Nodes -> Entries]
      /\ note' \in [NS!Nodes -> NS!Settings \cup {NS!NoNote}]
      /\ \A m \in NS!Nodes \ {n} : entries'[m] = entries[m] /\ note'[m] = note[m]
      /\ Traced'
      /\ note'[n] = edit.want \/ (note'[n] = NS!NoNote /\ edit.stored = edit.want)
      /\ n \notin touched => \A k \in Keys :
            IF edit.want[k] # NS!None THEN entries'[n][k] = edit.want[k] ELSE entries'[n][k] \notin Values
    <2>1. CASE NS!ApplyPatch(n)
        BY <1>1, <2>1, ApplyPatchForces
    <2>2. CASE NS!NoPatch(n) /\ UNCHANGED <<entries, note>>
        <3>1. edit.entries[n] \in Entries /\ NS!Before(n) \in NS!Settings /\ edit.want \in NS!Settings
            BY <1>1, EditTyped DEF NodesInv, Edits
        <3>2. \A k \in Keys : IF edit.want[k] # NS!None THEN NS!Patched(n)[k] = edit.want[k] ELSE NS!Patched(n)[k] \notin Values
            BY <1>4, <3>1, PatchForces DEF SnapshotHolds, NS!Patched
        <3>3. n \notin touched => entries'[n] = NS!Patched(n)
            BY <1>4, <2>2 DEF SnapshotHolds, NS!NoPatch
        <3>4. note'[n] = edit.want \/ (note'[n] = NS!NoNote /\ edit.stored = edit.want)
            BY <1>4, <2>2 DEF NS!NoPatch, NS!NeedsRegistration, NS!Before, SnapshotHolds
        <3>5. Traced'
            BY <1>1, <2>2 DEF NodesInv, Traced, Applied
        <3> QED BY <2>2, <3>2, <3>3, <3>4, <3>5 DEF NodesInv, NodesTyped
    <2> QED BY <2>1, <2>2 DEF NS!reconcileNodeSettings
<1>6. NodesTyped'
    BY <1>1, <1>3, <1>5 DEF NodesInv, NodesTyped
<1>7. ASSUME NEW m \in NS!Nodes
      PROVE  /\ IF IsPatched(m)' THEN EntriesInForce(m)' ELSE SnapshotHolds(m)'
             /\ IsRegistered(m)' => ArgsInForce(m)'
    <2>1. m \in Int /\ n \in Int
        BY DEF NS!Nodes, NS!ConstantsOK
    <2>2. /\ IF m < n THEN EntriesInForce(m) ELSE SnapshotHolds(m)
          /\ m < n => ArgsInForce(m)
        BY <1>1, <2>1 DEF NodesInv, Progress, IsPatched, IsRegistered
    <2>3. CASE m < n
        <3>1. EntriesInForce(m)' /\ ArgsInForce(m)'
            BY <1>1, <1>3, <1>5, <2>1, <2>2, <2>3 DEF EntriesInForce, ArgsInForce
        <3>2. IsPatched(m)'
            BY <1>3, <2>1, <2>3 DEF IsPatched
        <3> QED BY <3>1, <3>2
    <2>4. CASE m > n
        <3>1. SnapshotHolds(m)'
            BY <1>1, <1>3, <1>5, <2>1, <2>2, <2>4 DEF SnapshotHolds, NS!Before
        <3>2. ~ IsPatched(m)' /\ ~ IsRegistered(m)'
            BY <1>3, <2>1, <2>4 DEF IsPatched, IsRegistered
        <3> QED BY <3>1, <3>2
    <2>5. CASE m = n
        <3>1. EntriesInForce(m)'
            BY <1>1, <1>3, <1>5, <2>5 DEF EntriesInForce
        <3>2. IsPatched(m)'
            BY <1>3, <2>1, <2>5 DEF IsPatched
        <3>3. IsRegistered(m)' => ArgsInForce(m)'
            BY <1>3, <2>1, <2>5 DEF IsRegistered, ArgsInForce, NS!NeedsRegistration
        <3> QED BY <3>1, <3>2, <3>3
    <2> QED BY <2>1, <2>3, <2>4, <2>5
<1>8. edit'.step = "register" => NS!NeedsRegistration(edit.node)'
    BY <1>3, <1>1 DEF NS!NeedsRegistration, NS!Before
<1> QED BY <1>1, <1>3, <1>4, <1>5, <1>6, <1>7, <1>8 DEF NodesInv, Progress
(* The agent of a node is registered: the edit is in force there. *)
LEMMA RegisterKept ==
    ASSUME NS!ConstantsOK, NodesInv, edit # NS!Free, NS!Register
    PROVE  NodesInv'
<1> PICK n \in NS!Nodes : n = edit.node
    BY EditTyped DEF NodesInv
<1>1. edit \in Edits /\ edit.step = "register" /\ UNCHANGED <<saved, entries, note, request, touched>>
    BY EditTyped DEF NodesInv, NS!Register
<1>2. edit' = NS!Following(n, TRUE) /\ NS!nodeRegistrationCommand(n)
    BY DEF NS!Register
<1>3. /\ edit' \in Edits /\ edit' # NS!Free
      /\ edit'.stored = edit.stored /\ edit'.want = edit.want
      /\ edit'.entries = edit.entries /\ edit'.note = edit.note
      /\ \/ edit'.step = "commit" /\ edit'.node = n /\ n = Count
         \/ edit'.step = "patch" /\ edit'.node = n + 1
    BY <1>2, FollowingLeads DEF NodesInv
<1>4. /\ args' \in [NS!Nodes -> NS!Settings]
      /\ \A m \in NS!Nodes \ {n} : args'[m] = args[m]
      /\ \A k \in Keys : edit.want[k] # edit.stored[k] => args'[n][k] = edit.want[k]
    BY <1>2, RegistrationForces
<1>5. NodesTyped' /\ Traced'
    BY <1>1, <1>3, <1>4 DEF NodesInv, NodesTyped, Traced, Applied
<1>6. ASSUME NEW m \in NS!Nodes
      PROVE  /\ IF IsPatched(m)' THEN EntriesInForce(m)' ELSE SnapshotHolds(m)'
             /\ IsRegistered(m)' => ArgsInForce(m)'
    <2>1. m \in Int /\ n \in Int
        BY DEF NS!Nodes, NS!ConstantsOK
    <2>2. /\ IF m <= n THEN EntriesInForce(m) ELSE SnapshotHolds(m)
          /\ m < n => ArgsInForce(m)
        BY <1>1, <2>1 DEF NodesInv, Progress, IsPatched, IsRegistered
    <2>3. IsPatched(m)' <=> m <= n
        BY <1>3, <2>1 DEF IsPatched
    <2>4. IsRegistered(m)' <=> m <= n
        BY <1>3, <2>1 DEF IsRegistered
    <2>5. m <= n => EntriesInForce(m)'
        BY <1>1, <1>3, <2>2 DEF EntriesInForce
    <2>6. ~ m <= n => SnapshotHolds(m)'
        BY <1>1, <1>3, <2>2 DEF SnapshotHolds, NS!Before
    <2>7. m <= n => ArgsInForce(m)'
        BY <1>3, <1>4, <2>1, <2>2 DEF ArgsInForce
    <2> QED BY <2>3, <2>4, <2>5, <2>6, <2>7
<1> QED BY <1>1, <1>3, <1>5, <1>6 DEF NodesInv, Progress

(* The edit is stored: a node without the annotation shows that the row
   already had these settings. *)
LEMMA CommitKept ==
    ASSUME NS!ConstantsOK, NodesInv, edit # NS!Free, NS!Commit
    PROVE  NodesInv'
<1>1. /\ edit \in Edits /\ edit.step = "commit" /\ edit' = NS!Free /\ touched' = {}
      /\ edit.want \in NS!Settings
      /\ saved' = edit.want /\ UNCHANGED <<entries, note, args>>
    BY EditTyped DEF NodesInv, NS!Commit, NS!Release
<1>2. request' \in [Editors -> {NS!Idle} \cup Requests]
    <2>1. request' = [e \in Editors |-> IF e = edit.by \/ request[e] = NS!Idle THEN NS!Idle
                                        ELSE [request[e] EXCEPT !.current = FALSE]]
        BY DEF NS!Commit
    <2>2. ASSUME NEW e \in Editors, request[e] # NS!Idle
          PROVE  [request[e] EXCEPT !.current = FALSE] \in Requests
        <3>1. request[e] \in Requests
            BY <2>2 DEF NodesInv, NodesTyped
        <3> QED BY <3>1 DEF Requests
    <2> QED BY <2>1, <2>2
<1>3. NodesTyped'
    BY <1>1, <1>2 DEF NodesInv, NodesTyped
<1>4. ASSUME NEW n \in NS!Nodes
      PROVE  Applied(n)' = Applied(n)
    <2>1. EntriesInForce(n) /\ edit.stored = saved
        BY <1>1 DEF NodesInv, Progress, IsPatched, NS!Nodes, NS!ConstantsOK
    <2> QED BY <1>1, <2>1, NoteIsTold DEF Applied, EntriesInForce
<1>5. Traced'
    BY <1>1, <1>4 DEF NodesInv, Traced
<1> QED BY <1>1, <1>3, <1>5 DEF NodesInv

(* The edit fails, perhaps after the patch or the registration it was at:
   what it left on the node can still be traced. *)
LEMMA FailKept ==
    ASSUME NS!ConstantsOK, NodesInv, NS!Fail
    PROVE  NodesInv'
<1>1. edit # NS!Free /\ edit' = NS!Free /\ touched' = {} /\ saved' = saved
    BY DEF NS!Fail, NS!Release
<1>2. request' \in [Editors -> {NS!Idle} \cup Requests]
    BY DEF NS!Fail, NodesInv, NodesTyped
<1>3. CASE UNCHANGED <<entries, note, args>>
    BY <1>1, <1>2, <1>3 DEF NodesInv, NodesTyped, Traced, Applied
<1>4. CASE edit.step = "patch" /\ NS!ApplyPatch(edit.node) /\ UNCHANGED args
    BY <1>1, <1>2, <1>4, ApplyPatchForces DEF NodesInv, NodesTyped
<1>5. CASE edit.step = "register" /\ NS!nodeRegistrationCommand(edit.node) /\ UNCHANGED <<entries, note>>
    <2>1. args' \in [NS!Nodes -> NS!Settings]
        BY <1>1, <1>5, RegistrationForces
    <2> QED BY <1>1, <1>2, <1>5, <2>1 DEF NodesInv, NodesTyped, Traced, Applied
<1> QED BY <1>3, <1>4, <1>5 DEF NS!Fail

(* An edit takes hold of the row and reads the nodes. *)
LEMMA StartKept ==
    ASSUME NS!ConstantsOK, NodesInv,
           (\E e \in Editors : NS!changedPoolSettings(e) \/ NS!UpdateClusterSettings(e)) \/ (edit # NS!Free /\ NS!ReadNodes)
    PROVE  NodesInv'
<1>1. ASSUME NEW e \in Editors, NS!changedPoolSettings(e)
      PROVE  NodesInv'
    <2>1. UNCHANGED <<saved, entries, note, args, edit, touched>>
        BY <1>1 DEF NS!changedPoolSettings
    <2>2. request' \in [Editors -> {NS!Idle} \cup Requests]
        BY <1>1 DEF NS!changedPoolSettings, NodesInv, NodesTyped, Requests
    <2>3. Progress => Progress'
        BY <2>1 DEF Progress, IsPatched, IsRegistered, EntriesInForce, SnapshotHolds, ArgsInForce, NS!Before,
                    NS!NeedsRegistration
    <2> QED BY <2>1, <2>2, <2>3 DEF NodesInv, NodesTyped, Traced, Applied
<1>2. ASSUME NEW e \in Editors, NS!UpdateClusterSettings(e), request[e].current
      PROVE  NodesInv'
    <2>1. /\ edit' = [step |-> "read", by |-> e, stored |-> saved, want |-> request[e].want,
                      entries |-> entries, note |-> note, node |-> 1]
          /\ UNCHANGED <<saved, entries, note, args, request, touched>>
        BY <1>2 DEF NS!UpdateClusterSettings
    <2>2. request[e].want \in NS!Settings /\ 1 \in NS!Nodes
        BY <1>2 DEF NS!UpdateClusterSettings, NodesInv, NodesTyped, Requests, NS!ConstantsOK, NS!Nodes
    <2>3. edit' \in Edits
        BY <2>1, <2>2 DEF NodesInv, NodesTyped, Edits
    <2>4. Progress'
        BY <2>1 DEF Progress
    <2> QED BY <2>1, <2>3, <2>4 DEF NodesInv, NodesTyped, Traced, Applied
<1>3. ASSUME NEW e \in Editors, NS!UpdateClusterSettings(e), ~ request[e].current
      PROVE  NodesInv'
    <2>1. /\ request' = [request EXCEPT ![e] = NS!Idle] /\ edit = NS!Free
          /\ UNCHANGED <<edit, saved, entries, note, args, touched>>
        BY <1>3 DEF NS!UpdateClusterSettings
    <2> QED BY <2>1 DEF NodesInv, NodesTyped, Traced, Applied
<1>4. CASE edit # NS!Free /\ NS!ReadNodes
    <2>1. /\ edit \in Edits /\ edit.step = "read"
          /\ edit' = [edit EXCEPT !.step = "patch", !.entries = entries, !.note = note]
          /\ touched' = {} /\ UNCHANGED <<saved, entries, note, args, request>>
        BY <1>4, EditTyped DEF NodesInv, NS!ReadNodes
    <2>2. edit' \in Edits
        BY <2>1 DEF NodesInv, NodesTyped, Edits
    <2>3. ASSUME NEW n \in NS!Nodes
          PROVE  SnapshotHolds(n)'
        BY <2>1, <1>4 DEF SnapshotHolds, NS!Before, NodesInv, Traced, Applied, Progress, Edits
    <2>4. Progress'
        <3>1. edit'.node = 1 /\ edit'.step = "patch"
            BY <1>4, <2>1 DEF NodesInv, Progress, Edits
        <3>2. ASSUME NEW n \in NS!Nodes
              PROVE  ~ IsPatched(n)' /\ ~ IsRegistered(n)'
            BY <3>1 DEF IsPatched, IsRegistered, NS!Nodes, NS!ConstantsOK
        <3>3. edit'.stored = saved'
            BY <1>4, <2>1 DEF NodesInv, Progress, Edits
        <3> QED BY <2>3, <3>1, <3>2, <3>3 DEF Progress
    <2> QED BY <2>1, <2>2, <2>4 DEF NodesInv, NodesTyped, Traced, Applied
<1> QED BY <1>1, <1>2, <1>3, <1>4
(* The operator of the cluster never writes a value of the settings. *)
LEMMA ByHandKept ==
    ASSUME NS!ConstantsOK, NodesInv, NEW n \in NS!Nodes, NS!ByHand(n)
    PROVE  NodesInv'
<1>1. PICK k \in Keys, v \in {NS!Hand, NS!None} : entries' = [entries EXCEPT ![n][k] = v]
    BY DEF NS!ByHand
<1>2. /\ touched' = IF edit = NS!Free THEN touched ELSE touched \cup {n}
      /\ UNCHANGED <<saved, note, args, request, edit>>
    BY DEF NS!ByHand
<1>3. entries[n] \in Entries /\ entries \in [NS!Nodes -> Entries]
    BY DEF NodesInv, NodesTyped
<1>4. /\ entries' = [entries EXCEPT ![n] = [entries[n] EXCEPT ![k] = v]]
      /\ [entries[n] EXCEPT ![k] = v] \in Entries
    BY <1>1, <1>3 DEF Entries
<1>5. /\ entries' \in [NS!Nodes -> Entries]
      /\ \A m \in NS!Nodes \ {n} : entries'[m] = entries[m]
      /\ \A j \in Keys : entries'[n][j] \in Values => entries'[n][j] = entries[n][j]
    <2>1. entries'[n] = [entries[n] EXCEPT ![k] = v]
        BY <1>3, <1>4
    <2>2. v \notin Values
        BY DEF NS!ConstantsOK
    <2> QED BY <1>3, <1>4, <2>1, <2>2 DEF Entries
<1>6. NodesTyped' /\ Traced'
    <2>1. Traced'
        BY <1>2, <1>5 DEF NodesInv, Traced, Applied
    <2> QED BY <1>2, <1>5, <2>1 DEF NodesInv, NodesTyped
<1>7. ASSUME edit # NS!Free
      PROVE  Progress'
    <2>1. touched' = touched \cup {n} /\ Progress
        BY <1>2, <1>7 DEF NodesInv
    <2>2. ASSUME NEW m \in NS!Nodes
          PROVE  /\ EntriesInForce(m) => EntriesInForce(m)'
                 /\ SnapshotHolds(m) => SnapshotHolds(m)'
                 /\ ArgsInForce(m) => ArgsInForce(m)'
                 /\ IsPatched(m)' <=> IsPatched(m)
                 /\ IsRegistered(m)' <=> IsRegistered(m)
                 /\ NS!NeedsRegistration(m)' <=> NS!NeedsRegistration(m)
        BY <1>2, <1>5, <2>1 DEF EntriesInForce, SnapshotHolds, ArgsInForce, IsPatched, IsRegistered,
                               NS!Before, NS!NeedsRegistration
    <2>3. edit.node \in NS!Nodes
        BY <1>7, EditTyped DEF NodesInv
    <2> QED BY <1>2, <2>1, <2>2, <2>3 DEF Progress
<1> QED BY <1>2, <1>6, <1>7 DEF NodesInv

(* Init and every step keep the inductive invariant. *)
LEMMA NodesInvInit ==
    ASSUME NS!ConstantsOK, NS!Init
    PROVE  NodesInv
BY DEF NS!Init, NS!ConstantsOK, NodesInv, NodesTyped, Traced, Applied, Entries, NS!Settings

(* Every step preserves the inductive invariant: one lemma per action. *)
LEMMA NodesInvNext ==
    ASSUME NS!ConstantsOK, NodesInv, [NS!Next]_(NS!vars)
    PROVE  NodesInv'
<1>1. CASE UNCHANGED NS!vars
    BY <1>1 DEF NS!vars, NodesInv, NodesTyped, Traced, Applied, Progress, IsPatched, IsRegistered, EntriesInForce,
                SnapshotHolds, ArgsInForce, NS!Before, NS!NeedsRegistration
<1> QED
    BY <1>1, StartKept, ReconcileKept, RegisterKept, CommitKept, FailKept, ByHandKept DEF NS!Next

(* An edit that is about to be stored has been through all nodes. *)
LEMMA NodesInvForces ==
    ASSUME NS!ConstantsOK, NodesInv
    PROVE  NS!TypeOK /\ NS!StoredIsInForce
<1>1. NS!TypeOK
    BY DEF NodesInv, NodesTyped, NS!TypeOK, Entries, Requests, Edits
<1>2. ASSUME edit.step = "commit", NEW n \in NS!Nodes
      PROVE  EntriesInForce(n) /\ ArgsInForce(n)
    <2>1. edit # NS!Free
        BY <1>2 DEF NS!Free
    <2> QED BY <1>2, <2>1 DEF NodesInv, Progress, IsPatched, IsRegistered, NS!Nodes, NS!ConstantsOK
<1>3. NS!StoredIsInForce
    BY <1>2 DEF NS!StoredIsInForce, EntriesInForce, ArgsInForce
<1> QED BY <1>1, <1>3

(* Whatever edits failed half way and whatever operators do by hand, every
   value of the settings on a node can be traced to the annotation or the
   row, and an edit under way is in force on the nodes it is done with. *)
THEOREM SettingsTraced ==
    ASSUME NS!ConstantsOK
    PROVE  NS!Spec => []NodesInv
<1>1. NS!Init => NodesInv
    BY NodesInvInit
<1>2. NodesInv /\ [NS!Next]_(NS!vars) => NodesInv'
    BY NodesInvNext
<1> QED BY <1>1, <1>2, PTL DEF NS!Spec

(* The row, the nodes, the annotations and the edits keep their types. *)
THEOREM NodeSettingsTypes ==
    ASSUME NS!ConstantsOK
    PROVE  NS!Spec => []NS!TypeOK
<1>1. NodesInv => NS!TypeOK
    BY NodesInvForces
<1> QED BY <1>1, SettingsTraced, PTL

(* StoredIsInForce for every number of editors, nodes, keys and values. *)
THEOREM StoredIsInForceAlways ==
    ASSUME NS!ConstantsOK
    PROVE  NS!Spec => []NS!StoredIsInForce
<1>1. NodesInv => NS!StoredIsInForce
    BY NodesInvForces
<1> QED BY <1>1, SettingsTraced, PTL

-----------------------------------------------------------------------------
(***************************************************************************)
(* For any number of editors and workloads: after an edit that ended well  *)
(* and undisturbed, the control object and the workloads have the settings *)
(* of the row.  The session lock is what the argument rests on: whoever is *)
(* at work has it or has lost it, so that an edit that started while no    *)
(* stray one was about is alone with the workloads until it ends.          *)
(***************************************************************************)
AnyVersion == PL!Versions \cup {NoVersion}
Working == {"stored", "written", "read", "got"}

Asking == [step : {"asked"}, seen : PL!Versions, status : PL!Statuses]
Writing == [step : {"stored", "written"}, version : AnyVersion]
Reading == [step : {"read"}, version : AnyVersion, left : SUBSET Workloads]
Patching == [step : {"got"}, version : AnyVersion, left : SUBSET Workloads, workload : Workloads]
Waiting == [step : {"waiting", "rollback", "clearing"}]
Shapes == {PL!Off} \cup Asking \cup Writing \cup Reading \cup Patching \cup Waiting

PlacementTyped ==
    /\ version \in PL!Versions
    /\ control \in AnyVersion
    /\ applied \in [Workloads -> AnyVersion]
    /\ lock \in Editors \cup {"free"}
    /\ actor \in [PL!Actors -> Shapes]
    /\ fresh \subseteq PL!Actors
    /\ manifest \in AnyVersion
    /\ status \in PL!Statuses
    /\ stray \subseteq Editors
    /\ quiet \in {"no", "edit", "yes"}
    /\ faults \in 0 .. MaxFaults

(* An editor at work has the session lock or has lost it. *)
LockHeld(e) == actor[e].step \in Working => lock = e \/ e \in stray

(* How far the newest edit is, when nobody disturbs it. *)
Newest(e) ==
    /\ actor[e].step \in Working
    /\ actor[e].version = version
    /\ actor[e].step # "stored" => control = version
    /\ actor[e].step \in {"read", "got"} =>
          \A w \in Workloads \ actor[e].left : applied[w] \in {version, NoVersion}

Undisturbed ==
    /\ quiet # "no" => stray = {} /\ actor[PL!Follower] = PL!Off
    /\ quiet = "edit" => lock # "free" /\ Newest(lock)
    /\ quiet = "yes" => /\ lock = "free"
                        /\ control = version
                        /\ \A w \in Workloads : applied[w] \in {version, NoVersion}

PlacementInv == PlacementTyped /\ (\A e \in Editors : LockHeld(e)) /\ Undisturbed

(* The step of an actor tells what it carries along. *)
LEMMA ActorShape ==
    ASSUME PlacementTyped, NEW a \in PL!Actors
    PROVE  /\ actor[a].step = "asked" => actor[a] \in Asking
           /\ actor[a].step \in {"stored", "written"} => actor[a] \in Writing
           /\ actor[a].step = "read" => actor[a] \in Reading
           /\ actor[a].step = "got" => actor[a] \in Patching
<1>1. actor[a] \in Shapes
    BY DEF PlacementTyped
<1> QED BY <1>1 DEF Shapes, PL!Off, Asking, Writing, Reading, Patching, Waiting

(* One actor changes what it does. *)
LEMMA BecomeTyped ==
    ASSUME PlacementTyped, NEW a \in PL!Actors, NEW s \in Shapes, PL!Become(a, s)
    PROVE  /\ actor' \in [PL!Actors -> Shapes]
           /\ actor'[a] = s
           /\ \A b \in PL!Actors \ {a} : actor'[b] = actor[b]
BY DEF PlacementTyped, PL!Become

(* While an edit is undisturbed nobody else is at work. *)
LEMMA Alone ==
    ASSUME PL!ConstantsOK, PlacementInv, quiet # "no", NEW e \in Editors, actor[e].step \in Working
    PROVE  quiet = "edit" /\ lock = e /\ Newest(e)
BY DEF PL!ConstantsOK, PlacementInv, PlacementTyped, LockHeld, Undisturbed

(* A workload is read: it needs no patch, or the actor has got hold of it. *)
LEMMA GetKept ==
    ASSUME PL!ConstantsOK, PlacementInv, NEW a \in PL!Actors, PL!GetWorkload(a)
    PROVE  PlacementInv'
<1>1. actor[a].step = "read" /\ actor[a] \in Reading
    BY ActorShape DEF PlacementInv, PL!GetWorkload
<1>2. UNCHANGED <<version, control, applied, lock, manifest, status, stray, quiet, faults>> /\ fresh' \subseteq PL!Actors
    BY DEF PL!GetWorkload, PlacementInv, PlacementTyped
<1>3. PICK w \in actor[a].left :
          \/ /\ applied[w] \in {NoVersion, actor[a].version}
             /\ PL!Become(a, [actor[a] EXCEPT !.left = @ \ {w}])
          \/ PL!Become(a, [step |-> "got", version |-> actor[a].version, left |-> actor[a].left, workload |-> w])
    BY DEF PL!GetWorkload
<1>4. w \in Workloads
    BY <1>1 DEF Reading
<1>5. /\ actor' \in [PL!Actors -> Shapes]
      /\ \A b \in PL!Actors \ {a} : actor'[b] = actor[b]
      /\ actor'[a].version = actor[a].version
      /\ \/ /\ actor'[a].step = "read" /\ actor'[a].left = actor[a].left \ {w}
            /\ applied[w] \in {NoVersion, actor[a].version}
         \/ actor'[a].step = "got" /\ actor'[a].left = actor[a].left
    <2>1. CASE /\ applied[w] \in {NoVersion, actor[a].version}
               /\ PL!Become(a, [actor[a] EXCEPT !.left = @ \ {w}])
        <3> DEFINE s == [actor[a] EXCEPT !.left = @ \ {w}]
        <3>1. s \in Reading /\ s.step = "read" /\ s.left = actor[a].left \ {w} /\ s.version = actor[a].version
            BY <1>1 DEF Reading
        <3> HIDE DEF s
        <3>2. s \in Shapes /\ PL!Become(a, s)
            BY <2>1, <3>1 DEF Shapes, s
        <3> QED BY <2>1, <3>1, <3>2, BecomeTyped DEF PlacementInv
    <2>2. CASE PL!Become(a, [step |-> "got", version |-> actor[a].version, left |-> actor[a].left, workload |-> w])
        <3> DEFINE s == [step |-> "got", version |-> actor[a].version, left |-> actor[a].left, workload |-> w]
        <3>1. s \in Patching /\ s.step = "got" /\ s.left = actor[a].left /\ s.version = actor[a].version
            BY <1>1, <1>4 DEF Reading, Patching
        <3> HIDE DEF s
        <3>2. s \in Shapes /\ PL!Become(a, s)
            BY <2>2, <3>1 DEF Shapes, s
        <3> QED BY <3>1, <3>2, BecomeTyped DEF PlacementInv
    <2> QED BY <1>3, <2>1, <2>2
<1>6. PlacementTyped'
    BY <1>2, <1>5 DEF PlacementInv, PlacementTyped
<1>7. ASSUME NEW e \in Editors
      PROVE  LockHeld(e)'
    <2>1. e \in PL!Actors
        BY DEF PL!Actors
    <2> QED BY <1>1, <1>2, <1>5, <2>1 DEF PlacementInv, LockHeld, Working
<1>8. Undisturbed'
    <2>1. CASE quiet = "no"
        BY <1>2, <2>1 DEF Undisturbed
    <2>2. CASE quiet # "no" /\ a = PL!Follower
        BY <1>1, <2>2 DEF PlacementInv, Undisturbed, PL!Off
    <2>3. CASE quiet # "no" /\ a # PL!Follower
        <3>1. a \in Editors /\ PL!Follower \in PL!Actors
            BY <2>3 DEF PL!Actors
        <3>2. quiet = "edit" /\ lock = a /\ Newest(a)
            BY <1>1, <2>3, <3>1, Alone DEF Working
        <3>3. Newest(a)'
            BY <1>1, <1>2, <1>5, <3>2 DEF Newest, Working
        <3> QED BY <1>2, <1>5, <2>3, <3>1, <3>2, <3>3 DEF PlacementInv, Undisturbed
    <2> QED BY <2>1, <2>2, <2>3
<1> QED BY <1>6, <1>7, <1>8 DEF PlacementInv

(* A workload is patched with the settings the actor goes by. *)
LEMMA PatchKept ==
    ASSUME PL!ConstantsOK, PlacementInv, NEW a \in PL!Actors, PL!PatchWorkload(a)
    PROVE  PlacementInv'
<1> DEFINE w == actor[a].workload
           s == [step |-> "read", version |-> actor[a].version, left |-> actor[a].left \ {w}]
<1>1. actor[a].step = "got" /\ actor[a] \in Patching
    BY ActorShape DEF PlacementInv, PL!PatchWorkload
<1>2. /\ UNCHANGED <<version, control, lock, manifest, status, stray, quiet, faults>>
      /\ applied' = [applied EXCEPT ![w] = actor[a].version]
      /\ fresh' \subseteq fresh
      /\ PL!Become(a, s)
    BY DEF PL!PatchWorkload, PL!Write
<1>3. s \in Reading /\ s.step = "read" /\ s.left = actor[a].left \ {w} /\ s.version = actor[a].version
    BY <1>1 DEF Patching, Reading
<1>4. w \in Workloads /\ actor[a].version \in AnyVersion
    BY <1>1 DEF Patching
<1> HIDE DEF s, w
<1>5. /\ actor' \in [PL!Actors -> Shapes]
      /\ actor'[a] = s
      /\ \A b \in PL!Actors \ {a} : actor'[b] = actor[b]
    BY <1>2, <1>3, BecomeTyped DEF Shapes, PlacementInv
<1>6. PlacementTyped'
    BY <1>2, <1>4, <1>5 DEF PlacementInv, PlacementTyped
<1>7. ASSUME NEW e \in Editors
      PROVE  LockHeld(e)'
    <2>1. e \in PL!Actors
        BY DEF PL!Actors
    <2> QED BY <1>1, <1>2, <1>3, <1>5, <2>1 DEF PlacementInv, LockHeld, Working
<1>8. Undisturbed'
    <2>1. CASE quiet = "no"
        BY <1>2, <2>1 DEF Undisturbed
    <2>2. CASE quiet # "no" /\ a = PL!Follower
        BY <1>1, <2>2 DEF PlacementInv, Undisturbed, PL!Off
    <2>3. CASE quiet # "no" /\ a # PL!Follower
        <3>1. a \in Editors /\ PL!Follower \in PL!Actors
            BY <2>3 DEF PL!Actors
        <3>2. quiet = "edit" /\ lock = a /\ Newest(a)
            BY <1>1, <2>3, <3>1, Alone DEF Working
        <3>3. \A v \in Workloads : applied'[v] = IF v = w THEN actor[a].version ELSE applied[v]
            BY <1>2 DEF PlacementInv, PlacementTyped
        <3>4. Newest(a)'
            BY <1>1, <1>2, <1>3, <1>5, <3>2, <3>3 DEF Newest, Working
        <3> QED BY <1>2, <1>5, <2>3, <3>1, <3>2, <3>4 DEF PlacementInv, Undisturbed
    <2> QED BY <2>1, <2>2, <2>3
<1> QED BY <1>6, <1>7, <1>8 DEF PlacementInv
(* An editor asks for an edit; nothing else changes. *)
LEMMA AskKept ==
    ASSUME PL!ConstantsOK, PlacementInv, NEW e \in Editors, PL!updateApplicationDeploymentPlacement(e)
    PROVE  PlacementInv'
<1> DEFINE s == [step |-> "asked", seen |-> version, status |-> status]
<1>1. /\ UNCHANGED <<version, control, applied, lock, fresh, manifest, status, stray, quiet, faults>>
      /\ actor[e] = PL!Off /\ PL!Become(e, s)
    BY DEF PL!updateApplicationDeploymentPlacement
<1>2. s \in Asking /\ s.step = "asked"
    BY DEF Asking, PlacementInv, PlacementTyped
<1> HIDE DEF s
<1>3. e \in PL!Actors /\ e # PL!Follower /\ PL!Follower \in PL!Actors
    BY DEF PL!Actors, PL!ConstantsOK
<1>4. actor' \in [PL!Actors -> Shapes] /\ actor'[e] = s /\ \A b \in PL!Actors \ {e} : actor'[b] = actor[b]
    BY <1>1, <1>2, <1>3, BecomeTyped DEF Shapes, PlacementInv
<1>5. PlacementTyped'
    BY <1>1, <1>4 DEF PlacementInv, PlacementTyped
<1>6. ASSUME NEW f \in Editors
      PROVE  LockHeld(f)'
    <2>1. f \in PL!Actors
        BY DEF PL!Actors
    <2> QED BY <1>1, <1>2, <1>4, <2>1 DEF PlacementInv, LockHeld, Working
<1>7. Undisturbed'
    <2>1. quiet = "edit" => lock \in PL!Actors /\ lock # e
        BY <1>1 DEF PlacementInv, PlacementTyped, Undisturbed, Newest, PL!Off, Working, PL!Actors
    <2> QED BY <1>1, <1>3, <1>4, <2>1 DEF PlacementInv, Undisturbed, Newest
<1> QED BY <1>5, <1>6, <1>7 DEF PlacementInv

(* The transaction of an edit: from here on it is the newest. *)
LEMMA StoreKept ==
    ASSUME PL!ConstantsOK, PlacementInv, NEW e \in Editors, PL!UpdateApplicationDeploymentSettings(e)
    PROVE  PlacementInv'
<1>1. actor[e].step = "asked" /\ lock = "free" /\ UNCHANGED <<control, applied, fresh, manifest, status, stray, faults>>
    BY DEF PL!UpdateApplicationDeploymentSettings, PL!StoreSettings
<1>2. e \in PL!Actors /\ e # PL!Follower /\ PL!Follower \in PL!Actors /\ e # "free"
    BY DEF PL!Actors, PL!ConstantsOK
<1>3. CASE actor[e].seen = version /\ version < MaxEdits /\ actor[e].status # "failed"
    <2> DEFINE s == [step |-> "stored", version |-> version + 1]
    <2>1. /\ version' = version + 1 /\ lock' = e /\ PL!Become(e, s)
          /\ quiet' = IF actor[PL!Follower] = PL!Off /\ stray = {} THEN "edit" ELSE "no"
        BY <1>3 DEF PL!ConstantsOK, PlacementInv, PlacementTyped, PL!Versions, PL!UpdateApplicationDeploymentSettings, PL!StoreSettings
    <2>2. version' \in PL!Versions
        BY <1>3, <2>1 DEF PlacementInv, PlacementTyped, PL!Versions, PL!ConstantsOK
    <2>3. s \in Writing /\ s.step = "stored" /\ s.version = version'
        BY <2>1, <2>2 DEF Writing, AnyVersion
    <2> HIDE DEF s
    <2>4. actor' \in [PL!Actors -> Shapes] /\ actor'[e] = s /\ \A b \in PL!Actors \ {e} : actor'[b] = actor[b]
        BY <1>2, <2>1, <2>3, BecomeTyped DEF Shapes, PlacementInv
    <2>5. PlacementTyped'
        BY <1>1, <2>1, <2>2, <2>4 DEF PlacementInv, PlacementTyped
    <2>6. ASSUME NEW f \in Editors
          PROVE  LockHeld(f)'
        <3>1. f \in PL!Actors
            BY DEF PL!Actors
        <3>2. f # "free"
            BY DEF PL!ConstantsOK
        <3> QED BY <1>1, <2>1, <2>4, <3>1, <3>2 DEF PlacementInv, LockHeld
    <2>7. Undisturbed'
        BY <1>1, <1>2, <2>1, <2>3, <2>4 DEF Undisturbed, Newest, Working
    <2> QED BY <2>5, <2>6, <2>7 DEF PlacementInv
<1>4. CASE actor[e].status = "failed" \/ ~ (actor[e].seen = version /\ version < MaxEdits)
    <2>1. /\ PL!Become(e, PL!Off) /\ lock' = lock /\ version' \in PL!Versions
          /\ quiet' = "no" \/ (version' = version /\ quiet' = quiet)
        BY <1>4 DEF PL!UpdateApplicationDeploymentSettings, PL!StoreSettings, PlacementInv, PlacementTyped, PL!Versions, PL!ConstantsOK
    <2>2. actor' \in [PL!Actors -> Shapes] /\ actor'[e] = PL!Off /\ \A b \in PL!Actors \ {e} : actor'[b] = actor[b]
        BY <1>2, <2>1, BecomeTyped DEF Shapes, PlacementInv
    <2>3. PlacementTyped'
        BY <1>1, <2>1, <2>2 DEF PlacementInv, PlacementTyped
    <2>4. ASSUME NEW f \in Editors
          PROVE  LockHeld(f)'
        <3>1. f \in PL!Actors
            BY DEF PL!Actors
        <3> QED BY <1>1, <2>1, <2>2, <3>1 DEF PlacementInv, LockHeld, Working, PL!Off
    <2>5. Undisturbed'
        BY <1>1, <1>2, <2>1, <2>2 DEF PlacementInv, Undisturbed
    <2> QED BY <2>3, <2>4, <2>5 DEF PlacementInv
<1> QED BY <1>3, <1>4

(* The control object is written, and read back for the workloads. *)
LEMMA WriteKept ==
    ASSUME PL!ConstantsOK, PlacementInv, NEW e \in Editors, PL!WritePlacementControl(e) \/ PL!ApplyLivePlacement(e)
    PROVE  PlacementInv'
<1>1. /\ actor[e].step \in {"stored", "written"}
      /\ UNCHANGED <<version, applied, lock, fresh, manifest, status, stray, quiet, faults>>
    BY DEF PL!WritePlacementControl, PL!ApplyLivePlacement
<1>2. e \in PL!Actors /\ e # PL!Follower /\ PL!Follower \in PL!Actors
    BY DEF PL!Actors, PL!ConstantsOK
<1>3. actor[e] \in Writing
    BY <1>1, <1>2, ActorShape DEF PlacementInv
<1>4. PICK s \in Shapes :
          /\ PL!Become(e, s)
          /\ \/ s.step = "written" /\ s.version = actor[e].version /\ control' = actor[e].version
             \/ /\ s.step = "read" /\ s.version \in {control, actor[e].version} /\ s.left = Workloads
                /\ control' = control /\ actor[e].step = "written"
    <2>1. CASE PL!WritePlacementControl(e)
        <3> DEFINE s == [step |-> "written", version |-> actor[e].version]
        <3>1. s \in Shapes
            BY <1>3 DEF Writing, Shapes
        <3> QED BY <2>1, <3>1 DEF PL!WritePlacementControl
    <2>2. CASE PL!ApplyLivePlacement(e)
        <3> DEFINE s == [step |-> "read", left |-> Workloads,
                         version |-> IF control = NoVersion THEN actor[e].version ELSE control]
        <3>1. s \in Reading
            BY <1>3 DEF PlacementInv, PlacementTyped, Reading, Writing
        <3>2. s \in Shapes
            BY <3>1 DEF Shapes
        <3> QED BY <2>2, <3>2 DEF PL!ApplyLivePlacement
    <2> QED BY <2>1, <2>2
<1>5. actor' \in [PL!Actors -> Shapes] /\ actor'[e] = s /\ \A b \in PL!Actors \ {e} : actor'[b] = actor[b]
    BY <1>2, <1>4, BecomeTyped DEF PlacementInv
<1>6. PlacementTyped'
    <2>1. control' \in AnyVersion
        BY <1>3, <1>4 DEF Writing, PlacementInv, PlacementTyped
    <2> QED BY <1>1, <1>5, <2>1 DEF PlacementInv, PlacementTyped
<1>7. ASSUME NEW f \in Editors
      PROVE  LockHeld(f)'
    <2>1. f \in PL!Actors
        BY DEF PL!Actors
    <2> QED BY <1>1, <1>5, <2>1 DEF PlacementInv, LockHeld, Working
<1>8. Undisturbed'
    <2>1. CASE quiet = "no"
        BY <1>1, <2>1 DEF Undisturbed
    <2>2. CASE quiet # "no"
        <3>1. quiet = "edit" /\ lock = e /\ Newest(e)
            BY <1>1, <2>2, Alone DEF Working
        <3>2. Newest(e)'
            BY <1>1, <1>4, <1>5, <3>1 DEF Newest, Working
        <3> QED BY <1>1, <1>2, <1>5, <2>2, <3>1, <3>2 DEF PlacementInv, Undisturbed
    <2> QED BY <2>1, <2>2
<1> QED BY <1>6, <1>7, <1>8 DEF PlacementInv
(* An edit ends, well or not: when it was undisturbed and has been through
   all workloads, these have the settings of the row. *)
LEMMA EndKept ==
    ASSUME PL!ConstantsOK, PlacementInv, NEW e \in Editors, PL!EndEdit(e) \/ PL!FailEdit(e)
    PROVE  PlacementInv'
<1>1. /\ actor[e].step \in Working
      /\ PL!LetGo(e) /\ UNCHANGED <<version, control, applied, manifest, status>> /\ faults' \in 0 .. MaxFaults
    BY DEF PL!EndEdit, PL!FailEdit, Working, PlacementInv, PlacementTyped, PL!ConstantsOK
<1>2. e \in PL!Actors /\ e # PL!Follower /\ PL!Follower \in PL!Actors /\ e # "free"
    BY DEF PL!Actors, PL!ConstantsOK
<1>3. actor' \in [PL!Actors -> Shapes] /\ actor'[e] = PL!Off /\ \A b \in PL!Actors \ {e} : actor'[b] = actor[b]
    BY <1>1, <1>2, BecomeTyped DEF PL!LetGo, Shapes, PlacementInv
<1>4. lock' = (IF lock = e THEN "free" ELSE lock) /\ stray' = stray \ {e} /\ fresh' = fresh \ {e}
    BY <1>1 DEF PL!LetGo
<1>5. quiet' = "no" \/ (PL!EndEdit(e) /\ quiet' = IF quiet = "edit" THEN "yes" ELSE quiet)
    BY DEF PL!EndEdit, PL!FailEdit
<1>6. PlacementTyped'
    BY <1>1, <1>3, <1>4, <1>5 DEF PlacementInv, PlacementTyped
<1>7. ASSUME NEW f \in Editors
      PROVE  LockHeld(f)'
    <2>1. f \in PL!Actors
        BY DEF PL!Actors
    <2> QED BY <1>3, <1>4, <2>1 DEF PlacementInv, LockHeld, Working, PL!Off
<1>8. Undisturbed'
    <2>1. CASE quiet' = "no"
        BY <2>1 DEF Undisturbed
    <2>2. CASE quiet' # "no"
        <3>1. PL!EndEdit(e) /\ quiet # "no"
            BY <1>5, <2>2
        <3>2. quiet = "edit" /\ lock = e /\ Newest(e)
            BY <1>1, <3>1, Alone
        <3>3. actor[e].step = "read" /\ actor[e].left = {}
            BY <3>1 DEF PL!EndEdit
        <3>4. control = version /\ \A w \in Workloads : applied[w] \in {version, NoVersion}
            BY <3>2, <3>3 DEF Newest
        <3> QED BY <1>1, <1>2, <1>3, <1>4, <1>5, <3>1, <3>2, <3>4 DEF PlacementInv, Undisturbed
    <2> QED BY <2>1, <2>2
<1> QED BY <1>6, <1>7, <1>8 DEF PlacementInv

(* The lock is lost: whoever had it is stray from now on. *)
LEMMA LoseLockKept ==
    ASSUME PL!ConstantsOK, PlacementInv, PL!LoseLock
    PROVE  PlacementInv'
BY DEF PL!LoseLock, PL!ConstantsOK, PlacementInv, PlacementTyped, LockHeld, Undisturbed

(* The deployment starts, its follower ticks, it ends or is rolled back:
   while it is active no edit counts as undisturbed. *)
LEMMA DeploymentKept ==
    ASSUME PL!ConstantsOK, PlacementInv,
           \/ PL!StartDeployment \/ PL!followPlacement \/ PL!EndTick \/ PL!EndDeployment
           \/ PL!FailDeployment \/ PL!RemoveControl \/ PL!ClearNamespace \/ PL!FailRollback
    PROVE  PlacementInv'
<1>1. /\ UNCHANGED <<version, lock, stray>>
      /\ control' \in {control, NoVersion} /\ applied' \in [Workloads -> AnyVersion]
      /\ manifest' \in AnyVersion /\ fresh' \subseteq PL!Actors /\ faults' \in 0 .. MaxFaults
      /\ quiet' \in {"no", quiet} /\ status' \in PL!Statuses
    <2>1. CASE PL!StartDeployment \/ PL!followPlacement \/ PL!EndTick
        BY <2>1 DEF PL!StartDeployment, PL!followPlacement, PL!EndTick, PlacementInv, PlacementTyped, PL!ConstantsOK, AnyVersion, PL!Versions
    <2>2. CASE PL!EndDeployment \/ PL!FailDeployment \/ PL!RemoveControl \/ PL!ClearNamespace \/ PL!FailRollback
        BY <2>2 DEF PL!EndDeployment, PL!FailDeployment, PL!RemoveControl, PL!ClearNamespace, PL!FailRollback, PlacementInv, PlacementTyped, AnyVersion, PL!Statuses
    <2> QED BY <2>1, <2>2
<1>2. PL!Follower \in PL!Actors /\ PL!Follower \notin Editors /\ Editors \subseteq PL!Actors
    BY DEF PL!Actors, PL!ConstantsOK
<1>3. PICK s \in Shapes : PL!Become(PL!Follower, s)
    <2>1. \A t \in {"waiting", "rollback", "clearing"} : [step |-> t] \in Shapes
        BY DEF Shapes, Waiting
    <2>2. [step |-> "read", version |-> control, left |-> Workloads] \in Shapes
        <3>1. [step |-> "read", version |-> control, left |-> Workloads] \in Reading
            BY DEF PlacementInv, PlacementTyped, Reading
        <3> QED BY <3>1 DEF Shapes
    <2>3. PL!Off \in Shapes
        BY DEF Shapes
    <2> QED BY <2>1, <2>2, <2>3 DEF PL!StartDeployment, PL!followPlacement, PL!EndTick, PL!EndDeployment, PL!FailDeployment, PL!RemoveControl, PL!ClearNamespace, PL!FailRollback
<1>4. actor' \in [PL!Actors -> Shapes] /\ \A b \in PL!Actors \ {PL!Follower} : actor'[b] = actor[b]
    BY <1>2, <1>3, BecomeTyped DEF PlacementInv
<1>5. PlacementTyped'
    BY <1>1, <1>4 DEF PlacementInv, PlacementTyped, AnyVersion
<1>6. ASSUME NEW e \in Editors
      PROVE  LockHeld(e)'
    BY <1>1, <1>2, <1>4 DEF PlacementInv, LockHeld
<1>7. quiet' = "no"
    <2>1. CASE PL!StartDeployment
        BY <2>1 DEF PL!StartDeployment
    <2>2. CASE ~ PL!StartDeployment
        <3>1. actor[PL!Follower].step # "off"
            BY <2>2 DEF PL!followPlacement, PL!EndTick, PL!EndDeployment, PL!FailDeployment, PL!RemoveControl, PL!ClearNamespace, PL!FailRollback, PL!Following
        <3>2. quiet = "no"
            BY <3>1 DEF PlacementInv, Undisturbed, PL!Off
        <3> QED BY <1>1, <3>2
    <2> QED BY <2>1, <2>2
<1> QED BY <1>5, <1>6, <1>7 DEF PlacementInv, Undisturbed

(* The first apply of a workload, with the settings of the manifest. *)
LEMMA ManifestKept ==
    ASSUME PL!ConstantsOK, PlacementInv, NEW w \in Workloads, PL!ApplyManifest(w)
    PROVE  PlacementInv'
BY DEF PL!ApplyManifest, PL!Write, PL!Following, PL!Off, PL!ConstantsOK, PlacementInv, PlacementTyped, LockHeld, Undisturbed

(* The run fails: edits that come later find it so. *)
LEMMA FailRunKept ==
    ASSUME PL!ConstantsOK, PlacementInv, PL!FailRun
    PROVE  PlacementInv'
BY DEF PL!FailRun, PlacementInv, PlacementTyped, PL!Statuses, LockHeld, Undisturbed, Newest

(* The inductive invariant holds at first and is kept by every step. *)
LEMMA PlacementInvInit ==
    ASSUME PL!ConstantsOK, PL!Init
    PROVE  PlacementInv
<1>1. PL!Off \in Shapes /\ PL!Off.step = "off" /\ Editors \subseteq PL!Actors
    BY DEF PL!Off, Shapes, PL!Actors
<1> QED BY <1>1 DEF PL!ConstantsOK, PL!Init, PlacementInv, PlacementTyped, AnyVersion, PL!Versions, PL!Statuses, LockHeld, Undisturbed, Working

(* Every step preserves the inductive invariant: one lemma per action. *)
LEMMA PlacementInvNext ==
    ASSUME PL!ConstantsOK, PlacementInv, [PL!Next]_(PL!vars)
    PROVE  PlacementInv'
<1>1. CASE UNCHANGED PL!vars
    BY <1>1 DEF PL!vars, PlacementInv, PlacementTyped, LockHeld, Undisturbed, Newest
<1>2. Editors \subseteq PL!Actors /\ PL!Follower \in PL!Actors
    BY DEF PL!Actors
<1> QED
    BY <1>1, <1>2, AskKept, StoreKept, WriteKept, GetKept, PatchKept, EndKept, LoseLockKept, DeploymentKept,
       ManifestKept, FailRunKept DEF PL!Next, PL!Edit, PL!Tick

(* What the invariant says about the answer of an edit. *)
LEMMA PlacementInvFollows ==
    ASSUME PL!ConstantsOK, PlacementInv
    PROVE  PL!TypeOK /\ PL!PlacementFollowsTheRow
<1>1. ASSUME NEW a \in PL!Actors
      PROVE  actor[a] = PL!Off \/ actor[a].step \in {"asked", "stored", "written", "read", "got", "waiting", "rollback", "clearing"}
    BY DEF PlacementInv, PlacementTyped, Shapes, Asking, Writing, Reading, Patching, Waiting
<1>2. PL!TypeOK
    BY <1>1 DEF PlacementInv, PlacementTyped, PL!TypeOK, AnyVersion
<1>3. PL!PlacementFollowsTheRow
    BY DEF PlacementInv, Undisturbed, PL!PlacementFollowsTheRow
<1> QED BY <1>2, <1>3

(* Whoever is at work has the session lock or has lost it, and an edit that
   nobody disturbs is the newest and alone. *)
THEOREM PlacementKept ==
    ASSUME PL!ConstantsOK
    PROVE  PL!Spec => []PlacementInv
<1>1. PL!Init => PlacementInv
    BY PlacementInvInit
<1>2. PlacementInv /\ [PL!Next]_(PL!vars) => PlacementInv'
    BY PlacementInvNext
<1> QED BY <1>1, <1>2, PTL DEF PL!Spec

(* The row, the control object, the workloads and the actors keep their
   types. *)
THEOREM PlacementTypes ==
    ASSUME PL!ConstantsOK
    PROVE  PL!Spec => []PL!TypeOK
<1>1. PlacementInv => PL!TypeOK
    BY PlacementInvFollows
<1> QED BY <1>1, PlacementKept, PTL

(* PlacementFollowsTheRow for every number of editors, workloads, edits and
   faults. *)
THEOREM PlacementFollowsAlways ==
    ASSUME PL!ConstantsOK
    PROVE  PL!Spec => []PL!PlacementFollowsTheRow
<1>1. PlacementInv => PL!PlacementFollowsTheRow
    BY PlacementInvFollows
<1> QED BY <1>1, PlacementKept, PTL

-----------------------------------------------------------------------------
(***************************************************************************)
(* The three side by side, as MCRecords runs them.  A step moves one of    *)
(* them.  The ledger and placement count their faults together, so of the  *)
(* one that rests only what does not depend on that count is kept.         *)
(***************************************************************************)

(* The records are as they should be, the part at work and those at rest. *)
RecordsInv ==
    /\ part = "ledger" => LedgerInv
    /\ part # "ledger" => LedgerCoversMachines
    /\ NodesInv
    /\ part = "placement" => PlacementInv
    /\ part # "placement" => PlacementFollowsTheRow

(* A step of the records is a step of one of them, or of none. *)
LEMMA RecordsStep ==
    ASSUME [RecordsNext]_<<part, faults, ledger, nodes, placement>>
    PROVE  /\ part' = part
           /\ part = "ledger" => [Next]_vars
           /\ part # "ledger" => UNCHANGED ledger
           /\ [NS!Next]_(NS!vars)
           /\ part = "placement" => [PL!Next]_(PL!vars)
           /\ part # "placement" => UNCHANGED placement
BY DEF RecordsNext, ledger, nodes, placement, vars, NS!vars, PL!vars
(* The records begin empty, and the settings in force. *)
LEMMA RecordsInvInit ==
    ASSUME RecordsInit
    PROVE  RecordsInv
<1>1. LedgerInv /\ NodesInv /\ PlacementInv
    BY InstancesOK, LedgerInvInit, NodesInvInit, PlacementInvInit DEF RecordsInit
<1>2. LedgerCoversMachines /\ PlacementFollowsTheRow
    BY <1>1, InstancesOK, LedgerInvCovers, PlacementInvFollows DEF PlacementFollowsTheRow
<1> QED BY <1>1, <1>2 DEF RecordsInv

(* Each part keeps its own invariant and disturbs no other. *)
LEMMA RecordsInvNext ==
    ASSUME RecordsInv, [RecordsNext]_<<part, faults, ledger, nodes, placement>>
    PROVE  RecordsInv'
<1>1. part' = "ledger" => LedgerInv'
    BY InstancesOK, RecordsStep, LedgerInvNext DEF RecordsInv
<1>2. part' # "ledger" => LedgerCoversMachines'
    BY RecordsStep DEF RecordsInv, ledger, LedgerCoversMachines
<1>3. NodesInv'
    BY InstancesOK, RecordsStep, NodesInvNext DEF RecordsInv
<1>4. part' = "placement" => PlacementInv'
    BY InstancesOK, RecordsStep, PlacementInvNext DEF RecordsInv
<1>5. part' # "placement" => PlacementFollowsTheRow'
    BY RecordsStep DEF RecordsInv, placement, PlacementFollowsTheRow, PL!PlacementFollowsTheRow
<1> QED BY <1>1, <1>2, <1>3, <1>4, <1>5 DEF RecordsInv

(* What the records promise follows. *)
LEMMA RecordsInvFollows ==
    ASSUME RecordsInv
    PROVE  LedgerCoversMachines /\ StoredIsInForce /\ PlacementFollowsTheRow
<1>1. LedgerCoversMachines
    BY InstancesOK, LedgerInvCovers DEF RecordsInv
<1>2. StoredIsInForce
    BY InstancesOK, NodesInvForces DEF RecordsInv, StoredIsInForce
<1>3. PlacementFollowsTheRow
    BY InstancesOK, PlacementInvFollows DEF RecordsInv, PlacementFollowsTheRow
<1> QED BY <1>1, <1>2, <1>3

(* The invariants of the three, side by side, for every value of the
   constants that the instances may have. *)
THEOREM RecordsKept ==
    RecordsSpec => []RecordsInv
<1>1. RecordsInit => RecordsInv
    BY RecordsInvInit
<1>2. RecordsInv /\ [RecordsNext]_<<part, faults, ledger, nodes, placement>> => RecordsInv'
    BY RecordsInvNext
<1> QED BY <1>1, <1>2, PTL DEF RecordsSpec

(* LedgerCoversMachines in every behaviour of the records. *)
THEOREM RecordsCoverMachines ==
    RecordsSpec => []LedgerCoversMachines
<1>1. RecordsInv => LedgerCoversMachines
    BY RecordsInvFollows
<1> QED BY <1>1, RecordsKept, PTL

(* StoredIsInForce in every behaviour of the records: an edit of a pool is
   stored only when its nodes carry it (reconcileNodeSettings). *)
THEOREM StoredSettingsAreInForce ==
    RecordsSpec => []StoredIsInForce
<1>1. RecordsInv => StoredIsInForce
    BY RecordsInvFollows
<1> QED BY <1>1, RecordsKept, PTL

(* PlacementFollowsTheRow in every behaviour of the records: what an edit
   that ended well has stored is in the cluster. *)
THEOREM StoredPlacementIsInForce ==
    RecordsSpec => []PlacementFollowsTheRow
<1>1. RecordsInv => PlacementFollowsTheRow
    BY RecordsInvFollows
<1> QED BY <1>1, RecordsKept, PTL

=============================================================================
