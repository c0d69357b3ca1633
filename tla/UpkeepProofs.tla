---------------------------- MODULE UpkeepProofs ----------------------------
(***************************************************************************)
(* The background loops, for every value of the constants: first the       *)
(* deletion of files, then the connectivity monitors, and last what they   *)
(* promise when they run as MCUpkeep runs them.                            *)
(***************************************************************************)
EXTENDS MCUpkeep, TLAPS

-----------------------------------------------------------------------------
(***************************************************************************)
(* For any number of experiments, runs, operations, imports and deletion   *)
(* loops: no file is forgotten and none is missed.  The invariant follows  *)
(* a key through the queue: it is queued only when its operation is gone   *)
(* or its import has no rows, a loop holds only keys that are due, no two  *)
(* loops hold the same one, and what a loop has removed stays removed      *)
(* until the key is forgotten.                                             *)
(***************************************************************************)
Batches == UNION {[keys -> {"locked", "removed", "failed"}] : keys \in SUBSET Keys}

FilesTyped ==
    /\ experiments \subseteq Experiments
    /\ run \in [Runs -> {"none", "active", "final", "gone"}]
    /\ op \in [Ops -> {"none", "active", "final", "gone"}]
    /\ artifact \subseteq Keys /\ stored \subseteq Keys
    /\ queue \in [Keys -> {"absent", "due", "later"}]
    /\ batch \in [Workers -> Batches]
    /\ import \in [Imports -> {"idle", "registered", "written", "done"}]
    /\ faults \in 0 .. MaxFaults

(* The directory of an operation. *)
OpSound(o) ==
    /\ queue[o] # "absent" => op[o] = "gone"
    /\ o \in artifact => op[o] \in {"active", "final"} /\ o \in stored
    /\ o \in stored => op[o] \in {"active", "final"} \/ queue[o] # "absent"

(* The directory of an import. *)
ImportSound(i) ==
    /\ import[i] = "idle" => queue[i] = "absent" /\ i \notin stored
    /\ import[i] \in {"registered", "written"} => queue[i] = "later"
    /\ import[i] = "written" => i \in stored
    /\ i \in artifact => queue[i] = "absent" /\ i \in stored
    /\ i \in stored => i \in artifact \/ queue[i] # "absent"

(* The keys a deletion loop has locked. *)
BatchSound(w) ==
    \A k \in DOMAIN batch[w] :
        /\ queue[k] = "due"
        /\ batch[w][k] = "removed" => k \notin stored
        /\ \A v \in Workers \ {w} : k \notin DOMAIN batch[v]

(* Nothing is missing that an operation was made from, and nothing that a
   pipeline still names. *)
InputsKept ==
    /\ \A o \in Existing : Inputs(o) \subseteq artifact
    /\ \A r \in Present : External(r) \subseteq artifact

FilesInv ==
    /\ FilesTyped
    /\ \A o \in Ops : OpSound(o)
    /\ \A i \in Imports : ImportSound(i)
    /\ \A w \in Workers : BatchSound(w)
    /\ InputsKept

(* A batch is a function on keys. *)
LEMMA BatchDomain ==
    ASSUME FilesTyped, NEW w \in Workers
    PROVE  /\ DOMAIN batch[w] \subseteq Keys
           /\ \A k \in DOMAIN batch[w] : batch[w][k] \in {"locked", "removed", "failed"}
           /\ batch[w] \in [DOMAIN batch[w] -> {"locked", "removed", "failed"}]
<1>1. PICK keys \in SUBSET Keys : batch[w] \in [keys -> {"locked", "removed", "failed"}]
    BY DEF FilesTyped, Batches
<1> QED BY <1>1

(* An operation is created, writes its files and settles. *)
LEMMA OperationKept ==
    ASSUME ConstantsOK, FilesInv, NEW o \in Ops,
           CreateOperation(o) \/ PutOutput(o) \/ CreateArtifact(o) \/ SettleOperation(o)
    PROVE  FilesInv'
<1>1. UNCHANGED <<experiments, run, queue, batch, import, faults>>
    BY DEF CreateOperation, PutOutput, CreateArtifact, SettleOperation
<1>2. o \in Keys /\ o \notin Imports
    BY DEF Keys, ConstantsOK
<1>3. FilesTyped'
    BY <1>1, <1>2 DEF CreateOperation, PutOutput, CreateArtifact, SettleOperation, FilesInv, FilesTyped
<1>4. ASSUME NEW p \in Ops
      PROVE  OpSound(p)'
    BY <1>1 DEF CreateOperation, PutOutput, CreateArtifact, SettleOperation, FilesInv, FilesTyped, OpSound
<1>5. ASSUME NEW i \in Imports
      PROVE  ImportSound(i)'
    BY <1>1, <1>2 DEF CreateOperation, PutOutput, CreateArtifact, SettleOperation, FilesInv, ImportSound
<1>6. ASSUME NEW w \in Workers
      PROVE  BatchSound(w)'
    <2>1. stored' = stored \/ (stored' = stored \cup {o} /\ op[o] = "active")
        BY DEF CreateOperation, PutOutput, CreateArtifact, SettleOperation
    <2>2. op[o] = "active" => queue[o] = "absent"
        BY DEF FilesInv, OpSound
    <2> QED BY <1>1, <2>1, <2>2 DEF FilesInv, BatchSound
<1>7. InputsKept'
    <2>1. artifact \subseteq artifact'
        BY DEF CreateOperation, PutOutput, CreateArtifact, SettleOperation
    <2>2. \A p \in Ops : op'[p] \in {"active", "final"} =>
                            op[p] \in {"active", "final"} \/ (p = o /\ Inputs(o) \subseteq artifact)
        <3>1. ASSUME CreateOperation(o)
              PROVE  Inputs(o) \subseteq artifact
            <4>1. PICK r \in Present : o \in Owns[r] /\ Inputs(o) \cap Owns[r] \subseteq artifact
                BY <3>1 DEF CreateOperation, Present
            <4>2. External(r) \subseteq artifact
                BY <4>1 DEF FilesInv, InputsKept
            <4> QED BY <4>1, <4>2 DEF External
        <3> QED BY <3>1 DEF CreateOperation, PutOutput, CreateArtifact, SettleOperation, FilesInv, FilesTyped
    <2>3. \A p \in Existing' : Inputs(p) \subseteq artifact'
        BY <2>1, <2>2 DEF FilesInv, InputsKept, Existing
    <2>4. \A r \in Present' : External(r) \subseteq artifact'
        BY <1>1, <2>1 DEF FilesInv, InputsKept, Present
    <2> QED BY <2>3, <2>4 DEF InputsKept, Inputs, External
<1> QED BY <1>3, <1>4, <1>5, <1>6, <1>7 DEF FilesInv

(* A set of operations that may go takes along whoever reads from it. *)
LEMMA RemovableClosed ==
    ASSUME NEW candidates, NEW remaining
    PROVE  /\ Removable(candidates, remaining) \subseteq candidates
           /\ \A o \in Removable(candidates, remaining) :
                 /\ Feeds[o] \cap Existing \subseteq Removable(candidates, remaining)
                 /\ \A r \in remaining : o \notin External(r)
BY DEF Removable

(* A deletion, of an experiment or of runs that lost theirs: the rows of
   the operations go and their directories are queued in one transaction. *)
LEMMA DeletionKept ==
    ASSUME ConstantsOK, FilesInv, NEW requested, NEW kept, deleteExperimentRuns(requested, kept),
           experiments' \subseteq experiments, UNCHANGED <<stored, batch, import, faults>>
    PROVE  FilesInv'
<1> DEFINE runs == {r \in requested \cap Present : \A x \in kept : r \notin Trials[x]}
           candidates == (UNION {Owns[r] : r \in runs}) \cap Existing
           remaining == Present \ runs
           removed == Removable(candidates, remaining)
<1>1. /\ \A o \in candidates : op[o] = "final"
      /\ run' = [r \in Runs |-> IF r \in runs THEN "gone" ELSE run[r]]
      /\ queue' = [k \in Keys |-> IF k \in removed /\ queue[k] = "absent" THEN "due" ELSE queue[k]]
      /\ artifact' = artifact \ removed
      /\ op' = [o \in Ops |-> IF o \in removed THEN "gone" ELSE op[o]]
    BY DEF deleteExperimentRuns
<1>2. candidates \subseteq Existing
    OBVIOUS
<1> HIDE DEF candidates, remaining
<1>3. /\ removed \subseteq candidates
      /\ \A o \in removed : /\ Feeds[o] \cap Existing \subseteq removed
                            /\ \A r \in remaining : o \notin External(r)
    BY RemovableClosed
<1> HIDE DEF runs, removed
<1>4. \A o \in removed : o \in Ops /\ op[o] = "final" /\ o \notin Imports
    BY <1>1, <1>2, <1>3 DEF Existing, ConstantsOK
<1>5. FilesTyped'
    BY <1>1 DEF FilesInv, FilesTyped
<1>6. ASSUME NEW o \in Ops
      PROVE  OpSound(o)'
    BY <1>1, <1>4 DEF FilesInv, FilesTyped, OpSound, Keys
<1>7. ASSUME NEW i \in Imports
      PROVE  ImportSound(i)'
    BY <1>1, <1>4 DEF FilesInv, ImportSound, Keys
<1>8. ASSUME NEW w \in Workers
      PROVE  BatchSound(w)'
    <2>1. DOMAIN batch[w] \subseteq Keys
        BY BatchDomain DEF FilesInv
    <2> QED BY <1>1, <2>1 DEF FilesInv, BatchSound
<1>9. InputsKept'
    <2>1. ASSUME NEW o \in Existing', NEW i \in Inputs(o)
          PROVE  i \in artifact'
        <3>1. o \in Existing /\ o \notin removed
            BY <1>1, <2>1 DEF Existing
        <3>2. i \in artifact /\ o \in Feeds[i]
            BY <2>1, <3>1 DEF FilesInv, InputsKept, Inputs
        <3> QED BY <1>1, <1>3, <3>1, <3>2
    <2>2. ASSUME NEW r \in Present'
          PROVE  External(r) \subseteq artifact'
        <3>1. r \in remaining
            BY <1>1, <2>2 DEF remaining, Present, FilesInv, FilesTyped
        <3>2. r \in Present
            BY <3>1 DEF remaining
        <3>3. External(r) \subseteq artifact
            BY <3>2 DEF FilesInv, InputsKept
        <3> QED BY <1>1, <1>3, <3>1, <3>3
    <2> QED BY <2>1, <2>2 DEF InputsKept, Inputs, External
<1> QED BY <1>5, <1>6, <1>7, <1>8, <1>9 DEF FilesInv

(* A loop locks keys that are due and that nobody else has locked. *)
LEMMA TakeKept ==
    ASSUME ConstantsOK, FilesInv, NEW w \in Workers, TakeKeys(w)
    PROVE  FilesInv'
<1>1. PICK keys \in SUBSET ({k \in Keys : queue[k] = "due"} \ Locked) :
          batch' = [batch EXCEPT ![w] = [k \in keys |-> "locked"]]
    BY DEF TakeKeys
<1>2. UNCHANGED <<experiments, run, op, artifact, stored, queue, import, faults>>
    BY DEF TakeKeys
<1>3. [k \in keys |-> "locked"] \in Batches
    <2>1. keys \in SUBSET Keys
        OBVIOUS
    <2>2. [k \in keys |-> "locked"] \in [keys -> {"locked", "removed", "failed"}]
        OBVIOUS
    <2> QED BY <2>1, <2>2 DEF Batches
<1>4. FilesTyped'
    BY <1>1, <1>2, <1>3 DEF FilesInv, FilesTyped
<1>5. \A v \in Workers : batch'[v] = IF v = w THEN [k \in keys |-> "locked"] ELSE batch[v]
    BY <1>1 DEF FilesInv, FilesTyped
<1>6. ASSUME NEW v \in Workers
      PROVE  BatchSound(v)'
    <2>1. \A u \in Workers : DOMAIN batch[u] \subseteq Locked
        BY DEF Locked
    <2> QED BY <1>1, <1>2, <1>5, <2>1 DEF FilesInv, BatchSound
<1> QED BY <1>2, <1>4, <1>6 DEF FilesInv, OpSound, ImportSound, InputsKept, Existing, Inputs, Present, External

(* One key of a batch is worked on: its files are gone, or perhaps gone. *)
LEMMA RemoveKept ==
    ASSUME ConstantsOK, FilesInv, NEW w \in Workers, NEW k \in Keys, RemoveFiles(w, k) \/ RemoveFails(w, k)
    PROVE  FilesInv'
<1>1. /\ k \in DOMAIN batch[w]
      /\ stored' \in {stored, stored \ {k}}
      /\ UNCHANGED <<experiments, run, op, artifact, queue, import>>
      /\ faults' \in 0 .. MaxFaults
    BY DEF RemoveFiles, RemoveFails, FilesInv, FilesTyped, ConstantsOK
<1>2. PICK s \in {"removed", "failed"} :
          batch' = [batch EXCEPT ![w][k] = s] /\ (s = "removed" => stored' = stored \ {k})
    BY DEF RemoveFiles, RemoveFails
<1>3. [batch[w] EXCEPT ![k] = s] \in Batches
    <2>1. /\ DOMAIN batch[w] \in SUBSET Keys
          /\ batch[w] \in [DOMAIN batch[w] -> {"locked", "removed", "failed"}]
        BY BatchDomain DEF FilesInv
    <2>2. [batch[w] EXCEPT ![k] = s] \in [DOMAIN batch[w] -> {"locked", "removed", "failed"}]
        BY <2>1
    <2> QED BY <2>1, <2>2 DEF Batches
<1>4. batch \in [Workers -> Batches]
    BY DEF FilesInv, FilesTyped
<1>5. batch' \in [Workers -> Batches] /\ FilesTyped'
    BY <1>1, <1>2, <1>3, <1>4 DEF FilesInv, FilesTyped
<1>6. \A v \in Workers :
          /\ DOMAIN batch'[v] = DOMAIN batch[v]
          /\ \A j \in DOMAIN batch[v] : batch'[v][j] = IF v = w /\ j = k THEN s ELSE batch[v][j]
    BY <1>1, <1>2, <1>4
<1>7. queue[k] = "due"
    BY <1>1 DEF FilesInv, BatchSound
<1>8. ASSUME NEW v \in Workers
      PROVE  BatchSound(v)'
    BY <1>1, <1>2, <1>6 DEF FilesInv, BatchSound
<1>9. ASSUME NEW o \in Ops
      PROVE  OpSound(o)'
    BY <1>1, <1>7 DEF FilesInv, OpSound
<1>10. ASSUME NEW i \in Imports
       PROVE  ImportSound(i)'
    BY <1>1, <1>7 DEF FilesInv, ImportSound
<1> QED BY <1>1, <1>5, <1>8, <1>9, <1>10 DEF FilesInv, InputsKept, Existing, Inputs, Present, External

(* A loop gives its batch back, with its work or without. *)
LEMMA BatchEnds ==
    ASSUME FilesInv, NEW w \in Workers, batch' = [batch EXCEPT ![w] = Empty]
    PROVE  /\ batch' \in [Workers -> Batches]
           /\ \A v \in Workers : batch'[v] = IF v = w THEN Empty ELSE batch[v]
           /\ DOMAIN Empty = {}
<1>1. Empty \in Batches
    <2>1. {} \in SUBSET Keys /\ Empty \in [{} -> {"locked", "removed", "failed"}]
        BY DEF Empty
    <2> QED BY <2>1 DEF Batches
<1>2. DOMAIN Empty = {}
    BY DEF Empty
<1> QED BY <1>1, <1>2 DEF FilesInv, FilesTyped

(* A deletion loop reports its batch: removed keys leave the queue, failed ones wait. *)
LEMMA ProcessKept ==
    ASSUME ConstantsOK, FilesInv, NEW w \in Workers, ProcessArtifactDeletions(w)
    PROVE  FilesInv'
<1>1. /\ queue' = [k \in Keys |-> IF k \notin DOMAIN batch[w] THEN queue[k]
                                  ELSE IF batch[w][k] = "removed" THEN "absent" ELSE "later"]
      /\ batch' = [batch EXCEPT ![w] = Empty]
      /\ UNCHANGED <<experiments, run, op, artifact, stored, import, faults>>
    BY DEF ProcessArtifactDeletions
<1>2. /\ batch' \in [Workers -> Batches]
      /\ \A v \in Workers : batch'[v] = IF v = w THEN Empty ELSE batch[v]
      /\ DOMAIN Empty = {}
    BY <1>1, BatchEnds
<1>3. FilesTyped'
    BY <1>1, <1>2 DEF FilesInv, FilesTyped
<1>4. ASSUME NEW k \in Keys
      PROVE  \/ queue'[k] = queue[k]
             \/ queue[k] = "due" /\ queue'[k] = "later" /\ k \in DOMAIN batch[w]
             \/ queue[k] = "due" /\ queue'[k] = "absent" /\ k \notin stored /\ k \in DOMAIN batch[w]
    BY <1>1 DEF FilesInv, BatchSound
<1>5. ASSUME NEW o \in Ops
      PROVE  OpSound(o)'
    BY <1>1, <1>4 DEF FilesInv, OpSound, Keys
<1>6. ASSUME NEW i \in Imports
      PROVE  ImportSound(i)'
    BY <1>1, <1>4 DEF FilesInv, ImportSound, Keys
<1>7. ASSUME NEW v \in Workers
      PROVE  BatchSound(v)'
    <2>1. DOMAIN batch[v] \subseteq Keys
        BY BatchDomain DEF FilesInv
    <2>2. v # w => \A k \in DOMAIN batch[v] : queue'[k] = queue[k]
        BY <1>1, <2>1 DEF FilesInv, BatchSound
    <2> QED BY <1>1, <1>2, <2>2 DEF FilesInv, BatchSound
<1> QED BY <1>1, <1>3, <1>5, <1>6, <1>7 DEF FilesInv, InputsKept, Existing, Inputs, Present, External

(* A worker dies with its transaction: its keys are due as before. *)
LEMMA CrashKept ==
    ASSUME ConstantsOK, FilesInv, NEW w \in Workers, CrashWorker(w)
    PROVE  FilesInv'
<1>1. /\ batch' = [batch EXCEPT ![w] = Empty] /\ faults' \in 0 .. MaxFaults
      /\ UNCHANGED <<experiments, run, op, artifact, stored, queue, import>>
    BY DEF CrashWorker, FilesInv, FilesTyped, ConstantsOK
<1>2. /\ batch' \in [Workers -> Batches]
      /\ \A v \in Workers : batch'[v] = IF v = w THEN Empty ELSE batch[v]
      /\ DOMAIN Empty = {}
    BY <1>1, BatchEnds
<1>3. FilesTyped'
    BY <1>1, <1>2 DEF FilesInv, FilesTyped
<1>4. ASSUME NEW v \in Workers
      PROVE  BatchSound(v)'
    BY <1>1, <1>2 DEF FilesInv, BatchSound
<1> QED BY <1>1, <1>3, <1>4 DEF FilesInv, OpSound, ImportSound, InputsKept, Existing, Inputs, Present, External

(* An import registers its directory, writes, commits or fails; a retry
   comes due.  None of it touches a key that a loop has locked. *)
LEMMA ImportKept ==
    ASSUME ConstantsOK, FilesInv, NEW i \in Imports,
           RegisterCleanup(i) \/ WriteObjects(i) \/ CommitImport(i) \/ FailImport(i)
    PROVE  FilesInv'
<1>1. i \in Keys /\ i \notin Ops /\ UNCHANGED <<experiments, run, op, batch>>
    BY DEF ConstantsOK, Keys, RegisterCleanup, WriteObjects, CommitImport, FailImport
<1>2. FilesTyped'
    BY <1>1 DEF RegisterCleanup, WriteObjects, CommitImport, FailImport, FilesInv, FilesTyped, ConstantsOK
<1>3. \A k \in Keys \ {i} : /\ queue'[k] = queue[k]
                            /\ k \in stored' <=> k \in stored
                            /\ k \in artifact' <=> k \in artifact
    BY <1>1 DEF RegisterCleanup, WriteObjects, CommitImport, FailImport, FilesInv, FilesTyped
<1>4. artifact \subseteq artifact'
    BY DEF RegisterCleanup, WriteObjects, CommitImport, FailImport
<1>5. ASSUME NEW o \in Ops
      PROVE  OpSound(o)'
    <2>1. o \in Keys \ {i}
        BY <1>1 DEF Keys
    <2> QED BY <1>1, <1>3, <2>1 DEF FilesInv, OpSound
<1>6. ASSUME NEW j \in Imports
      PROVE  ImportSound(j)'
    <2>1. CASE j # i
        <3>1. j \in Keys \ {i}
            BY <2>1 DEF Keys
        <3>2. import'[j] = import[j]
            BY <2>1 DEF RegisterCleanup, WriteObjects, CommitImport, FailImport, FilesInv, FilesTyped
        <3> QED BY <1>3, <3>1, <3>2 DEF FilesInv, ImportSound
    <2>2. CASE j = i
        BY <1>1, <2>2 DEF RegisterCleanup, WriteObjects, CommitImport, FailImport, FilesInv, FilesTyped, ImportSound
    <2> QED BY <2>1, <2>2
<1>7. ASSUME NEW w \in Workers
      PROVE  BatchSound(w)'
    <2>1. DOMAIN batch[w] \subseteq Keys
        BY BatchDomain DEF FilesInv
    <2>2. i \notin DOMAIN batch[w]
        BY DEF RegisterCleanup, WriteObjects, CommitImport, FailImport, FilesInv, ImportSound, BatchSound
    <2> QED BY <1>1, <1>3, <2>1, <2>2 DEF FilesInv, BatchSound
<1> QED BY <1>1, <1>2, <1>4, <1>5, <1>6, <1>7 DEF FilesInv, InputsKept, Existing, Inputs, Present, External

(* A key whose retry_after has passed is due again. *)
LEMMA RetryKept ==
    ASSUME ConstantsOK, FilesInv, NEW k \in Keys, RetryAfter(k)
    PROVE  FilesInv'
<1>1. /\ queue[k] = "later" /\ queue' = [queue EXCEPT ![k] = "due"]
      /\ k \in Imports => import[k] \notin {"registered", "written"}
      /\ UNCHANGED <<experiments, run, op, artifact, stored, batch, import, faults>>
    BY DEF RetryAfter
<1>2. \A j \in Keys : queue'[j] = IF j = k THEN "due" ELSE queue[j]
    BY <1>1 DEF FilesInv, FilesTyped
<1>3. FilesTyped'
    BY <1>1 DEF FilesInv, FilesTyped
<1>4. ASSUME NEW o \in Ops
      PROVE  OpSound(o)'
    BY <1>1, <1>2 DEF FilesInv, OpSound, Keys
<1>5. ASSUME NEW i \in Imports
      PROVE  ImportSound(i)'
    BY <1>1, <1>2 DEF FilesInv, ImportSound, Keys
<1>6. ASSUME NEW w \in Workers
      PROVE  BatchSound(w)'
    <2>1. DOMAIN batch[w] \subseteq Keys
        BY BatchDomain DEF FilesInv
    <2> QED BY <1>1, <1>2, <2>1 DEF FilesInv, BatchSound
<1> QED BY <1>1, <1>3, <1>4, <1>5, <1>6 DEF FilesInv, InputsKept, Existing, Inputs, Present, External
(* The inductive invariant holds at first and is kept by every step. *)
LEMMA FilesInvInit ==
    ASSUME ConstantsOK, Init
    PROVE  FilesInv
<1>1. Empty \in Batches /\ DOMAIN Empty = {}
    <2>1. {} \in SUBSET Keys /\ Empty \in [{} -> {"locked", "removed", "failed"}]
        BY DEF Empty
    <2> QED BY <2>1 DEF Batches
<1>2. FilesTyped
    BY <1>1 DEF ConstantsOK, Init, FilesTyped
<1>3. \A w \in Workers : BatchSound(w)
    BY <1>1 DEF Init, BatchSound
<1> QED BY <1>2, <1>3 DEF ConstantsOK, Init, FilesInv, OpSound, ImportSound, InputsKept, Existing, Present, Keys

(* Every step preserves the inductive invariant: one lemma per action. *)
LEMMA FilesInvNext ==
    ASSUME ConstantsOK, FilesInv, [Next]_vars
    PROVE  FilesInv'
<1>1. CASE UNCHANGED vars
    BY <1>1 DEF vars, FilesInv, FilesTyped, OpSound, ImportSound, BatchSound, InputsKept, Existing, Inputs, Present, External
<1>2. ASSUME NEW r \in Runs, CreatePipeline(r) \/ CompleteRun(r)
      PROVE  FilesInv'
    <2>1. UNCHANGED <<op, artifact, stored, queue, batch, import, faults>> /\ experiments' = experiments
        BY <1>2 DEF CreatePipeline, CompleteRun
    <2>2. run' \in [Runs -> {"none", "active", "final", "gone"}]
        BY <1>2 DEF CreatePipeline, CompleteRun, FilesInv, FilesTyped
    <2>3. \A q \in Present' : q \in Present \/ (q = r /\ External(r) \subseteq artifact)
        BY <1>2 DEF CreatePipeline, CompleteRun, Present, FilesInv, FilesTyped
    <2>4. \A q \in Present' : External(q) \subseteq artifact
        BY <2>3 DEF FilesInv, InputsKept
    <2> QED BY <2>1, <2>2, <2>4 DEF FilesInv, FilesTyped, OpSound, ImportSound, BatchSound, InputsKept, Existing, Inputs, External
<1>3. ASSUME NEW x \in Experiments, DeleteExperiment(x)
      PROVE  FilesInv'
    BY <1>3, DeletionKept DEF DeleteExperiment
<1>4. CASE PurgeOrphanedExperimentHistory
    BY <1>4, DeletionKept DEF PurgeOrphanedExperimentHistory
<1>5. ASSUME NEW w \in Workers, DeletionLoop(w) \/ CrashWorker(w) \/ \E k \in Keys : RemoveFails(w, k)
      PROVE  FilesInv'
    BY <1>5, TakeKept, RemoveKept, ProcessKept, CrashKept DEF DeletionLoop
<1> QED
    BY <1>1, <1>2, <1>3, <1>4, <1>5, OperationKept, RetryKept, ImportKept DEF Next

(* What the invariant says about files and rows. *)
LEMMA FilesInvFollows ==
    ASSUME ConstantsOK, FilesInv
    PROVE  TypeOK /\ FilesFollowTheRows
<1>1. TypeOK
    <2>1. \A w \in Workers : /\ DOMAIN batch[w] \subseteq Keys
                             /\ \A k \in DOMAIN batch[w] : batch[w][k] \in {"locked", "removed", "failed"}
        BY BatchDomain DEF FilesInv
    <2> QED BY <2>1 DEF FilesInv, FilesTyped, TypeOK
<1>2. FilesFollowTheRows
    BY DEF FilesInv, FilesTyped, OpSound, ImportSound, InputsKept, FilesFollowTheRows, Existing, Keys
<1> QED BY <1>1, <1>2

(* The rows, the queue, the batches of the deletion loops and the imports
   stay in step with the object store, whatever crashes. *)
THEOREM OutboxKept ==
    ASSUME ConstantsOK
    PROVE  Spec => []FilesInv
<1>1. Init => FilesInv
    BY FilesInvInit
<1>2. FilesInv /\ [Next]_vars => FilesInv'
    BY FilesInvNext
<1> QED BY <1>1, <1>2, PTL DEF Spec

(* The rows, the queue and the batches keep their types. *)
THEOREM OutboxTypes ==
    ASSUME ConstantsOK
    PROVE  Spec => []TypeOK
<1>1. FilesInv => TypeOK
    BY FilesInvFollows
<1> QED BY <1>1, OutboxKept, PTL

(* FilesFollowTheRows for every number of experiments, runs, operations,
   imports, deletion loops and faults and every relation between them. *)
THEOREM FilesFollowAlways ==
    ASSUME ConstantsOK
    PROVE  Spec => []FilesFollowTheRows
<1>1. FilesInv => FilesFollowTheRows
    BY FilesInvFollows
<1> QED BY <1>1, OutboxKept, PTL

-----------------------------------------------------------------------------
(***************************************************************************)
(* For any number of monitors and targets: no report replaces that of a    *)
(* newer check.  What has to be known of every state is that a claim the   *)
(* row has outlived is not the one the row names: the lease passes only to *)
(* a monitor that starts anew, and such a monitor is neither late nor      *)
(* remembered by anybody as an older claim.                                *)
(***************************************************************************)
(* Claims that count as late or older are open, and none of the late ones
   holds the lease. *)
Overtaken ==
    /\ late \subseteq CN!Open
    /\ \A m \in Monitors : older[m] \subseteq CN!Open
    /\ lease \notin late

(* What a step may do to the verdict in the row. *)
Stands ==
    \A m \in Monitors : m \in late /\ probe'[m] # probe[m] => shown' = shown /\ failures' = failures

(* connectivityReport finds the worst status of the targets. *)
LEMMA WorstStatus ==
    ASSUME CN!ConstantsOK
    PROVE  CN!connectivityReport([t \in Targets |-> IF t \in up THEN "reachable" ELSE "unreachable"]) \in CN!Statuses
<1> DEFINE st == [t \in Targets |-> IF t \in up THEN "reachable" ELSE "unreachable"]
<1>1. \E s \in CN!Statuses : /\ s \in {st[t] : t \in Targets}
                             /\ \A t \in Targets : CN!Priority[st[t]] <= CN!Priority[s]
    <2>1. CASE Targets \subseteq up
        <3>1. \A t \in Targets : st[t] = "reachable"
            BY <2>1
        <3> QED BY <3>1 DEF CN!ConstantsOK, CN!Statuses, CN!Priority
    <2>2. CASE \E t \in Targets : t \notin up
        <3>1. PICK t \in Targets : st[t] = "unreachable"
            BY <2>2
        <3>2. \A u \in Targets : st[u] \in {"reachable", "unreachable"}
            OBVIOUS
        <3>3. \A u \in Targets : CN!Priority[st[u]] <= CN!Priority["unreachable"]
            BY <3>2 DEF CN!Priority
        <3> HIDE DEF st
        <3> QED BY <3>1, <3>3 DEF CN!Statuses
    <2> QED BY <2>1, <2>2
<1> HIDE DEF st
<1>2. CN!connectivityReport(st) \in CN!Statuses
    BY <1>1 DEF CN!connectivityReport
<1> QED BY <1>2 DEF st

(* Every step of a monitor, of time and of the targets keeps the types. *)
LEMMA TypesKept ==
    ASSUME CN!ConstantsOK, CN!TypeOK, [CN!Next]_(CN!vars)
    PROVE  CN!TypeOK'
<1> USE DEF CN!TypeOK, CN!ConstantsOK
<1>1. CASE UNCHANGED CN!vars
    BY <1>1 DEF CN!vars
<1>2. ASSUME NEW m \in Monitors, CN!Monitor(m) \/ CN!ProbeGoesWrong(m) \/ CN!Crash(m)
      PROVE  CN!TypeOK'
    <2>1. CASE CN!ClaimConnectivityCheck(m)
        BY <2>1 DEF CN!ClaimConnectivityCheck, CN!Open
    <2>2. CASE CN!probeResource(m)
        <3>1. probe'[m] \in CN!Statuses
            BY <2>2, WorstStatus DEF CN!probeResource
        <3>2. probe' = [probe EXCEPT ![m] = probe'[m]]
            BY <2>2 DEF CN!probeResource
        <3> QED BY <2>2, <3>1, <3>2 DEF CN!probeResource
    <2>3. CASE CN!SaveConnectivity(m)
        BY <2>3 DEF CN!SaveConnectivity, CN!EndClaim, CN!Statuses
    <2>4. CASE CN!ProbeGoesWrong(m)
        BY <2>4 DEF CN!ProbeGoesWrong, CN!Statuses
    <2>5. CASE CN!Crash(m)
        BY <2>5 DEF CN!Crash, CN!EndClaim
    <2> QED BY <1>2, <2>1, <2>2, <2>3, <2>4, <2>5 DEF CN!Monitor
<1>3. CASE CN!NextCheck
    BY <1>3 DEF CN!NextCheck
<1>4. ASSUME NEW t \in Targets, CN!Change(t)
      PROVE  CN!TypeOK'
    BY <1>4 DEF CN!Change
<1> QED BY <1>1, <1>2, <1>3, <1>4 DEF CN!Next

(* A claim is overtaken only by claims that were made after it, and ending
   a claim removes it from the record of every other. *)
LEMMA OvertakenKept ==
    ASSUME CN!ConstantsOK, CN!TypeOK, Overtaken, [CN!Next]_(CN!vars)
    PROVE  Overtaken' /\ Stands
<1> USE DEF CN!TypeOK, Overtaken, CN!Open, Stands
<1>1. CASE UNCHANGED CN!vars
    BY <1>1 DEF CN!vars
<1>2. ASSUME NEW m \in Monitors, CN!Monitor(m) \/ CN!ProbeGoesWrong(m) \/ CN!Crash(m)
      PROVE  Overtaken' /\ Stands
    <2>1. CASE CN!ClaimConnectivityCheck(m)
        BY <2>1 DEF CN!ClaimConnectivityCheck
    <2>2. CASE CN!probeResource(m)
        <3>1. \A n \in Monitors \ {m} : probe'[n] = probe[n]
            BY <2>2 DEF CN!probeResource
        <3>2. m \in CN!Open /\ UNCHANGED <<older, late, lease, shown, failures>>
            BY <2>2 DEF CN!probeResource
        <3>3. probe'[m] # "idle"
            BY <2>2, WorstStatus DEF CN!probeResource, CN!Statuses
        <3> QED BY <3>1, <3>2, <3>3
    <2>3. CASE CN!SaveConnectivity(m)
        BY <2>3 DEF CN!SaveConnectivity, CN!EndClaim, CN!Statuses
    <2>4. CASE CN!ProbeGoesWrong(m)
        BY <2>4 DEF CN!ProbeGoesWrong
    <2>5. CASE CN!Crash(m)
        BY <2>5 DEF CN!Crash, CN!EndClaim
    <2> QED BY <1>2, <2>1, <2>2, <2>3, <2>4, <2>5 DEF CN!Monitor
<1>3. CASE CN!NextCheck
    BY <1>3 DEF CN!NextCheck
<1>4. ASSUME NEW t \in Targets, CN!Change(t)
      PROVE  Overtaken' /\ Stands
    BY <1>4 DEF CN!Change
<1> QED BY <1>1, <1>2, <1>3, <1>4 DEF CN!Next

(* The row, the probes and the record of the claims keep their types,
   whatever crashes, stalls or goes wrong. *)
THEOREM ConnectivityTypes ==
    ASSUME CN!ConstantsOK
    PROVE  CN!Spec => []CN!TypeOK
<1>1. CN!Init => CN!TypeOK
    BY DEF CN!Init, CN!TypeOK, CN!ConstantsOK, CN!Statuses
<1>2. CN!TypeOK /\ [CN!Next]_(CN!vars) => CN!TypeOK'
    BY TypesKept
<1> QED BY <1>1, <1>2, PTL DEF CN!Spec

(* The lease in the row is never that of a claim whose verdict a newer one
   has replaced (ClaimConnectivityCheck, SaveConnectivity). *)
THEOREM OvertakenAlways ==
    ASSUME CN!ConstantsOK
    PROVE  CN!Spec => [](CN!TypeOK /\ Overtaken)
<1>1. CN!Init => CN!TypeOK /\ Overtaken
    BY DEF CN!Init, CN!TypeOK, CN!ConstantsOK, CN!Statuses, Overtaken
<1>2. CN!TypeOK /\ Overtaken /\ [CN!Next]_(CN!vars) => (CN!TypeOK /\ Overtaken)'
    BY TypesKept, OvertakenKept
<1> QED BY <1>1, <1>2, PTL DEF CN!Spec

(* NewestVerdictStands for every number of monitors and targets: a probe
   that outlived its claim never brings an old verdict back. *)
THEOREM NewestVerdictAlways ==
    ASSUME CN!ConstantsOK
    PROVE  CN!Spec => CN!NewestVerdictStands
<1>1. CN!TypeOK /\ Overtaken /\ [CN!Next]_(CN!vars) => [Stands]_(CN!vars)
    BY OvertakenKept
<1> QED BY <1>1, OvertakenAlways, PTL DEF CN!Spec, CN!NewestVerdictStands, Stands

-----------------------------------------------------------------------------
(***************************************************************************)
(* The loops side by side, as MCUpkeep runs them: one of them moves in a   *)
(* behaviour.  They count their faults together, so of the one that rests  *)
(* only what does not depend on that count is kept.                        *)
(***************************************************************************)
UpkeepInv ==
    /\ part = "files" => FilesInv
    /\ part # "files" => FilesFollowTheRows
    /\ part = "probes" => CN!TypeOK /\ Overtaken

(* A step is one of the part that moves, or of none. *)
LEMMA UpkeepStep ==
    ASSUME [UpkeepNext]_upkeep
    PROVE  /\ part' = part
           /\ part = "files" => [Next]_vars
           /\ part # "files" => UNCHANGED files
           /\ part = "probes" => [CN!Next]_(CN!vars)
           /\ part # "probes" => UNCHANGED probes
BY DEF UpkeepNext, Files, Probes, Places, upkeep, files, probes, placement, vars, CN!vars

(* Nothing is stored and nothing has been probed when the loops start. *)
LEMMA UpkeepInvInit ==
    ASSUME UpkeepInit
    PROVE  UpkeepInv
<1>1. FilesInv /\ FilesFollowTheRows
    BY InstancesOK, FilesInvInit, FilesInvFollows DEF UpkeepInit
<1>2. CN!TypeOK /\ Overtaken
    BY InstancesOK DEF UpkeepInit, CN!Init, CN!TypeOK, CN!ConstantsOK, CN!Statuses, Overtaken
<1> QED BY <1>1, <1>2 DEF UpkeepInv

(* Each loop keeps its own invariant and disturbs no other. *)
LEMMA UpkeepInvNext ==
    ASSUME UpkeepInv, [UpkeepNext]_upkeep
    PROVE  UpkeepInv'
<1>1. part' = "files" => FilesInv'
    BY InstancesOK, UpkeepStep, FilesInvNext DEF UpkeepInv
<1>2. part' # "files" => FilesFollowTheRows'
    BY UpkeepStep DEF UpkeepInv, files, FilesFollowTheRows, Existing, Inputs
<1>3. part' = "probes" => CN!TypeOK' /\ Overtaken'
    BY InstancesOK, UpkeepStep, TypesKept, OvertakenKept DEF UpkeepInv
<1> QED BY <1>1, <1>2, <1>3 DEF UpkeepInv

(* The invariants of the loops, for every value of the constants that the
   instances may have. *)
THEOREM UpkeepKept ==
    UpkeepSpec => []UpkeepInv
<1>1. UpkeepInit => UpkeepInv
    BY UpkeepInvInit
<1>2. UpkeepInv /\ [UpkeepNext]_upkeep => UpkeepInv'
    BY UpkeepInvNext
<1> QED BY <1>1, <1>2, PTL DEF UpkeepSpec

(* FilesFollowTheRows in every behaviour of the loops. *)
THEOREM UpkeepFilesFollow ==
    UpkeepSpec => []FilesFollowTheRows
<1>1. UpkeepInv => FilesFollowTheRows
    BY InstancesOK, FilesInvFollows DEF UpkeepInv
<1> QED BY <1>1, UpkeepKept, PTL

(* NewestVerdictStands in every behaviour of the loops: a probe that
   outlived its claim never brings an old verdict back
   (ClaimConnectivityCheck, SaveConnectivity). *)
THEOREM UpkeepNewestVerdict ==
    UpkeepSpec => NewestVerdictStands
<1>1. UpkeepInv /\ [UpkeepNext]_upkeep => [Stands]_(CN!vars)
    <2>1. ASSUME UpkeepInv, [UpkeepNext]_upkeep, part = "probes"
          PROVE  Stands
        BY <2>1, InstancesOK, UpkeepStep, OvertakenKept DEF UpkeepInv
    <2>2. ASSUME [UpkeepNext]_upkeep, part # "probes"
          PROVE  Stands
        BY <2>2, UpkeepStep DEF probes, Stands
    <2> QED BY <2>1, <2>2
<1> QED BY <1>1, UpkeepKept, PTL DEF UpkeepSpec, NewestVerdictStands, CN!NewestVerdictStands, Stands
=============================================================================
