------------------------------- MODULE Outbox -------------------------------
(***************************************************************************)
(* The files of operations and the outbox of their deletions:              *)
(* internal/storage/experiment_deletion.go, artifact_deletions.go and the  *)
(* import of an archive in transfer.go.                                    *)
(*                                                                         *)
(* Files live in an object store that knows no transactions.  A deletion   *)
(* removes rows and queues the directories of the operations in one        *)
(* transaction; workers remove the queued directories later and forget the *)
(* key in the transaction in which they locked it.  An import queues its   *)
(* directories an hour ahead before it writes them and takes them off the  *)
(* queue in the transaction that creates the rows.                         *)
(***************************************************************************)
EXTENDS Integers, FiniteSets

CONSTANTS
    Experiments, Runs, Ops, Imports,
    Trials,      \* experiment |-> runs that are trials of it
    Owns,        \* run |-> operations of its stages and of their cleanups
    Feeds,       \* operation |-> operations that read its artifacts
    Pinned,      \* operations the ledger, a figure or a catalog refers to
    Workers,     \* worker processes, each with one deletion loop
    BatchSize,   \* keys of one batch (LIMIT 20)
    MaxFaults    \* failed removals, crashes of workers and failed imports

Keys == Ops \cup Imports   \* a directory is named after its operation

(* What the other definitions rely on: an import has a directory of its own. *)
ConstantsOK ==
    /\ Trials \in [Experiments -> SUBSET Runs]
    /\ Owns \in [Runs -> SUBSET Ops]
    /\ Feeds \in [Ops -> SUBSET Ops]
    /\ Ops \cap Imports = {}
    /\ MaxFaults \in Nat

VARIABLES
    experiments,  \* experiments that exist
    run,          \* run and its pipeline |-> "none", "active", "final" or "gone"
    op,           \* operation |-> "none", "active", "final" or "gone"
    artifact,     \* directories whose files have rows
    stored,       \* directories with files in the object store
    queue,        \* key |-> "absent", "due" or "later" (retry_after)
    batch,        \* worker |-> key |-> "locked", "removed" or "failed"
    import,       \* import |-> "idle", "registered", "written" or "done"
    faults

vars == <<experiments, run, op, artifact, stored, queue, batch, import, faults>>

Existing == {o \in Ops : op[o] \in {"active", "final"}}
Empty == [k \in {} |-> "locked"]

TypeOK ==
    /\ experiments \subseteq Experiments
    /\ run \in [Runs -> {"none", "active", "final", "gone"}]
    /\ op \in [Ops -> {"none", "active", "final", "gone"}]
    /\ artifact \subseteq Keys /\ stored \subseteq Keys
    /\ queue \in [Keys -> {"absent", "due", "later"}]
    /\ \A w \in Workers : /\ DOMAIN batch[w] \subseteq Keys
                          /\ \A k \in DOMAIN batch[w] : batch[w][k] \in {"locked", "removed", "failed"}
    /\ import \in [Imports -> {"idle", "registered", "written", "done"}]
    /\ faults \in 0 .. MaxFaults

Init ==
    /\ experiments = Experiments
    /\ run = [r \in Runs |-> "none"]
    /\ op = [o \in Ops |-> "none"]
    /\ artifact = {} /\ stored = {}
    /\ queue = [k \in Keys |-> "absent"]
    /\ batch = [w \in Workers |-> Empty]
    /\ import = [i \in Imports |-> "idle"]
    /\ faults = 0

(***************************************************************************)
(* A pipeline names the artifacts it takes from elsewhere, which must be   *)
(* there when it is saved; those of its own stages are put in when the     *)
(* stage starts.  Operations write first the file, then its row.           *)
(***************************************************************************)
Inputs(o) == {i \in Ops : o \in Feeds[i]}
External(r) == (UNION {Inputs(o) : o \in Owns[r]}) \ Owns[r]
Present == {r \in Runs : run[r] \in {"active", "final"}}

CreatePipeline(r) ==
    /\ run[r] = "none" /\ \E x \in experiments : r \in Trials[x]
    /\ \A i \in External(r) : i \in artifact /\ op[i] = "final"
    /\ run' = [run EXCEPT ![r] = "active"]
    /\ UNCHANGED <<experiments, op, artifact, stored, queue, batch, import, faults>>

CreateOperation(o) ==
    /\ op[o] = "none"
    /\ \E r \in Runs : o \in Owns[r] /\ run[r] = "active" /\ Inputs(o) \cap Owns[r] \subseteq artifact
    /\ op' = [op EXCEPT ![o] = "active"]
    /\ UNCHANGED <<experiments, run, artifact, stored, queue, batch, import, faults>>

PutOutput(o) ==
    /\ op[o] = "active" /\ o \notin stored
    /\ stored' = stored \cup {o}
    /\ UNCHANGED <<experiments, run, op, artifact, queue, batch, import, faults>>

CreateArtifact(o) ==
    /\ op[o] = "active" /\ o \in stored \ artifact
    /\ artifact' = artifact \cup {o}
    /\ UNCHANGED <<experiments, run, op, stored, queue, batch, import, faults>>

(* An operation also ends without its outputs or between file and row.     *)
SettleOperation(o) ==
    /\ op[o] = "active"
    /\ op' = [op EXCEPT ![o] = "final"]
    /\ UNCHANGED <<experiments, run, artifact, stored, queue, batch, import, faults>>

CompleteRun(r) ==
    /\ run[r] = "active"
    /\ \A o \in Owns[r] : op[o] # "active"
    /\ run' = [run EXCEPT ![r] = "final"]
    /\ UNCHANGED <<experiments, op, artifact, stored, queue, batch, import, faults>>

(***************************************************************************)
(* Deletion                                                                *)
(***************************************************************************)

(* Mutant: the candidates are thinned out once.                            *)
RemovableOnce(candidates, remaining) ==
    {o \in candidates :
        /\ \A r \in remaining : o \notin Owns[r] \cup External(r)
        /\ o \notin Pinned
        /\ Feeds[o] \cap Existing \subseteq candidates}

(* Operations that may go: no other run has them as a stage, no pipeline   *)
(* names their artifacts, nothing else refers to them, and whoever reads   *)
(* their artifacts goes with them.  The loop that thins the candidates out *)
(* ends with the largest such set.  The pipeline of a trial was generated  *)
(* for it and goes with its run.                                           *)
Removable(candidates, remaining) ==
    UNION {S \in SUBSET candidates : \A o \in S :
              /\ \A r \in remaining : o \notin Owns[r] \cup External(r)
              /\ o \notin Pinned
              /\ Feeds[o] \cap Existing \subseteq S}

deleteExperimentRuns(requested, kept) ==
    LET runs == {r \in requested \cap Present : \A x \in kept : r \notin Trials[x]}
        candidates == (UNION {Owns[r] : r \in runs}) \cap Existing
        remaining == Present \ runs
        removed == Removable(candidates, remaining)
    IN  /\ \A r \in runs : run[r] = "final"
        /\ \A o \in candidates : op[o] = "final"
        /\ run' = [r \in Runs |-> IF r \in runs THEN "gone" ELSE run[r]]
        /\ queue' = [k \in Keys |-> IF k \in removed /\ queue[k] = "absent" THEN "due" ELSE queue[k]]
        /\ artifact' = artifact \ removed
        /\ op' = [o \in Ops |-> IF o \in removed THEN "gone" ELSE op[o]]

DeleteExperiment(x) ==
    /\ x \in experiments
    /\ experiments' = experiments \ {x}
    /\ deleteExperimentRuns(Trials[x], experiments \ {x})
    /\ UNCHANGED <<stored, batch, import, faults>>

(* Runs that lost their experiment are removed by a maintenance command.   *)
PurgeOrphanedExperimentHistory ==
    LET orphans == {r \in Runs : run[r] = "final" /\ \A x \in experiments : r \notin Trials[x]}
    IN  /\ orphans # {}
        /\ deleteExperimentRuns(orphans, experiments)
        /\ UNCHANGED <<experiments, stored, batch, import, faults>>

(***************************************************************************)
(* The deletion loop of a worker: one transaction over a batch             *)
(***************************************************************************)
Locked == UNION {DOMAIN batch[w] : w \in Workers}

(* Mutant: only full batches are taken.                                    *)
TakeFullBatch(w) ==
    LET due == {k \in Keys : queue[k] = "due"} \ Locked IN
    /\ batch[w] = Empty
    /\ \E keys \in SUBSET due :
          /\ Cardinality(keys) = BatchSize
          /\ batch' = [batch EXCEPT ![w] = [k \in keys |-> "locked"]]
    /\ UNCHANGED <<experiments, run, op, artifact, stored, queue, import, faults>>

(* FOR UPDATE SKIP LOCKED.                                                 *)
TakeKeys(w) ==
    LET due == {k \in Keys : queue[k] = "due"} \ Locked IN
    /\ batch[w] = Empty /\ due # {}
    /\ \E keys \in SUBSET due :
          /\ Cardinality(keys) = IF Cardinality(due) < BatchSize THEN Cardinality(due) ELSE BatchSize
          /\ batch' = [batch EXCEPT ![w] = [k \in keys |-> "locked"]]
    /\ UNCHANGED <<experiments, run, op, artifact, stored, queue, import, faults>>

(* A directory that is already gone counts as removed.                     *)
RemoveFiles(w, k) ==
    /\ k \in DOMAIN batch[w] /\ batch[w][k] = "locked"
    /\ stored' = stored \ {k}
    /\ batch' = [batch EXCEPT ![w][k] = "removed"]
    /\ UNCHANGED <<experiments, run, op, artifact, queue, import, faults>>

(* The filer fails or its answer is lost.                                  *)
RemoveFails(w, k) ==
    /\ k \in DOMAIN batch[w] /\ batch[w][k] = "locked"
    /\ faults < MaxFaults
    /\ stored' \in {stored, stored \ {k}}
    /\ batch' = [batch EXCEPT ![w][k] = "failed"]
    /\ faults' = faults + 1
    /\ UNCHANGED <<experiments, run, op, artifact, queue, import>>

ProcessArtifactDeletions(w) ==
    /\ batch[w] # Empty
    /\ \A k \in DOMAIN batch[w] : batch[w][k] # "locked"
    /\ queue' = [k \in Keys |-> IF k \notin DOMAIN batch[w] THEN queue[k]
                                ELSE IF batch[w][k] = "removed" THEN "absent" ELSE "later"]
    /\ batch' = [batch EXCEPT ![w] = Empty]
    /\ UNCHANGED <<experiments, run, op, artifact, stored, import, faults>>

(* The worker dies or its transaction fails: the keys are free again, the  *)
(* files that were removed are not back.                                   *)
CrashWorker(w) ==
    /\ batch[w] # Empty /\ faults < MaxFaults
    /\ batch' = [batch EXCEPT ![w] = Empty]
    /\ faults' = faults + 1
    /\ UNCHANGED <<experiments, run, op, artifact, stored, queue, import>>

(* retry_after passes.  That of an import passes after the import: it has  *)
(* five minutes, its keys are an hour ahead.                               *)
RetryAfter(k) ==
    /\ queue[k] = "later"
    /\ k \in Imports => import[k] \notin {"registered", "written"}
    /\ queue' = [queue EXCEPT ![k] = "due"]
    /\ UNCHANGED <<experiments, run, op, artifact, stored, batch, import, faults>>

(***************************************************************************)
(* An import of an archive                                                 *)
(***************************************************************************)
RegisterCleanup(i) ==
    /\ import[i] = "idle"
    /\ import' = [import EXCEPT ![i] = "registered"]
    /\ queue' = [queue EXCEPT ![i] = "later"]
    /\ UNCHANGED <<experiments, run, op, artifact, stored, batch, faults>>

WriteObjects(i) ==
    /\ import[i] = "registered"
    /\ import' = [import EXCEPT ![i] = "written"]
    /\ stored' = stored \cup {i}
    /\ UNCHANGED <<experiments, run, op, artifact, queue, batch, faults>>

CommitImport(i) ==
    /\ import[i] = "written"
    /\ import' = [import EXCEPT ![i] = "done"]
    /\ artifact' = artifact \cup {i}
    /\ queue' = [queue EXCEPT ![i] = "absent"]
    /\ UNCHANGED <<experiments, run, op, stored, batch, faults>>

(* The import fails, having written some files: its keys are due at once,  *)
(* or after an hour when the server died or that statement failed as well. *)
FailImport(i) ==
    /\ import[i] \in {"registered", "written"} /\ faults < MaxFaults
    /\ import' = [import EXCEPT ![i] = "done"]
    /\ stored' \in {stored, stored \cup {i}}
    /\ queue' \in {queue, [queue EXCEPT ![i] = "due"]}
    /\ faults' = faults + 1
    /\ UNCHANGED <<experiments, run, op, artifact, batch>>

DeletionLoop(w) ==
    \/ TakeKeys(w)
    \/ \E k \in Keys : RemoveFiles(w, k)
    \/ ProcessArtifactDeletions(w)

Next ==
    \/ \E o \in Ops : CreateOperation(o) \/ PutOutput(o) \/ CreateArtifact(o) \/ SettleOperation(o)
    \/ \E r \in Runs : CreatePipeline(r) \/ CompleteRun(r)
    \/ \E x \in Experiments : DeleteExperiment(x)
    \/ PurgeOrphanedExperimentHistory
    \/ \E w \in Workers : DeletionLoop(w) \/ CrashWorker(w) \/ \E k \in Keys : RemoveFails(w, k)
    \/ \E k \in Keys : RetryAfter(k)
    \/ \E i \in Imports : RegisterCleanup(i) \/ WriteObjects(i) \/ CommitImport(i) \/ FailImport(i)

(* The loop of a worker never stops, time passes, and an import ends.      *)
Fairness ==
    /\ \A w \in Workers : WF_vars(DeletionLoop(w))
    /\ \A k \in Keys : WF_vars(RetryAfter(k))
    /\ \A i \in Imports : WF_vars(WriteObjects(i) \/ CommitImport(i))

Spec == Init /\ [][Next]_vars /\ Fairness

(***************************************************************************)
(* Properties                                                              *)
(***************************************************************************)

(* No file is forgotten and none is missed: whatever crashed, a directory  *)
(* in the object store belongs to an operation that exists or is queued    *)
(* for removal; an operation that stays can read everything it was made    *)
(* from, and an import that succeeded keeps its files.                     *)
FilesFollowTheRows ==
    /\ \A k \in stored : k \in Existing \/ k \in artifact \/ queue[k] # "absent"
    /\ \A o \in Existing : Inputs(o) \subseteq artifact
    /\ artifact \subseteq stored

(* Every queued directory is removed in the end, or belongs to an import   *)
(* that succeeded.                                                         *)
QueueDrains ==
    \A k \in Keys : queue[k] # "absent" ~> queue[k] = "absent"

=============================================================================
