------------------------------ MODULE Admission ------------------------------
(***************************************************************************)
(* Which pipeline run may run when: internal/storage/pipelines.go          *)
(* (ClaimPipelineRun and the transactions that end a run), the triggers    *)
(* and the unique index on pipeline_runs and managed_resources             *)
(* (migrations 036, 044, 053 and 054), and the requests that compete with  *)
(* a claim: creating and canceling experiments, deploying and removing     *)
(* applications, recreating and deleting clusters, retrying a cleanup.     *)
(*                                                                         *)
(* A claim is one SQL statement but two steps.  Its candidate query judges *)
(* the other rows by the snapshot taken when the statement starts and      *)
(* locks the row it picks; the triggers run later, under the locks they    *)
(* take, on what has been committed by then.  Whatever happens between the *)
(* two is the race the triggers are for.                                   *)
(*                                                                         *)
(* How a claimed run is executed is the business of module PipelineRuns:   *)
(* here a coordinator holds it, and completes, fails or releases it.       *)
(***************************************************************************)
EXTENDS Naturals, Sequences, FiniteSets

CONSTANTS
    Coordinators,   \* processes that run the coordinator loop
    Runs,           \* ids of pipeline runs, each created at most once
    Clusters,       \* managed resources of kind kubernetes-cluster
    Deployments,    \* managed resources of kind application-deployment
    None,           \* SQL NULL: no run, no owner, no cluster, no namespace
    Kind,           \* what a run is for
    Resource,       \* the managed resource a lifecycle run works on
    Cluster,        \* cluster_resource_id of a run
    Owner,          \* owner_user_id of a run
    Namespace,      \* application_namespace of a run
    Exclusive,      \* isolation_mode = 'exclusive'
    Home,           \* the cluster a deployment is installed on
    Space,          \* the namespace a deployment is installed in
    Experiments     \* each the sequence of its trials' runs, by position

Kinds == {"experiment", "deployment", "removal", "recreation", "deletion"}
Resources == Clusters \cup Deployments
Terminal == {"succeeded", "failed", "canceled"}
Statuses == {"absent", "queued", "running"} \cup Terminal

(***************************************************************************)
(* A lifecycle run of a deployment carries the cluster and the namespace   *)
(* of the deployment; a lifecycle run of a cluster carries neither, nor an *)
(* owner (pipelineRunForManagedPipeline).  A deployment without namespace  *)
(* is refused (migration 054:22).  Trials of an experiment have one owner, *)
(* and a run is that of one trial only: each is inserted with a new id.    *)
(***************************************************************************)
ASSUME AdmissionAssumption ==
    /\ None \notin Runs \cup Resources \cup Coordinators
    /\ Clusters \cap Deployments = {}
    /\ Kind \in [Runs -> Kinds]
    /\ Home \in [Deployments -> Clusters]
    /\ \A d \in Deployments : Space[d] # None
    /\ Exclusive \in [Runs -> BOOLEAN]
    /\ Cluster \in [Runs -> Clusters \cup {None}]
    /\ \A r \in Runs : Kind[r] \in {"deployment", "removal"} =>
          /\ Resource[r] \in Deployments
          /\ Cluster[r] = Home[Resource[r]]
          /\ Namespace[r] = Space[Resource[r]]
          /\ ~Exclusive[r]
    /\ \A r \in Runs : Kind[r] \in {"recreation", "deletion"} =>
          /\ Resource[r] \in Clusters
          /\ Cluster[r] = None
          /\ Owner[r] = None
          /\ Namespace[r] = None
    /\ \A r \in Runs : Kind[r] = "experiment" =>
          Cluster[r] # None /\ Owner[r] # None
    /\ Experiments \subseteq Seq(Runs)
    /\ \A e \in Experiments : \A i \in 1..Len(e) :
          /\ Kind[e[i]] = "experiment" /\ Owner[e[i]] = Owner[e[1]]
          /\ \A f \in Experiments : \A j \in 1..Len(f) : e[i] = f[j] => e = f /\ i = j

VARIABLES
    status,       \* pipeline_runs.status, "absent" before the insert
    lease,        \* None once lease_until has passed; before, the coordinator
                  \* that works under the lease, or "unattended"
    due,          \* runs whose scheduled_for has passed, in its order
    dirty,        \* runs with a cleanup row that failed
    trial,        \* experiment_trials.status of the run's trial
    experiment,   \* experiments.status: "active" stands for what may be canceled
    resource,     \* the rows of managed_resources
    configured,   \* clusters an experiment configuration refers to
    requested,    \* deletion requests between their checks and their commit
    coordinator   \* what each coordinator is doing, and to which run

vars == <<status, lease, due, dirty, trial, experiment, resource, configured,
          requested, coordinator>>
runVars == <<status, lease, due, dirty, trial, experiment>>
trialVars == <<trial, experiment>>
apiVars == <<configured, requested>>

Idle == [phase |-> "idle", run |-> None]
At(phase, r) == [phase |-> phase, run |-> r]

(* What is left of a tick is the sync of the run's trial, if it has one. *)
TickEnds(r) == IF Kind[r] = "experiment" THEN At("syncing", r) ELSE Idle

(* Clusters have been provisioned; nothing has been submitted yet.         *)
Init ==
    /\ status = [r \in Runs |-> "absent"]
    /\ lease = [r \in Runs |-> None]
    /\ due = <<>>
    /\ dirty = {}
    /\ trial = [r \in Runs |-> "absent"]
    /\ experiment = [e \in Experiments |-> "absent"]
    /\ resource = [x \in Resources |->
          [present |-> x \in Clusters, run |-> None, recreation |-> None,
           deletion |-> None, deleted |-> FALSE]]
    /\ configured = Clusters
    /\ requested = {}
    /\ coordinator = [c \in Coordinators |-> Idle]

-----------------------------------------------------------------------------
(* What the queries and the triggers look at. *)

StatusOf(r) == IF r = None THEN "none" ELSE status[r]

RunsOf(e) == {e[i] : i \in 1..Len(e)}
Earlier == [r \in Runs |-> {t \in Runs : \E e \in Experiments :
                               \E i, j \in 1..Len(e) : i < j /\ e[i] = t /\ e[j] = r}]
Later == [r \in Runs |-> {l \in Runs : r \in Earlier[l]}]

Others(r) == {a \in Runs \ {r} : status[a] = "running"}
SameOwner(r) == {a \in Others(r) : Owner[r] # None /\ Owner[a] = Owner[r]}
SameCluster(r) == {a \in Others(r) : Cluster[r] # None /\ Cluster[a] = Cluster[r]}
SameNamespace(r) == {a \in SameCluster(r) : Namespace[r] # None /\ Namespace[a] = Namespace[r]}

(* application_namespace_reserved: a deployment keeps its namespace until
   the run that removes it has succeeded; its own runs are let through. *)
Reserved(k, ns, own) ==
    \E d \in Deployments :
        /\ resource[d].present
        /\ Home[d] = k
        /\ Space[d] = ns
        /\ own # None => own \notin {resource[d].run, resource[d].deletion}
        /\ StatusOf(resource[d].deletion) # "succeeded"

(* The triggers on pipeline_runs, in the order PostgreSQL fires them, and
   the unique index on running runs. *)

(* Mutant: the trigger of migration 054 is not installed. *)
NamespaceGuardMissing(r) == TRUE

NamespaceGuard(r) ==
    Cluster[r] # None /\ Namespace[r] # None => ~Reserved(Cluster[r], Namespace[r], r)

MaintenanceGuard(r) ==
    Cluster[r] # None =>
        LET row == resource[Cluster[r]]
        IN  /\ row.present
            /\ ~row.deleted
            /\ row.recreation = None
            /\ row.deletion = None

(* Mutant: the trigger forgets the user. *)
ConcurrencyGuardPerCluster(r) ==
    status[r] # "running" => \A a \in SameCluster(r) : ~Exclusive[r] /\ ~Exclusive[a]

(* Mutant: the trigger forgets the cluster. *)
ConcurrencyGuardPerUser(r) == status[r] # "running" => SameOwner(r) = {}

ConcurrencyGuard(r) ==
    status[r] # "running" =>
        /\ SameOwner(r) = {}
        /\ \A a \in SameCluster(r) : ~Exclusive[r] /\ ~Exclusive[a]

UniqueNamespace(r) == SameNamespace(r) = {}

MayRun(r) ==
    NamespaceGuard(r) /\ MaintenanceGuard(r) /\ ConcurrencyGuard(r) /\ UniqueNamespace(r)

(* Mutant: the candidate query does not lock its row. *)
LockedNever(r) == FALSE

(* The row a claim has picked stays locked until the claim is decided. *)
Locked(r) == \E c \in Coordinators : coordinator[c] = At("claiming", r)

(* The WHERE clause of the candidate query. *)
Candidate(r) ==
    /\ status[r] \in {"queued", "running"}
    /\ \E i \in 1..Len(due) : due[i] = r
    /\ Namespace[r] # None => ~Reserved(Cluster[r], Namespace[r], r)
    /\ lease[r] = None
    /\ \A t \in Earlier[r] : trial[t] \in Terminal
    /\ SameOwner(r) = {}
    /\ \A a \in SameCluster(r) : ~Exclusive[r] /\ ~Exclusive[a] /\ a \notin SameNamespace(r)
    /\ ~Locked(r)

-----------------------------------------------------------------------------
(* The coordinators. *)

(* ORDER BY scheduled_for ... FOR UPDATE SKIP LOCKED LIMIT 1: the first
   candidate in due order, judged by this step's snapshot. *)
SelectCandidate(c) ==
    /\ coordinator[c] = Idle
    /\ \E i \in 1..Len(due) :
          /\ Candidate(due[i])
          /\ \A j \in 1..(i - 1) : ~Candidate(due[j])
          /\ coordinator' = [coordinator EXCEPT ![c] = At("claiming", due[i])]
    /\ UNCHANGED <<runVars, resource, apiVars>>

(* The UPDATE of the claim: the triggers accept the row. *)
ClaimPipelineRun(c) ==
    /\ coordinator[c].phase = "claiming"
    /\ LET r == coordinator[c].run
       IN  /\ MayRun(r)
           /\ status' = [status EXCEPT ![r] = "running"]
           /\ lease' = [lease EXCEPT ![r] = c]
           /\ coordinator' = [coordinator EXCEPT ![c] = At("working", r)]
    /\ UNCHANGED <<due, dirty, trialVars, resource, apiVars>>

(* A trigger or the index raises 23505: the statement is rolled back and
   the coordinator is told that nothing was found. *)
ClaimRefused(c) ==
    /\ coordinator[c].phase = "claiming"
    /\ ~MayRun(coordinator[c].run)
    /\ coordinator' = [coordinator EXCEPT ![c] = Idle]
    /\ UNCHANGED <<runVars, resource, apiVars>>

Owns(c) ==
    /\ coordinator[c].phase = "working"
    /\ lease[coordinator[c].run] = c
    /\ status[coordinator[c].run] = "running"

(* The end of a tick that settles nothing: the lease is given up and the run
   put off by the poll interval. *)
ReleasePipelineRun(c) ==
    /\ Owns(c)
    /\ LET r == coordinator[c].run
       IN  /\ lease' = [lease EXCEPT ![r] = "unattended"]
           /\ coordinator' = [coordinator EXCEPT ![c] = TickEnds(r)]
    /\ UNCHANGED <<status, due, dirty, trialVars, resource, apiVars>>

(* CompletePipelineRun: the resource a deletion run removed is marked
   deleted, a recreation run becomes the run of its resource. *)
CompletePipelineRun(c) ==
    /\ Owns(c)
    /\ LET r == coordinator[c].run
       IN  /\ status' = [status EXCEPT ![r] = "succeeded"]
           /\ lease' = [lease EXCEPT ![r] = None]
           /\ resource' = [x \in Resources |->
                 LET row == [resource[x] EXCEPT !.deleted = @ \/ resource[x].deletion = r]
                 IN  IF row.recreation = r /\ ~row.deleted
                       THEN [row EXCEPT !.run = r, !.recreation = None]
                       ELSE row]
           /\ coordinator' = [coordinator EXCEPT ![c] = TickEnds(r)]
    /\ UNCHANGED <<due, dirty, trialVars, apiVars>>

(* Mutant: the later trials are left queued. *)
FailPipelineRunAlone(c) ==
    /\ Owns(c)
    /\ \E left \in BOOLEAN :
         LET r == coordinator[c].run
         IN  /\ status' = [status EXCEPT ![r] = "failed"]
             /\ lease' = [lease EXCEPT ![r] = None]
             /\ dirty' = IF left /\ Kind[r] = "experiment" THEN dirty \cup {r} ELSE dirty
             /\ coordinator' = [coordinator EXCEPT ![c] = TickEnds(r)]
    /\ UNCHANGED <<due, trialVars, resource, apiVars>>

(* FailPipelineRun: the trials after this one are canceled with it.  The
   run may leave cleanups that failed behind.  A started run that is canceled
   ends here too; no query tells it from a failed one. *)
FailPipelineRun(c) ==
    /\ Owns(c)
    /\ \E left \in BOOLEAN :
         LET r == coordinator[c].run
             stopped == {l \in Later[r] : status[l] = "queued"}
         IN  /\ \A l \in stopped : ~Locked(l)
             /\ status' = [s \in Runs |-> IF s = r THEN "failed"
                                          ELSE IF s \in stopped THEN "canceled" ELSE status[s]]
             /\ lease' = [s \in Runs |-> IF s \in stopped \cup {r} THEN None ELSE lease[s]]
             /\ trial' = [s \in Runs |-> IF s \in stopped /\ trial[s] = "queued" THEN "canceled" ELSE trial[s]]
             /\ dirty' = IF left /\ Kind[r] = "experiment" THEN dirty \cup {r} ELSE dirty
             /\ coordinator' = [coordinator EXCEPT ![c] = TickEnds(r)]
    /\ UNCHANGED <<due, experiment, resource, apiVars>>

(* The deferred SyncExperimentPipelineRun of every tick: the trial takes over
   the status of its run, the experiment is over when all its trials are. *)
SyncExperimentPipelineRun(c) ==
    /\ coordinator[c].phase = "syncing"
    /\ LET r == coordinator[c].run
       IN  /\ trial' = [trial EXCEPT ![r] = status[r]]
           /\ experiment' = [e \in Experiments |->
                 IF r \notin RunsOf(e) THEN experiment[e]
                 ELSE IF \A t \in RunsOf(e) : trial'[t] \in Terminal THEN "over" ELSE "active"]
    /\ coordinator' = [coordinator EXCEPT ![c] = Idle]
    /\ UNCHANGED <<status, lease, due, dirty, resource, apiVars>>

(* The process stops between two statements: the lease of the run it was
   working on stays, and nobody works under it. *)
Crash(c) ==
    /\ coordinator[c] # Idle
    /\ coordinator' = [coordinator EXCEPT ![c] = Idle]
    /\ lease' = [r \in Runs |-> IF lease[r] = c THEN "unattended" ELSE lease[r]]
    /\ UNCHANGED <<status, due, dirty, trialVars, resource, apiVars>>

-----------------------------------------------------------------------------
(* Time. *)

(* scheduled_for, which the runs of an experiment share, comes: at once, or
   much later. *)
BecomesDue(e) ==
    /\ \E r \in RunsOf(e) : status[r] = "queued"
    /\ \A i \in 1..Len(due) : due[i] \notin RunsOf(e)
    /\ due' = due \o e
    /\ UNCHANGED <<status, lease, dirty, trialVars, resource, apiVars, coordinator>>

(* The poll interval of a released run, or the lease of a coordinator that
   crashed, runs out.  A coordinator that outlives its own lease is the
   subject of PipelineRuns: it either still owns the run, as if the lease
   had not lapsed, or its statements change nothing. *)
LeaseLapses(r) ==
    /\ lease[r] = "unattended"
    /\ lease' = [lease EXCEPT ![r] = None]
    /\ UNCHANGED <<status, due, dirty, trialVars, resource, apiVars, coordinator>>

-----------------------------------------------------------------------------
(* Experiments. *)

(* CreatePipelineExperiment: one transaction inserts every run; the
   maintenance trigger sees each insert. *)
CreatePipelineExperiment(e) ==
    /\ \A r \in RunsOf(e) : status[r] = "absent" /\ Cluster[r] \in configured /\ MaintenanceGuard(r)
    /\ status' = [r \in Runs |-> IF r \in RunsOf(e) THEN "queued" ELSE status[r]]
    /\ trial' = [r \in Runs |-> IF r \in RunsOf(e) THEN "queued" ELSE trial[r]]
    /\ experiment' = [experiment EXCEPT ![e] = "active"]
    /\ UNCHANGED <<lease, due, dirty, resource, apiVars, coordinator>>

(* RequestExperimentCancel: what has not started is canceled here; a
   running run is only asked to stop, which ends in FailPipelineRun. *)
RequestExperimentCancel(e) ==
    LET queued == {r \in RunsOf(e) : status[r] = "queued"}
        running == {r \in RunsOf(e) : status[r] = "running"}
    IN  /\ experiment[e] = "active"
        /\ queued # {}
        /\ \A r \in queued : ~Locked(r)
        /\ status' = [r \in Runs |-> IF r \in queued THEN "canceled" ELSE status[r]]
        /\ lease' = [r \in Runs |-> IF r \in queued THEN None ELSE lease[r]]
        /\ trial' = [r \in Runs |-> IF r \in queued /\ trial[r] = "queued" THEN "canceled" ELSE trial[r]]
        /\ experiment' = [experiment EXCEPT ![e] = IF running = {} THEN "over" ELSE "active"]
        /\ UNCHANGED <<due, dirty, resource, apiVars, coordinator>>

(* RetryExperimentCleanup: the run goes back to running, past every trigger
   of an update of status; its scheduled_for stays. *)
RetryExperimentCleanup(r) ==
    /\ r \in dirty
    /\ status[r] \in Terminal
    /\ ~ \E a \in Runs : Cluster[a] = Cluster[r] /\ status[a] \in {"queued", "running"}
    /\ MayRun(r)
    /\ status' = [status EXCEPT ![r] = "running"]
    /\ lease' = [lease EXCEPT ![r] = None]
    /\ dirty' = dirty \ {r}
    /\ UNCHANGED <<due, trialVars, resource, apiVars, coordinator>>

(* DeleteExperimentConfiguration: experiments created from it keep running. *)
DeleteExperimentConfiguration(k) ==
    /\ k \in configured
    /\ configured' = configured \ {k}
    /\ UNCHANGED <<runVars, resource, requested, coordinator>>

-----------------------------------------------------------------------------
(* Deployments and clusters. *)

NewRun(r, kind, x) == status[r] = "absent" /\ Kind[r] = kind /\ Resource[r] = x

(* insertPipelineLifecycle: a lifecycle run is scheduled for now. *)
InsertPipelineLifecycle(r) ==
    /\ status' = [status EXCEPT ![r] = "queued"]
    /\ due' = Append(due, r)

(* guard_application_deployment_namespace *)
NamespaceFree(d, own) ==
    /\ ~Reserved(Home[d], Space[d], own)
    /\ \A a \in Runs \ {own} :
          status[a] = "running" => Cluster[a] # Home[d] \/ Namespace[a] # Space[d]

(* CreateManagedPipelineResource *)
CreateApplicationDeployment(d, r) ==
    /\ NewRun(r, "deployment", d)
    /\ ~resource[d].present
    /\ MaintenanceGuard(r)
    /\ NamespaceFree(d, r)
    /\ InsertPipelineLifecycle(r)
    /\ resource' = [resource EXCEPT ![d] = [@ EXCEPT !.present = TRUE, !.run = r]]
    /\ UNCHANGED <<lease, dirty, trialVars, apiVars, coordinator>>

(* RetryApplicationDeployment *)
RetryApplicationDeployment(d, r) ==
    /\ NewRun(r, "deployment", d)
    /\ resource[d].present
    /\ ~resource[d].deleted
    /\ resource[d].deletion = None
    /\ StatusOf(resource[d].run) \in {"failed", "canceled"}
    /\ NamespaceFree(d, resource[d].run)
    /\ MaintenanceGuard(r)
    /\ InsertPipelineLifecycle(r)
    /\ resource' = [resource EXCEPT ![d].run = r]
    /\ UNCHANGED <<lease, dirty, trialVars, apiVars, coordinator>>

(* A row without a run stands for one whose creation run has succeeded. *)
CreationStatus(x) == IF resource[x].run = None THEN "succeeded" ELSE status[resource[x].run]

(* managedResourceState, for a row whose deletion run is del *)
ManagedResourceState(x, del) ==
    IF StatusOf(del) = "succeeded" THEN "deleted"
    ELSE IF StatusOf(del) \in {"failed", "canceled"} THEN "deletion-failed"
    ELSE IF StatusOf(del) \in {"queued", "running"} THEN "deleting"
    ELSE IF StatusOf(resource[x].recreation) \in {"failed", "canceled"} THEN "recreation-failed"
    ELSE IF resource[x].recreation # None THEN "recreating"
    ELSE IF CreationStatus(x) = "succeeded" THEN "ready"
    ELSE IF CreationStatus(x) \in {"failed", "canceled"} THEN "failed"
    ELSE "provisioning"

DeletionKind(x) == IF x \in Clusters THEN "deletion" ELSE "removal"

(* The checks of the delete handlers, on reads outside of the transaction
   that follows, and ResetFailedManagedResourceDeletion before them.  The ids
   of runs bound the number of requests. *)
RequestDeletion(x) ==
    LET before == ManagedResourceState(x, resource[x].deletion)
        deletion == IF before = "deletion-failed" THEN None ELSE resource[x].deletion
        deletable == ManagedResourceState(x, deletion) \in {"ready", "failed", "recreation-failed"}
    IN  /\ resource[x].present
        /\ x \notin requested
        /\ x \notin configured
        /\ deletable \/ before = "deletion-failed"
        /\ \E r \in Runs : NewRun(r, DeletionKind(x), x)
        /\ resource' = [resource EXCEPT ![x].deletion = deletion]
        /\ requested' = IF deletable THEN requested \cup {x} ELSE requested
        /\ UNCHANGED <<runVars, configured, coordinator>>

(* A consumer whose deletion has not succeeded. *)
Used(x) ==
    \E d \in Deployments : /\ Home[d] = x
                           /\ resource[d].present
                           /\ StatusOf(resource[d].deletion) # "succeeded"

(* Mutant: a removal does not wait for the installation. *)
MayDeleteEarly(x) == resource[x].present /\ resource[x].deletion = None /\ ~Used(x)

MayDelete(x) ==
    /\ resource[x].present
    /\ CreationStatus(x) \in Terminal
    /\ resource[x].deletion = None
    /\ ~Used(x)

(* CreateManagedPipelineResourceDeletion *)
CreateManagedResourceDeletion(x, r) ==
    /\ x \in requested
    /\ NewRun(r, DeletionKind(x), x)
    /\ MayDelete(x)
    /\ MaintenanceGuard(r)
    /\ InsertPipelineLifecycle(r)
    /\ resource' = [resource EXCEPT ![x].deletion = r]
    /\ requested' = requested \ {x}
    /\ UNCHANGED <<lease, dirty, trialVars, configured, coordinator>>

(* The transaction is refused, or there is nothing to remove: a failed
   deployment that changed nothing is dismissed instead. *)
DeletionRefused(x) ==
    /\ x \in requested
    /\ requested' = requested \ {x}
    /\ UNCHANGED <<runVars, resource, configured, coordinator>>

DismissFailedApplicationDeployment(d) ==
    /\ d \in requested
    /\ resource[d].present
    /\ resource[d].deletion = None
    /\ StatusOf(resource[d].run) \in {"failed", "canceled"}
    /\ resource' = [resource EXCEPT ![d] = [@ EXCEPT !.present = FALSE, !.run = None]]
    /\ requested' = requested \ {d}
    /\ UNCHANGED <<runVars, configured, coordinator>>

ClusterBusy(k) ==
    \/ \E r \in Runs : Cluster[r] = k /\ status[r] \in {"queued", "running"}
    \/ \E e \in Experiments : experiment[e] = "active" /\ \E r \in RunsOf(e) : Cluster[r] = k

(* createManagedResourceRecreation, for recreation, reconfiguration and the
   retry of a mesh *)
CreateManagedResourceRecreation(k, r) ==
    /\ NewRun(r, "recreation", k)
    /\ resource[k].present
    /\ ~resource[k].deleted
    /\ resource[k].deletion = None
    /\ StatusOf(resource[k].recreation) \in {"none", "failed", "canceled"}
    /\ CreationStatus(k) \in Terminal
    /\ ~ClusterBusy(k)
    /\ InsertPipelineLifecycle(r)
    /\ resource' = [resource EXCEPT ![k].recreation = r]
    /\ UNCHANGED <<lease, dirty, trialVars, apiVars, coordinator>>

-----------------------------------------------------------------------------
Coordinate(c) ==
    \/ SelectCandidate(c)
    \/ ClaimPipelineRun(c)
    \/ ClaimRefused(c)
    \/ ReleasePipelineRun(c)
    \/ CompletePipelineRun(c)
    \/ FailPipelineRun(c)
    \/ SyncExperimentPipelineRun(c)

Next ==
    \/ \E c \in Coordinators : Coordinate(c) \/ Crash(c)
    \/ \E r \in Runs : LeaseLapses(r) \/ RetryExperimentCleanup(r)
    \/ \E e \in Experiments : CreatePipelineExperiment(e) \/ BecomesDue(e) \/ RequestExperimentCancel(e)
    \/ \E k \in Clusters : DeleteExperimentConfiguration(k)
    \/ \E d \in Deployments, r \in Runs :
          CreateApplicationDeployment(d, r) \/ RetryApplicationDeployment(d, r)
    \/ \E d \in Deployments : DismissFailedApplicationDeployment(d)
    \/ \E x \in Resources : RequestDeletion(x) \/ DeletionRefused(x)
    \/ \E x \in Resources, r \in Runs : CreateManagedResourceDeletion(x, r)
    \/ \E k \in Clusters, r \in Runs : CreateManagedResourceRecreation(k, r)

Spec == Init /\ [][Next]_vars

(***************************************************************************)
(* A coordinator that lives keeps looping, and what it calls returns; time *)
(* passes.  Nobody has to submit, cancel or delete anything.               *)
(***************************************************************************)
Fairness ==
    /\ \A c \in Coordinators : WF_vars(Coordinate(c))
    /\ \A e \in Experiments : WF_vars(BecomesDue(e))
    /\ \A r \in Runs : WF_vars(LeaseLapses(r))

FairSpec == Spec /\ Fairness

-----------------------------------------------------------------------------
(* Type correctness of the rows and of what the coordinators remember: a
   coordinator that is not idle has a run, and the run it is claiming is one
   that could be claimed, for nobody else may change a locked row. *)
TypeOK ==
    /\ status \in [Runs -> Statuses]
    /\ lease \in [Runs -> Coordinators \cup {"unattended", None}]
    /\ due \in Seq(Runs)
    /\ dirty \subseteq Runs
    /\ trial \in [Runs -> Statuses]
    /\ experiment \in [Experiments -> {"absent", "active", "over"}]
    /\ resource \in [Resources -> [present : BOOLEAN, run : Runs \cup {None},
          recreation : Runs \cup {None}, deletion : Runs \cup {None}, deleted : BOOLEAN]]
    /\ configured \subseteq Clusters
    /\ requested \subseteq Resources
    /\ \A c \in Coordinators :
          \/ coordinator[c] = Idle
          \/ /\ coordinator[c].phase \in {"claiming", "working", "syncing"}
             /\ coordinator[c].run \in Runs
             /\ coordinator[c].phase = "claiming" =>
                   status[coordinator[c].run] \in {"queued", "running"}

(* A user has at most one running run, of whatever cluster, although two
   coordinators may pick runs of one user from snapshots in which neither is
   running (storage/pipelines.go:369, migration 036:56). *)
OneRunPerUser ==
    \A r, s \in Runs :
        /\ r # s
        /\ status[r] = "running"
        /\ status[s] = "running"
        /\ Owner[r] # None
        => Owner[r] # Owner[s]

(* Runs that run on one cluster at once are all namespaced and in different
   namespaces, also when one of them was started again to retry its cleanup
   (storage/pipelines.go:377, migrations 036:65 and 053:7). *)
ClusterIsolation ==
    \A r, s \in Runs :
        /\ r # s
        /\ status[r] = "running"
        /\ status[s] = "running"
        /\ Cluster[r] # None
        /\ Cluster[r] = Cluster[s]
        => /\ ~Exclusive[r]
           /\ Namespace[r] # None => Namespace[r] # Namespace[s]

(* In the namespace of a deployment nothing runs but the deployment's own
   run and the one that removes it, from its creation until its removal has
   succeeded, whether or not a removal failed or was reset in between
   (migration 054). *)
NamespaceKept ==
    \A d \in Deployments, r \in Runs :
        /\ resource[d].present
        /\ StatusOf(resource[d].deletion) # "succeeded"
        /\ status[r] = "running"
        /\ Cluster[r] = Home[d]
        /\ Namespace[r] = Space[d]
        => r \in {resource[d].run, resource[d].deletion}

(* A trial starts only when every earlier trial of its experiment has
   succeeded: the earlier run fails the later ones in its own transaction,
   before its trial row says that it is over (storage/pipelines.go:359, 698). *)
TrialsInOrder ==
    \A r \in Runs : status[r] \in {"running", "succeeded", "failed"} =>
        \A t \in Earlier[r] : status[t] = "succeeded"

(* Lifecycles of one resource never overlap.  A deployment is not installed
   and removed at the same time: its removal waits for its installation to
   end, and no new installation is queued once a removal is; and while a
   cluster is being recreated or reconfigured, or after that failed, no run
   of it is queued or running, although runs are admitted, claimed and
   started again by transactions that do not know of the recreation
   (storage/operations.go:374, :485, application_deployment_settings.go:18,
   migration 044). *)
LifecyclesApart ==
    /\ \A d \in Deployments :
          resource[d].present /\ StatusOf(resource[d].deletion) \in {"queued", "running", "succeeded"} =>
              StatusOf(resource[d].run) \in Terminal
    /\ \A k \in Clusters :
          resource[k].recreation # None =>
              \A r \in Runs : Cluster[r] = k => status[r] \notin {"queued", "running"}

(* "allowing other eligible runs to be followed" (docs/architecture.md:86):
   when some run passes both the candidate query and the triggers, sooner or
   later a coordinator follows a run, or no such run is left. *)
Followable(r) == Candidate(r) /\ MayRun(r)
EligibleRunsAreFollowed ==
    (\E r \in Runs : Followable(r)) ~>
        \/ \E c \in Coordinators : coordinator[c].phase = "working"
        \/ \A r \in Runs : ~Followable(r)

=============================================================================
