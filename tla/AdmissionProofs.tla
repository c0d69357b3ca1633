--------------------------- MODULE AdmissionProofs ---------------------------
(***************************************************************************)
(* For any number of coordinators, runs, users, clusters and namespaces:   *)
(* a user has at most one running run, and the runs of a cluster are kept  *)
(* apart.  The argument needs nothing of the candidate query, whose        *)
(* snapshot may be out of date: only that no step brings a run to running  *)
(* unless the triggers and the index accept it in that very step.          *)
(*                                                                         *)
(* From the types of all columns and how runs may move, Admitted follows:  *)
(* a namespace with something left in it is kept from other runs, the      *)
(* trials of an experiment run one after the other, and the lifecycles of  *)
(* a managed resource do not overlap.                                      *)
(***************************************************************************)
EXTENDS Admission, TLAPS

StatusType == status \in [Runs -> Statuses]

(* The runs a step starts are accepted by the triggers of that step, and a
   step that starts a run changes no other run. *)
Guarded ==
    \A r \in Runs : status'[r] = "running" =>
        \/ status[r] = "running"
        \/ MayRun(r) /\ \A s \in Runs \ {r} : status'[s] = status[s]

(* Every step keeps the status column typed and goes through the triggers,
   whichever transaction it belongs to: claims, cleanup retries, inserts and
   the statements that settle runs. *)
LEMMA StepsAreGuarded ==
    ASSUME StatusType, [Next]_vars
    PROVE  StatusType' /\ Guarded
<1>1. CASE UNCHANGED vars
    BY <1>1 DEF StatusType, Guarded, vars
<1>2. ASSUME NEW c \in Coordinators, Coordinate(c)
      PROVE  StatusType' /\ Guarded
    <2>1. CASE SelectCandidate(c)
        BY <2>1 DEF SelectCandidate, runVars, StatusType, Guarded
    <2>2. CASE ClaimPipelineRun(c)
        BY <2>2 DEF ClaimPipelineRun, StatusType, Guarded, Statuses, Terminal
    <2>3. CASE ClaimRefused(c)
        BY <2>3 DEF ClaimRefused, runVars, StatusType, Guarded
    <2>4. CASE ReleasePipelineRun(c)
        BY <2>4 DEF ReleasePipelineRun, StatusType, Guarded
    <2>5. CASE CompletePipelineRun(c)
        BY <2>5 DEF CompletePipelineRun, StatusType, Guarded, Statuses, Terminal
    <2>6. CASE FailPipelineRun(c)
        <3>1. status' = [s \in Runs |->
                     IF s = coordinator[c].run THEN "failed"
                     ELSE IF s \in {l \in Later[coordinator[c].run] : status[l] = "queued"}
                            THEN "canceled" ELSE status[s]]
            BY <2>6 DEF FailPipelineRun
        <3> QED
            BY <3>1 DEF StatusType, Guarded, Statuses, Terminal
    <2>7. CASE SyncExperimentPipelineRun(c)
        BY <2>7 DEF SyncExperimentPipelineRun, StatusType, Guarded
    <2> QED
        BY <1>2, <2>1, <2>2, <2>3, <2>4, <2>5, <2>6, <2>7 DEF Coordinate
<1>3. ASSUME NEW c \in Coordinators, Crash(c)
      PROVE  StatusType' /\ Guarded
    BY <1>3 DEF Crash, StatusType, Guarded
<1>4. ASSUME NEW r \in Runs, LeaseLapses(r) \/ RetryExperimentCleanup(r)
      PROVE  StatusType' /\ Guarded
    BY <1>4 DEF LeaseLapses, RetryExperimentCleanup, StatusType, Guarded, Statuses, Terminal
<1>5. ASSUME NEW e \in Experiments,
             CreatePipelineExperiment(e) \/ BecomesDue(e) \/ RequestExperimentCancel(e)
      PROVE  StatusType' /\ Guarded
    <2>1. CASE CreatePipelineExperiment(e)
        BY <2>1 DEF CreatePipelineExperiment, StatusType, Guarded, Statuses, Terminal
    <2>2. CASE BecomesDue(e)
        BY <2>2 DEF BecomesDue, StatusType, Guarded
    <2>3. CASE RequestExperimentCancel(e)
        <3>1. status' = [r \in Runs |-> IF r \in {q \in RunsOf(e) : status[q] = "queued"}
                                        THEN "canceled" ELSE status[r]]
            BY <2>3 DEF RequestExperimentCancel
        <3> QED
            BY <3>1 DEF StatusType, Guarded, Statuses, Terminal
    <2> QED
        BY <1>5, <2>1, <2>2, <2>3
<1>6. ASSUME NEW k \in Clusters, DeleteExperimentConfiguration(k)
      PROVE  StatusType' /\ Guarded
    BY <1>6 DEF DeleteExperimentConfiguration, runVars, StatusType, Guarded
<1>7. ASSUME NEW r \in Runs, InsertPipelineLifecycle(r)
      PROVE  StatusType' /\ Guarded
    BY <1>7 DEF InsertPipelineLifecycle, StatusType, Guarded, Statuses, Terminal
<1>8. ASSUME NEW d \in Deployments, DismissFailedApplicationDeployment(d)
      PROVE  StatusType' /\ Guarded
    BY <1>8 DEF DismissFailedApplicationDeployment, runVars, StatusType, Guarded
<1>9. ASSUME NEW x \in Resources, RequestDeletion(x) \/ DeletionRefused(x)
      PROVE  StatusType' /\ Guarded
    BY <1>9 DEF RequestDeletion, DeletionRefused, runVars, StatusType, Guarded
<1>10. ASSUME NEW d \in Deployments, NEW r \in Runs,
              CreateApplicationDeployment(d, r) \/ RetryApplicationDeployment(d, r)
       PROVE  InsertPipelineLifecycle(r)
    BY <1>10 DEF CreateApplicationDeployment, RetryApplicationDeployment
<1>11. ASSUME NEW x \in Resources, NEW r \in Runs, CreateManagedResourceDeletion(x, r)
       PROVE  InsertPipelineLifecycle(r)
    BY <1>11 DEF CreateManagedResourceDeletion
<1>12. ASSUME NEW k \in Clusters, NEW r \in Runs, CreateManagedResourceRecreation(k, r)
       PROVE  InsertPipelineLifecycle(r)
    BY <1>12 DEF CreateManagedResourceRecreation
<1> QED
    BY <1>1, <1>2, <1>3, <1>4, <1>5, <1>6, <1>7, <1>8, <1>9, <1>10, <1>11, <1>12 DEF Next

(* A step that goes through the triggers cannot give a user a second run. *)
LEMMA GuardsKeepUsersApart ==
    ASSUME StatusType, OneRunPerUser, Guarded
    PROVE  OneRunPerUser'
<1> SUFFICES ASSUME NEW r \in Runs, NEW s \in Runs, r # s,
                    status'[r] = "running", status'[s] = "running",
                    Owner[r] # None, Owner[r] = Owner[s]
             PROVE  FALSE
    BY DEF OneRunPerUser
<1>1. ASSUME NEW a \in Runs, NEW b \in Runs, a # b, Owner[a] # None, Owner[a] = Owner[b],
             status'[b] = "running", status[a] # "running",
             MayRun(a), \A t \in Runs \ {a} : status'[t] = status[t]
      PROVE  FALSE
    <2>1. SameOwner(a) = {}
        BY <1>1 DEF MayRun, ConcurrencyGuard
    <2>2. b \in SameOwner(a)
        BY <1>1 DEF SameOwner, Others
    <2> QED BY <2>1, <2>2
<1>2. CASE status[r] = "running" /\ status[s] = "running"
    BY <1>2 DEF OneRunPerUser
<1>3. CASE status[r] # "running"
    BY <1>1, <1>3 DEF Guarded
<1>4. CASE status[s] # "running"
    BY <1>1, <1>4 DEF Guarded
<1> QED BY <1>2, <1>3, <1>4

(* Nor can it let two runs of a cluster share it exclusively or share a
   namespace. *)
LEMMA GuardsKeepClustersIsolated ==
    ASSUME StatusType, ClusterIsolation, Guarded
    PROVE  ClusterIsolation'
<1> DEFINE Apart(a, b) == /\ ~Exclusive[a]
                          /\ Namespace[a] # None => Namespace[a] # Namespace[b]
<1> SUFFICES ASSUME NEW r \in Runs, NEW s \in Runs, r # s,
                    status'[r] = "running", status'[s] = "running",
                    Cluster[r] # None, Cluster[r] = Cluster[s]
             PROVE  Apart(r, s)
    BY DEF ClusterIsolation
<1>1. ASSUME NEW a \in Runs, NEW b \in Runs, a # b, Cluster[a] # None, Cluster[a] = Cluster[b],
             status'[b] = "running", status[a] # "running",
             MayRun(a), \A t \in Runs \ {a} : status'[t] = status[t]
      PROVE  Apart(a, b) /\ Apart(b, a)
    <2>1. b \in SameCluster(a)
        BY <1>1 DEF SameCluster, Others
    <2>2. ~Exclusive[a] /\ ~Exclusive[b]
        BY <1>1, <2>1 DEF MayRun, ConcurrencyGuard
    <2>3. b \notin SameNamespace(a)
        BY <1>1 DEF MayRun, UniqueNamespace
    <2>4. Namespace[a] # None => Namespace[a] # Namespace[b]
        BY <2>1, <2>3 DEF SameNamespace
    <2> QED BY <2>2, <2>4
<1>2. CASE status[r] = "running" /\ status[s] = "running"
    BY <1>2 DEF ClusterIsolation
<1>3. CASE status[r] # "running"
    BY <1>1, <1>3 DEF Guarded
<1>4. CASE status[s] # "running"
    BY <1>1, <1>4 DEF Guarded
<1> QED BY <1>2, <1>3, <1>4

(* A user never has two running runs, however many coordinators claim runs
   of that user at once and whatever snapshots they claim them from
   (ClaimPipelineRun and guard_pipeline_run_concurrency). *)
THEOREM OneRunPerUserAlways == Spec => []OneRunPerUser
<1>1. Init => StatusType /\ OneRunPerUser
    BY DEF Init, StatusType, Statuses, OneRunPerUser
<1>2. StatusType /\ OneRunPerUser /\ [Next]_vars => (StatusType /\ OneRunPerUser)'
    BY StepsAreGuarded, GuardsKeepUsersApart
<1> QED BY <1>1, <1>2, PTL DEF Spec

(* Two runs never run on one cluster at once when either of them is
   exclusive or both name the same namespace (guard_pipeline_run_concurrency
   and the index pipeline_runs_application_namespace_active). *)
THEOREM ClusterIsolationAlways == Spec => []ClusterIsolation
<1>1. Init => StatusType /\ ClusterIsolation
    BY DEF Init, StatusType, Statuses, ClusterIsolation
<1>2. StatusType /\ ClusterIsolation /\ [Next]_vars => (StatusType /\ ClusterIsolation)'
    BY StepsAreGuarded, GuardsKeepClustersIsolated
<1> QED BY <1>1, <1>2, PTL DEF Spec

-----------------------------------------------------------------------------
(* The inductive invariant of the other properties.                        *)

(* Rows and coordinators are typed.                                        *)
Rows == [present : BOOLEAN, run : Runs \cup {None}, recreation : Runs \cup {None},
         deletion : Runs \cup {None}, deleted : BOOLEAN]

RowsTyped ==
    /\ lease \in [Runs -> Coordinators \cup {"unattended", None}]
    /\ due \in Seq(Runs)
    /\ dirty \subseteq Runs
    /\ trial \in [Runs -> Statuses]
    /\ experiment \in [Experiments -> {"absent", "active", "over"}]
    /\ resource \in [Resources -> Rows]
    /\ configured \subseteq Clusters
    /\ requested \subseteq Resources

CoordinatorsTyped ==
    /\ coordinator \in [Coordinators -> [phase : {"idle", "claiming", "working", "syncing"},
                                         run : Runs \cup {None}]]
    /\ \A c \in Coordinators : coordinator[c].phase = "idle" <=> coordinator[c].run = None

(* A picked row is locked: one coordinator has picked it, and until that   *)
(* one has decided it stays a row that nobody works on.                    *)
Picks ==
    \A c \in Coordinators : coordinator[c].phase = "claiming" =>
        /\ status[coordinator[c].run] \in {"queued", "running"}
        /\ lease[coordinator[c].run] = None
        /\ \A b \in Coordinators : coordinator[b] = coordinator[c] => b = c

(* Only a run that has failed leaves cleanups to retry.                    *)
DirtyFailed == \A r \in dirty : status[r] = "failed" /\ Kind[r] = "experiment"

(* How far a trial and an earlier one of its experiment can be.            *)
InOrder(t, r) ==
    /\ status[r] = "absent" <=> status[t] = "absent"
    /\ status[r] \in {"running", "succeeded", "failed"} => status[t] = "succeeded"
    /\ status[r] = "queued" => status[t] \in {"queued", "running", "succeeded"}
    /\ status[r] = "queued" /\ trial[t] \in Terminal => status[t] = "succeeded"
    /\ Locked(r) => status[t] = "succeeded"

Order == \A r \in Runs : \A t \in Earlier[r] : InOrder(t, r)

(* The runs a managed resource refers to.                                  *)
Refers(x) ==
    /\ \A r \in {resource[x].run, resource[x].recreation, resource[x].deletion} :
          r # None => status[r] # "absent" /\ Kind[r] # "experiment"
    /\ ~resource[x].present => resource[x].deletion = None
    /\ x \in Deployments => /\ resource[x].recreation = None
                            /\ resource[x].present => resource[x].run # None

(* NamespaceKept and LifecyclesApart, row by row.                          *)
KeptAt(d) ==
    resource[d].present /\ StatusOf(resource[d].deletion) # "succeeded" =>
        \A r \in Runs : /\ status[r] = "running"
                        /\ Cluster[r] = Home[d]
                        /\ Namespace[r] = Space[d]
                        => r \in {resource[d].run, resource[d].deletion}

InstalledAt(d) ==
    resource[d].present /\ StatusOf(resource[d].deletion) \in {"queued", "running", "succeeded"} =>
        StatusOf(resource[d].run) \in Terminal

AloneAt(k) ==
    resource[k].recreation # None =>
        \A r \in Runs : Cluster[r] = k => status[r] \notin {"queued", "running"}

RowInv(x) ==
    /\ Refers(x)
    /\ x \in Deployments => KeptAt(x) /\ InstalledAt(x)
    /\ x \in Clusters => AloneAt(x)

(* Together with the types and the locks: the inductive invariant.         *)
Admitted ==
    /\ DirtyFailed
    /\ Order
    /\ \A x \in Resources : RowInv(x)

(* The trials of an experiment are runs of its own, in one order.          *)
LEMMA Trials ==
    /\ \A e \in Experiments : RunsOf(e) \subseteq {r \in Runs : Kind[r] = "experiment"}
    /\ \A r \in Runs : \A t \in Earlier[r] :
          /\ t \in Runs /\ t # r
          /\ \E e \in Experiments : t \in RunsOf(e) /\ r \in RunsOf(e)
          /\ \A e \in Experiments : t \in RunsOf(e) <=> r \in RunsOf(e)
          /\ r \in Later[t]
          /\ Earlier[t] \subseteq Earlier[r]
<1>1. \A e \in Experiments : /\ Len(e) \in Nat /\ \A i \in 1..Len(e) : e[i] \in Runs
                             /\ RunsOf(e) \subseteq {r \in Runs : Kind[r] = "experiment"}
  BY AdmissionAssumption DEF RunsOf
<1>2. ASSUME NEW r \in Runs, NEW t \in Earlier[r]
      PROVE  /\ t \in Runs /\ t # r
             /\ \E e \in Experiments : t \in RunsOf(e) /\ r \in RunsOf(e)
             /\ \A e \in Experiments : t \in RunsOf(e) <=> r \in RunsOf(e)
             /\ r \in Later[t]
             /\ Earlier[t] \subseteq Earlier[r]
  <2>1. t \in Runs
    BY DEF Earlier
  <2>2. PICK e \in Experiments : \E i, j \in 1..Len(e) : i < j /\ e[i] = t /\ e[j] = r
    BY DEF Earlier
  <2>3. PICK i \in 1..Len(e), j \in 1..Len(e) : i < j /\ e[i] = t /\ e[j] = r
    BY <2>2
  <2>4. t # r
    BY <1>1, <2>3, AdmissionAssumption
  <2>5. t \in RunsOf(e) /\ r \in RunsOf(e)
    BY <2>3 DEF RunsOf
  <2>6. ASSUME NEW f \in Experiments, t \in RunsOf(f) \/ r \in RunsOf(f) PROVE f = e
    BY <2>3, <2>6, AdmissionAssumption DEF RunsOf
  <2>7. r \in Later[t]
    BY <2>1 DEF Later
  <2>8. ASSUME NEW u \in Earlier[t] PROVE u \in Earlier[r]
    <3>1. PICK f \in Experiments : \E k, l \in 1..Len(f) : k < l /\ f[k] = u /\ f[l] = t
      BY <2>1 DEF Earlier
    <3>2. PICK k \in 1..Len(f), l \in 1..Len(f) : k < l /\ f[k] = u /\ f[l] = t
      BY <3>1
    <3>3. f = e /\ l = i
      BY <2>3, <3>2, AdmissionAssumption
    <3>4. u \in Runs /\ k < j
      BY <1>1, <2>3, <3>2, <3>3
    <3> QED
      BY <2>3, <3>2, <3>3, <3>4 DEF Earlier
  <2> QED
    BY <2>1, <2>4, <2>5, <2>6, <2>7, <2>8
<1> QED
  BY <1>1, <1>2

-----------------------------------------------------------------------------
(* Types and locks.                                                        *)
Typed == StatusType /\ RowsTyped /\ CoordinatorsTyped /\ Picks

(* What the run of a coordinator can be.                                   *)
LEMMA Engaged ==
    ASSUME Typed, NEW c \in Coordinators, coordinator[c].phase # "idle"
    PROVE  coordinator[c].run \in Runs /\ coordinator[c].run # None
BY AdmissionAssumption DEF Typed, CoordinatorsTyped

(* Where a tick ends, the coordinator is idle or goes on to the sync of its run. *)
LEMMA TickEndsTyped ==
    ASSUME NEW r \in Runs
    PROVE  /\ TickEnds(r) \in [phase : {"idle", "syncing"}, run : Runs \cup {None}]
           /\ TickEnds(r).phase = "idle" <=> TickEnds(r).run = None
BY AdmissionAssumption DEF TickEnds, At, Idle

(* A coordinator goes over to another record.                              *)
LEMMA CoordinatorSet ==
    ASSUME CoordinatorsTyped, NEW c \in Coordinators,
           NEW z \in [phase : {"idle", "claiming", "working", "syncing"}, run : Runs \cup {None}],
           z.phase = "idle" <=> z.run = None,
           coordinator' = [coordinator EXCEPT ![c] = z]
    PROVE  CoordinatorsTyped'
BY DEF CoordinatorsTyped

(* Locks are kept by a step that picks no row and leaves the picked ones   *)
(* alone.                                                                  *)
LEMMA PicksKept ==
    ASSUME Typed, CoordinatorsTyped',
           \A c \in Coordinators : coordinator'[c].phase = "claiming" => coordinator'[c] = coordinator[c],
           \A c \in Coordinators : coordinator'[c].phase = "claiming" =>
               /\ status'[coordinator[c].run] \in {"queued", "running"}
               /\ lease'[coordinator[c].run] = None
    PROVE  Picks'
BY DEF Typed, Picks

(* Nobody works on a picked row.                                           *)
LEMMA OwnedIsNotPicked ==
    ASSUME Typed, NEW c \in Coordinators, Owns(c), NEW b \in Coordinators,
           coordinator[b].phase = "claiming"
    PROVE  coordinator[b].run # coordinator[c].run
BY AdmissionAssumption DEF Typed, Picks, Owns

(* The steps of a coordinator, its crash included, keep the types and *)
(* the picked rows claimable.                                         *)
LEMMA CoordinateTyped ==
    ASSUME Typed, NEW c \in Coordinators, Coordinate(c) \/ Crash(c)
    PROVE  RowsTyped' /\ CoordinatorsTyped' /\ Picks'
<1> USE DEF Typed
<1>0. ASSUME Owns(c)
      PROVE  coordinator[c].run \in Runs /\ coordinator[c].phase = "working"
  BY <1>0, Engaged DEF Owns
<1>i. Idle \in [phase : {"idle"}, run : {None}] /\ Idle.phase = "idle" /\ Idle.run = None
  BY DEF Idle
<1>1. CASE SelectCandidate(c)
  <2>1. RowsTyped'
    BY <1>1 DEF SelectCandidate, runVars, apiVars, RowsTyped
  <2>2. PICK i \in 1..Len(due) :
          Candidate(due[i]) /\ coordinator' = [coordinator EXCEPT ![c] = At("claiming", due[i])]
    BY <1>1 DEF SelectCandidate
  <2>3. due[i] \in Runs /\ due[i] # None
    BY AdmissionAssumption DEF RowsTyped
  <2>4. CoordinatorsTyped'
    BY <2>2, <2>3, CoordinatorSet DEF At
  <2>5. /\ coordinator'[c] = At("claiming", due[i])
        /\ \A b \in Coordinators \ {c} : coordinator'[b] = coordinator[b] /\ coordinator[b] # At("claiming", due[i])
    BY <2>2 DEF CoordinatorsTyped, Candidate, Locked
  <2>6. status[due[i]] \in {"queued", "running"} /\ lease[due[i]] = None
    BY <2>2 DEF Candidate
  <2>7. UNCHANGED <<status, lease>>
    BY <1>1 DEF SelectCandidate, runVars
  <2>8. Picks'
    BY <2>5, <2>6, <2>7 DEF Picks, At
  <2> QED
    BY <2>1, <2>4, <2>8
<1>2. CASE ClaimPipelineRun(c)
  <2> DEFINE r == coordinator[c].run
  <2>1. /\ r \in Runs /\ r # None /\ coordinator[c].phase = "claiming"
        /\ status' = [status EXCEPT ![r] = "running"]
        /\ lease' = [lease EXCEPT ![r] = c]
        /\ coordinator' = [coordinator EXCEPT ![c] = At("working", r)]
        /\ UNCHANGED <<due, dirty, trialVars, resource, apiVars>>
    BY <1>2, Engaged DEF ClaimPipelineRun
  <2> HIDE DEF r
  <2>2. RowsTyped'
    BY <2>1 DEF RowsTyped, trialVars, apiVars
  <2>3. CoordinatorsTyped'
    BY <2>1, CoordinatorSet DEF At
  <2>4. /\ coordinator'[c].phase = "working"
        /\ \A b \in Coordinators \ {c} : coordinator'[b] = coordinator[b]
    BY <2>1 DEF CoordinatorsTyped, At
  <2>5. ASSUME NEW b \in Coordinators \ {c}, coordinator[b].phase = "claiming"
        PROVE  coordinator[b].run \in Runs \ {r}
    <3>1. coordinator[b].run \in Runs
      BY <2>5, Engaged
    <3>2. CASE coordinator[b].run = r
      <4>1. coordinator[b] = coordinator[c]
        BY <2>1, <2>5, <3>2 DEF CoordinatorsTyped, r
      <4> QED
        BY <2>1, <4>1 DEF Picks
    <3> QED
      BY <3>1, <3>2
  <2>6. Picks'
    BY <2>1, <2>3, <2>4, <2>5, PicksKept DEF Picks, StatusType, RowsTyped
  <2> QED
    BY <2>2, <2>3, <2>6
<1>3. CASE ClaimRefused(c)
  <2>1. RowsTyped' /\ CoordinatorsTyped' /\ UNCHANGED <<status, lease>>
    BY <1>3, <1>i, CoordinatorSet DEF ClaimRefused, runVars, apiVars, RowsTyped
  <2>2. \A b \in Coordinators : coordinator'[b].phase = "claiming" => coordinator'[b] = coordinator[b]
    BY <1>3, <1>i DEF ClaimRefused, CoordinatorsTyped
  <2> QED
    BY <2>1, <2>2, PicksKept DEF Picks
(* The end of a tick, in three ways.                                       *)
<1>4. ASSUME Owns(c), coordinator' = [coordinator EXCEPT ![c] = TickEnds(coordinator[c].run)]
      PROVE  /\ CoordinatorsTyped'
             /\ \A b \in Coordinators : coordinator'[b].phase = "claiming" =>
                   coordinator'[b] = coordinator[b] /\ coordinator[b].run \in Runs \ {coordinator[c].run}
  <2>1. CoordinatorsTyped'
    BY <1>0, <1>4, CoordinatorSet, TickEndsTyped
  <2>2. ASSUME NEW b \in Coordinators, coordinator'[b].phase = "claiming"
        PROVE  coordinator'[b] = coordinator[b]
    BY <1>0, <1>4, <2>2, TickEndsTyped DEF CoordinatorsTyped
  <2> QED
    BY <1>4, <2>1, <2>2, OwnedIsNotPicked, Engaged
<1>5. CASE ReleasePipelineRun(c)
  <2>1. /\ Owns(c) /\ UNCHANGED status
        /\ lease' = [lease EXCEPT ![coordinator[c].run] = "unattended"]
        /\ coordinator' = [coordinator EXCEPT ![c] = TickEnds(coordinator[c].run)]
        /\ UNCHANGED <<due, dirty, trialVars, resource, apiVars>>
    BY <1>5 DEF ReleasePipelineRun
  <2>2. RowsTyped'
    BY <1>0, <2>1 DEF RowsTyped, trialVars, apiVars
  <2>3. Picks'
    BY <1>0, <1>4, <2>1, PicksKept DEF Picks, RowsTyped
  <2> QED
    BY <1>4, <2>1, <2>2, <2>3
<1>6. CASE CompletePipelineRun(c)
  <2> DEFINE r == coordinator[c].run
             Settled(x) == [resource[x] EXCEPT !.deleted = @ \/ resource[x].deletion = r]
  <2>1. /\ Owns(c)
        /\ status' = [status EXCEPT ![r] = "succeeded"]
        /\ lease' = [lease EXCEPT ![r] = None]
        /\ resource' = [x \in Resources |->
                 IF Settled(x).recreation = r /\ ~Settled(x).deleted
                   THEN [Settled(x) EXCEPT !.run = r, !.recreation = None]
                   ELSE Settled(x)]
        /\ coordinator' = [coordinator EXCEPT ![c] = TickEnds(r)]
        /\ UNCHANGED <<due, dirty, trialVars, apiVars>>
    BY <1>6 DEF CompletePipelineRun
  <2>2. r \in Runs
    BY <1>0, <2>1
  <2>3. CoordinatorsTyped'
    BY <1>4, <2>1
  <2>4. Picks'
    BY <1>4, <2>1, <2>3, PicksKept, ZenonT(30) DEF Picks, RowsTyped, StatusType
  <2>5. ASSUME NEW x \in Resources PROVE Settled(x) \in Rows
    BY ZenonT(30) DEF RowsTyped, Rows
  <2> HIDE DEF r, Settled
  <2>6. resource' \in [Resources -> Rows]
    BY <2>1, <2>2, <2>5 DEF Rows
  <2>7. RowsTyped'
    BY <2>1, <2>2, <2>6 DEF RowsTyped, trialVars, apiVars
  <2> QED
    BY <2>3, <2>4, <2>7
<1>7. CASE FailPipelineRun(c)
  <2> DEFINE r == coordinator[c].run
             stopped == {l \in Later[r] : status[l] = "queued"}
  <2>1. /\ Owns(c)
        /\ \A l \in stopped : ~Locked(l)
        /\ status' = [s \in Runs |-> IF s = r THEN "failed"
                                     ELSE IF s \in stopped THEN "canceled" ELSE status[s]]
        /\ lease' = [s \in Runs |-> IF s \in stopped \cup {r} THEN None ELSE lease[s]]
        /\ trial' = [s \in Runs |-> IF s \in stopped /\ trial[s] = "queued" THEN "canceled" ELSE trial[s]]
        /\ dirty' \in {dirty, dirty \cup {r}}
        /\ coordinator' = [coordinator EXCEPT ![c] = TickEnds(r)]
        /\ UNCHANGED <<due, experiment, resource, apiVars>>
    BY <1>7 DEF FailPipelineRun
  <2>2. r \in Runs
    BY <1>0, <2>1
  <2>3. CoordinatorsTyped'
    BY <1>4, <2>1
  <2>4. ASSUME NEW b \in Coordinators, coordinator'[b].phase = "claiming"
        PROVE  coordinator'[b] = coordinator[b] /\ coordinator[b].run \in Runs \ ({r} \cup stopped)
    <3>1. coordinator'[b] = coordinator[b] /\ coordinator[b].run \in Runs \ {r}
      BY <1>4, <2>1, <2>4
    <3>2. coordinator[b] = At("claiming", coordinator[b].run)
      BY <2>4, <3>1 DEF CoordinatorsTyped, At
    <3>3. Locked(coordinator[b].run)
      BY <3>2 DEF Locked
    <3> QED
      BY <2>1, <3>1, <3>3
  <2> HIDE DEF r, stopped
  <2>5. Picks'
    BY <2>1, <2>3, <2>4, PicksKept DEF Picks
  <2>6. RowsTyped'
    BY <2>1, <2>2 DEF RowsTyped, apiVars, Statuses, Terminal
  <2> QED
    BY <2>3, <2>5, <2>6
<1>8. CASE SyncExperimentPipelineRun(c)
  <2>1. coordinator[c].run \in Runs
    BY <1>8, Engaged DEF SyncExperimentPipelineRun
  <2>2. trial' \in [Runs -> Statuses] /\ experiment' \in [Experiments -> {"absent", "active", "over"}]
    BY <1>8, <2>1 DEF SyncExperimentPipelineRun, RowsTyped, StatusType
  <2>3. RowsTyped' /\ CoordinatorsTyped' /\ UNCHANGED <<status, lease>>
    BY <1>8, <1>i, <2>2, CoordinatorSet DEF SyncExperimentPipelineRun, apiVars, RowsTyped
  <2>4. \A b \in Coordinators : coordinator'[b].phase = "claiming" => coordinator'[b] = coordinator[b]
    BY <1>8, <1>i DEF SyncExperimentPipelineRun, CoordinatorsTyped
  <2> QED
    BY <2>3, <2>4, PicksKept DEF Picks
<1>9. CASE Crash(c)
  <2>1. RowsTyped' /\ CoordinatorsTyped' /\ UNCHANGED status
    BY <1>9, <1>i, CoordinatorSet DEF Crash, trialVars, apiVars, RowsTyped
  <2>2. \A b \in Coordinators : coordinator'[b].phase = "claiming" => coordinator'[b] = coordinator[b]
    BY <1>9, <1>i DEF Crash, CoordinatorsTyped
  <2>3. \A r \in Runs : lease[r] = None => lease'[r] = None
    BY <1>9, AdmissionAssumption DEF Crash
  <2> QED
    BY <2>1, <2>2, <2>3, PicksKept, Engaged DEF Picks
<1> QED
  BY <1>1, <1>2, <1>3, <1>5, <1>6, <1>7, <1>8, <1>9 DEF Coordinate

(* The ways in which requests change the row of a managed resource.        *)
LEMMA RowChanged ==
    ASSUME resource \in [Resources -> Rows], NEW x \in Resources, NEW r \in Runs \cup {None},
           \/ resource' = [resource EXCEPT ![x].run = r]
           \/ resource' = [resource EXCEPT ![x].deletion = r]
           \/ resource' = [resource EXCEPT ![x].recreation = r]
           \/ \E b \in BOOLEAN : resource' = [resource EXCEPT ![x] = [@ EXCEPT !.present = b, !.run = r]]
    PROVE  resource' \in [Resources -> Rows]
<1>1. resource[x] \in Rows
  OBVIOUS
<1>2. /\ [resource[x] EXCEPT !.run = r] \in Rows
      /\ [resource[x] EXCEPT !.deletion = r] \in Rows
      /\ [resource[x] EXCEPT !.recreation = r] \in Rows
      /\ \A b \in BOOLEAN : [resource[x] EXCEPT !.present = b, !.run = r] \in Rows
  BY <1>1 DEF Rows
<1> HIDE DEF Rows
<1>3. ASSUME NEW y \in Rows, resource' = [resource EXCEPT ![x] = y]
      PROVE  resource' \in [Resources -> Rows]
  BY <1>3
<1> QED
  BY <1>2, <1>3

(* The requests work around the picked rows: they are not absent, and      *)
(* what is canceled is not locked.                                         *)
LEMMA RequestPicks ==
    ASSUME Typed, UNCHANGED coordinator,
           \A r \in Runs : \/ status'[r] = status[r] /\ (lease[r] = None => lease'[r] = None)
                           \/ status[r] \notin {"queued", "running"}
                           \/ ~Locked(r)
    PROVE  CoordinatorsTyped' /\ Picks'
<1>1. CoordinatorsTyped'
  BY DEF Typed, CoordinatorsTyped
<1>2. ASSUME NEW c \in Coordinators, coordinator[c].phase = "claiming"
      PROVE  /\ coordinator[c].run \in Runs
             /\ status[coordinator[c].run] \in {"queued", "running"}
             /\ lease[coordinator[c].run] = None
             /\ Locked(coordinator[c].run)
  <2>1. coordinator[c] = At("claiming", coordinator[c].run)
    BY <1>2 DEF Typed, CoordinatorsTyped, At
  <2> QED
    BY <1>2, <2>1, Engaged DEF Typed, Picks, Locked
<1> QED
  BY <1>1, <1>2, PicksKept

(* A new run is a new row: it keeps the types and disturbs no picked row. *)
LEMMA InsertTyped ==
    ASSUME Typed, NEW r \in Runs, status[r] = "absent", InsertPipelineLifecycle(r),
           UNCHANGED <<lease, dirty, trialVars, configured, coordinator>>,
           requested' \subseteq requested,
           resource' \in [Resources -> Rows]
    PROVE  RowsTyped' /\ CoordinatorsTyped' /\ Picks'
<1>1. status' = [status EXCEPT ![r] = "queued"] /\ due' = Append(due, r)
  BY DEF InsertPipelineLifecycle
<1>2. due' \in Seq(Runs)
  BY <1>1 DEF Typed, RowsTyped
<1>3. RowsTyped'
  BY <1>2 DEF Typed, RowsTyped, trialVars
<1>4. CoordinatorsTyped' /\ Picks'
  BY <1>1, RequestPicks DEF Typed, StatusType
<1> QED
  BY <1>3, <1>4

(* So do the requests of users and the passing of time. *)
LEMMA RequestTyped ==
    ASSUME Typed, Next, ~ \E c \in Coordinators : Coordinate(c) \/ Crash(c)
    PROVE  RowsTyped' /\ CoordinatorsTyped' /\ Picks'
<1> USE DEF Typed
<1>1. ASSUME NEW r \in Runs, LeaseLapses(r) PROVE RowsTyped' /\ CoordinatorsTyped' /\ Picks'
  BY <1>1, RequestPicks DEF LeaseLapses, trialVars, apiVars, RowsTyped
<1>2. ASSUME NEW r \in Runs, RetryExperimentCleanup(r) PROVE RowsTyped' /\ CoordinatorsTyped' /\ Picks'
  <2>1. status[r] \notin {"queued", "running"}
    BY <1>2 DEF RetryExperimentCleanup, Terminal
  <2>2. RowsTyped'
    BY <1>2 DEF RetryExperimentCleanup, trialVars, apiVars, RowsTyped
  <2>3. \A s \in Runs \ {r} : status'[s] = status[s] /\ lease'[s] = lease[s]
    BY <1>2 DEF RetryExperimentCleanup, StatusType, RowsTyped
  <2> QED
    BY <1>2, <2>1, <2>2, <2>3, RequestPicks DEF RetryExperimentCleanup
<1>3. ASSUME NEW e \in Experiments, CreatePipelineExperiment(e)
      PROVE  RowsTyped' /\ CoordinatorsTyped' /\ Picks'
  <2>1. RowsTyped'
    BY <1>3 DEF CreatePipelineExperiment, apiVars, RowsTyped, Statuses
  <2>2. \A r \in Runs : status'[r] = status[r] \/ status[r] = "absent"
    BY <1>3 DEF CreatePipelineExperiment
  <2> QED
    BY <1>3, <2>1, <2>2, RequestPicks DEF CreatePipelineExperiment
<1>4. ASSUME NEW e \in Experiments, BecomesDue(e) PROVE RowsTyped' /\ CoordinatorsTyped' /\ Picks'
  <2>1. e \in Seq(Runs) /\ due' = due \o e
    BY <1>4, AdmissionAssumption DEF BecomesDue
  <2>2. due' \in Seq(Runs)
    BY <2>1 DEF RowsTyped
  <2> QED
    BY <1>4, <2>2, RequestPicks DEF BecomesDue, trialVars, apiVars, RowsTyped
<1>5. ASSUME NEW e \in Experiments, RequestExperimentCancel(e)
      PROVE  RowsTyped' /\ CoordinatorsTyped' /\ Picks'
  <2> DEFINE queued == {r \in RunsOf(e) : status[r] = "queued"}
  <2>1. /\ \A r \in queued : ~Locked(r)
        /\ status' = [r \in Runs |-> IF r \in queued THEN "canceled" ELSE status[r]]
        /\ lease' = [r \in Runs |-> IF r \in queued THEN None ELSE lease[r]]
        /\ trial' = [r \in Runs |-> IF r \in queued /\ trial[r] = "queued" THEN "canceled" ELSE trial[r]]
        /\ \E v \in {"over", "active"} : experiment' = [experiment EXCEPT ![e] = v]
        /\ UNCHANGED <<due, dirty, resource, apiVars, coordinator>>
    BY <1>5 DEF RequestExperimentCancel
  <2> HIDE DEF queued
  <2>2. RowsTyped'
    BY <2>1 DEF RowsTyped, apiVars, Statuses, Terminal
  <2> QED
    BY <2>1, <2>2, RequestPicks
<1>6. ASSUME NEW k \in Clusters, DeleteExperimentConfiguration(k)
      PROVE  RowsTyped' /\ CoordinatorsTyped' /\ Picks'
  BY <1>6, RequestPicks DEF DeleteExperimentConfiguration, runVars, RowsTyped
<1>7. ASSUME NEW d \in Deployments, NEW r \in Runs,
             CreateApplicationDeployment(d, r) \/ RetryApplicationDeployment(d, r)
      PROVE  RowsTyped' /\ CoordinatorsTyped' /\ Picks'
  <2>1. d \in Resources
    BY DEF Resources
  <2>2. resource' \in [Resources -> Rows]
    BY <1>7, <2>1, RowChanged DEF CreateApplicationDeployment, RetryApplicationDeployment, RowsTyped
  <2> QED
    BY <1>7, <2>2, InsertTyped
    DEF CreateApplicationDeployment, RetryApplicationDeployment, NewRun, apiVars
<1>8. ASSUME NEW d \in Deployments, DismissFailedApplicationDeployment(d)
      PROVE  RowsTyped' /\ CoordinatorsTyped' /\ Picks'
  <2>1. resource' \in [Resources -> Rows]
    BY <1>8, RowChanged DEF DismissFailedApplicationDeployment, RowsTyped, Resources
  <2> QED
    BY <1>8, <2>1, RequestPicks DEF DismissFailedApplicationDeployment, runVars, RowsTyped
<1>9. ASSUME NEW x \in Resources, RequestDeletion(x) \/ DeletionRefused(x)
      PROVE  RowsTyped' /\ CoordinatorsTyped' /\ Picks'
  <2>1. /\ \/ UNCHANGED resource
           \/ \E y \in {None, resource[x].deletion} : resource' = [resource EXCEPT ![x].deletion = y]
        /\ requested' \subseteq Resources
        /\ UNCHANGED <<runVars, configured, coordinator>>
    BY <1>9 DEF RequestDeletion, DeletionRefused, RowsTyped
  <2>2. resource' \in [Resources -> Rows]
    <3>1. resource[x].deletion \in Runs \cup {None}
      BY DEF RowsTyped, Rows
    <3> QED
      BY <2>1, <3>1, RowChanged DEF RowsTyped
  <2> QED
    BY <2>1, <2>2, RequestPicks DEF runVars, RowsTyped
<1>10. ASSUME NEW x \in Resources, NEW r \in Runs,
             CreateManagedResourceDeletion(x, r) \/ (x \in Clusters /\ CreateManagedResourceRecreation(x, r))
       PROVE  RowsTyped' /\ CoordinatorsTyped' /\ Picks'
  <2>1. resource' \in [Resources -> Rows]
    BY <1>10, RowChanged DEF CreateManagedResourceDeletion, CreateManagedResourceRecreation, RowsTyped
  <2> QED
    BY <1>10, <2>1, InsertTyped
    DEF CreateManagedResourceDeletion, CreateManagedResourceRecreation, NewRun, apiVars
<1> QED
  BY <1>1, <1>2, <1>3, <1>4, <1>5, <1>6, <1>7, <1>8, <1>9, <1>10 DEF Next, Resources

(* Every step keeps the types. *)
LEMMA TypedNext ==
    ASSUME Typed, [Next]_vars
    PROVE  Typed'
<1>1. StatusType'
  BY StepsAreGuarded DEF Typed
<1>2. CASE UNCHANGED vars
  BY <1>1, <1>2 DEF Typed, RowsTyped, CoordinatorsTyped, Picks, vars
<1> QED
  BY <1>1, <1>2, CoordinateTyped, RequestTyped DEF Typed

(* They hold in the empty database. *)
LEMMA TypedInit == Init => Typed
BY AdmissionAssumption
DEF Init, Typed, StatusType, RowsTyped, CoordinatorsTyped, Picks, Idle, Statuses, Rows

(* Rows keep their types and a picked row stays one that can be claimed,   *)
(* for nobody else changes a locked row (FOR UPDATE in ClaimPipelineRun).  *)
THEOREM AdmissionTypes == Spec => []TypeOK
<1>1. Typed => TypeOK
  <2> SUFFICES ASSUME Typed PROVE TypeOK
    OBVIOUS
  <2>1. ASSUME NEW c \in Coordinators
        PROVE  \/ coordinator[c] = Idle
               \/ /\ coordinator[c].phase \in {"claiming", "working", "syncing"}
                  /\ coordinator[c].run \in Runs
                  /\ coordinator[c].phase = "claiming" =>
                        status[coordinator[c].run] \in {"queued", "running"}
    <3>1. CASE coordinator[c].phase = "idle"
      BY <3>1 DEF Typed, CoordinatorsTyped, Idle
    <3>2. CASE coordinator[c].phase # "idle"
      BY <3>2, Engaged DEF Typed, CoordinatorsTyped, Picks
    <3> QED
      BY <3>1, <3>2
  <2> QED
    BY <2>1 DEF Typed, TypeOK, StatusType, RowsTyped, Rows
<1> QED
  BY <1>1, TypedInit, TypedNext, PTL DEF Spec

-----------------------------------------------------------------------------
(* How the status of a run may change, whichever transaction changes it.   *)
Move(r) ==
    \/ status'[r] = status[r]
    \/ status[r] = "absent" /\ status'[r] = "queued" /\ MaintenanceGuard(r)
    \/ status[r] = "queued" /\ status'[r] = "canceled"
    \/ status[r] = "running" /\ status'[r] \in {"succeeded", "failed"}
    \/ (status[r] = "queued" \/ r \in dirty) /\ status'[r] = "running" /\ MayRun(r)

(* Every step moves each run along its life: absent, queued, running, final. *)
LEMMA StatusMoves ==
    ASSUME Typed, [Next]_vars
    PROVE  \A r \in Runs : Move(r)
<1> SUFFICES ASSUME NEW r \in Runs PROVE Move(r)
  OBVIOUS
<1>0. CASE UNCHANGED status
  BY <1>0 DEF Move
<1>s. StatusType
  BY DEF Typed
<1>1. ASSUME NEW c \in Coordinators, Coordinate(c) \/ Crash(c) PROVE Move(r)
  <2>1. CASE ClaimPipelineRun(c)
    <3>1. /\ status[coordinator[c].run] \in {"queued", "running"} /\ MayRun(coordinator[c].run)
          /\ status' = [status EXCEPT ![coordinator[c].run] = "running"]
      BY <2>1 DEF ClaimPipelineRun, Typed, Picks
    <3> QED
      BY <1>s, <3>1 DEF Move, StatusType
  <2>2. CASE CompletePipelineRun(c)
    <3>1. /\ status[coordinator[c].run] = "running"
          /\ status' = [status EXCEPT ![coordinator[c].run] = "succeeded"]
      BY <2>2 DEF CompletePipelineRun, Owns
    <3> QED
      BY <1>s, <3>1 DEF Move, StatusType
  <2>3. CASE FailPipelineRun(c)
    <3>1. /\ status[coordinator[c].run] = "running"
          /\ status' = [s \in Runs |->
                     IF s = coordinator[c].run THEN "failed"
                     ELSE IF s \in {l \in Later[coordinator[c].run] : status[l] = "queued"}
                            THEN "canceled" ELSE status[s]]
      BY <2>3 DEF FailPipelineRun, Owns
    <3> QED
      BY <1>s, <3>1 DEF Move, StatusType
  <2>4. CASE SelectCandidate(c) \/ ClaimRefused(c) \/ ReleasePipelineRun(c)
             \/ SyncExperimentPipelineRun(c) \/ Crash(c)
    BY <1>0, <2>4 DEF SelectCandidate, ClaimRefused, ReleasePipelineRun,
       SyncExperimentPipelineRun, Crash, runVars
  <2> QED
    BY <1>1, <2>1, <2>2, <2>3, <2>4 DEF Coordinate
<1>2. ASSUME NEW s \in Runs, LeaseLapses(s) \/ RetryExperimentCleanup(s) PROVE Move(r)
  BY <1>2, <1>s, <1>0 DEF LeaseLapses, RetryExperimentCleanup, Move, StatusType
<1>3. ASSUME NEW e \in Experiments,
             CreatePipelineExperiment(e) \/ BecomesDue(e) \/ RequestExperimentCancel(e)
      PROVE  Move(r)
  <2>1. CASE CreatePipelineExperiment(e)
    BY <2>1, <1>s DEF CreatePipelineExperiment, Move
  <2>2. CASE BecomesDue(e)
    BY <2>2, <1>0 DEF BecomesDue
  <2>3. CASE RequestExperimentCancel(e)
    BY <2>3, <1>s DEF RequestExperimentCancel, Move
  <2> QED
    BY <1>3, <2>1, <2>2, <2>3
<1>4. ASSUME NEW s \in Runs, status[s] = "absent", MaintenanceGuard(s), InsertPipelineLifecycle(s)
      PROVE  Move(r)
  BY <1>4, <1>s DEF InsertPipelineLifecycle, Move, StatusType
<1>5. ASSUME NEW d \in Deployments, NEW s \in Runs,
             CreateApplicationDeployment(d, s) \/ RetryApplicationDeployment(d, s)
      PROVE  Move(r)
  BY <1>4, <1>5 DEF CreateApplicationDeployment, RetryApplicationDeployment, NewRun
<1>6. ASSUME NEW x \in Resources, NEW s \in Runs, CreateManagedResourceDeletion(x, s)
      PROVE  Move(r)
  BY <1>4, <1>6 DEF CreateManagedResourceDeletion, NewRun
<1>7. ASSUME NEW k \in Clusters, NEW s \in Runs, CreateManagedResourceRecreation(k, s)
      PROVE  Move(r)
  <2>1. MaintenanceGuard(s)
    BY <1>7, AdmissionAssumption DEF CreateManagedResourceRecreation, NewRun, MaintenanceGuard
  <2> QED
    BY <1>4, <1>7, <2>1 DEF CreateManagedResourceRecreation, NewRun
<1>8. ASSUME NEW x \in Resources,
             \/ RequestDeletion(x) \/ DeletionRefused(x) \/ DismissFailedApplicationDeployment(x)
             \/ DeleteExperimentConfiguration(x)
      PROVE  Move(r)
  BY <1>8, <1>0 DEF RequestDeletion, DeletionRefused, DismissFailedApplicationDeployment,
     DeleteExperimentConfiguration, runVars
<1>9. CASE UNCHANGED vars
  BY <1>9, <1>0 DEF vars
<1> QED
  BY <1>1, <1>2, <1>3, <1>5, <1>6, <1>7, <1>8, <1>9 DEF Next, Resources

(* Only a failed run with cleanups left behind starts again.               *)
LEMMA DirtyKept ==
    ASSUME Typed, DirtyFailed, [Next]_vars
    PROVE  DirtyFailed'
<1>0. \A r \in Runs : Move(r)
  BY StatusMoves
<1>1. ASSUME NEW r \in dirty, r \in dirty' PROVE status'[r] = "failed" /\ Kind[r] = "experiment"
  <2>1. r \in Runs /\ status[r] = "failed" /\ Kind[r] = "experiment"
    BY DEF Typed, RowsTyped, DirtyFailed
  <2>2. CASE RetryExperimentCleanup(r)
    BY <1>1, <2>2 DEF RetryExperimentCleanup
  <2>3. status'[r] = "running" => RetryExperimentCleanup(r)
    <3> SUFFICES ASSUME status'[r] = "running" PROVE RetryExperimentCleanup(r)
      OBVIOUS
    <3>1. ASSUME NEW c \in Coordinators, Coordinate(c) \/ Crash(c) PROVE status'[r] # "running"
      <4>1. CASE ClaimPipelineRun(c)
        <5>1. coordinator[c].run # r
          BY <2>1, <4>1 DEF ClaimPipelineRun, Typed, Picks
        <5> QED
          BY <2>1, <4>1, <5>1 DEF ClaimPipelineRun, Typed, StatusType
      <4>2. CASE FailPipelineRun(c)
        BY <2>1, <4>2 DEF FailPipelineRun
      <4> QED
        BY <2>1, <3>1, <4>1, <4>2 DEF Coordinate, SelectCandidate, ClaimRefused, ReleasePipelineRun,
           CompletePipelineRun, SyncExperimentPipelineRun, Crash, runVars, Typed, StatusType
    <3>2. ASSUME NEW s \in Runs, s # r, RetryExperimentCleanup(s) PROVE FALSE
      BY <2>1, <3>2 DEF RetryExperimentCleanup, Typed, StatusType
    <3>3. ASSUME NEW s \in Runs, InsertPipelineLifecycle(s) PROVE FALSE
      BY <2>1, <3>3 DEF InsertPipelineLifecycle, Typed, StatusType
    <3>4. ASSUME NEW e \in Experiments, CreatePipelineExperiment(e) \/ RequestExperimentCancel(e)
          PROVE  FALSE
      BY <2>1, <3>4 DEF CreatePipelineExperiment, RequestExperimentCancel
    <3> QED
      BY <2>1, <3>1, <3>2, <3>3, <3>4 DEF Next, vars, LeaseLapses, BecomesDue,
         DeleteExperimentConfiguration, CreateApplicationDeployment, RetryApplicationDeployment,
         DismissFailedApplicationDeployment, RequestDeletion, DeletionRefused,
         CreateManagedResourceDeletion, CreateManagedResourceRecreation, runVars
  <2> QED
    BY <1>0, <2>1, <2>2, <2>3 DEF Move
<1>2. ASSUME NEW r \in dirty' \ dirty PROVE status'[r] = "failed" /\ Kind[r] = "experiment"
  <2>1. PICK c \in Coordinators : FailPipelineRun(c)
    BY <1>2 DEF Next, vars, Coordinate, SelectCandidate, ClaimPipelineRun, ClaimRefused,
       ReleasePipelineRun, CompletePipelineRun, SyncExperimentPipelineRun, Crash, LeaseLapses,
       RetryExperimentCleanup, CreatePipelineExperiment, BecomesDue, RequestExperimentCancel,
       DeleteExperimentConfiguration, CreateApplicationDeployment, RetryApplicationDeployment,
       DismissFailedApplicationDeployment, RequestDeletion, DeletionRefused,
       CreateManagedResourceDeletion, CreateManagedResourceRecreation, runVars
  <2>2. coordinator[c].run \in Runs
    BY <2>1, Engaged DEF FailPipelineRun, Owns
  <2> QED
    BY <1>2, <2>1, <2>2 DEF FailPipelineRun
<1> QED
  BY <1>1, <1>2 DEF DirtyFailed

-----------------------------------------------------------------------------
(* The rows of managed resources.                                          *)

Same(x) == /\ resource'[x].present = resource[x].present
           /\ resource'[x].run = resource[x].run
           /\ resource'[x].recreation = resource[x].recreation
           /\ resource'[x].deletion = resource[x].deletion

(* A row that a step does not touch: what starts on its cluster or in its  *)
(* namespace has been let through by the triggers, and what was settled    *)
(* stays settled.                                                          *)
LEMMA SameRow ==
    ASSUME Typed, DirtyFailed, \A r \in Runs : Move(r), NEW x \in Resources, Same(x), RowInv(x)
    PROVE  RowInv(x)'
<1>0. /\ resource[x].run \in Runs \cup {None}
      /\ resource[x].recreation \in Runs \cup {None}
      /\ resource[x].deletion \in Runs \cup {None}
      /\ None \notin Runs
  BY AdmissionAssumption DEF Typed, RowsTyped, Rows
<1>1. \A r \in Runs : status[r] # "absent" => status'[r] # "absent"
  BY DEF Move, DirtyFailed
<1>2. \A r \in Runs : status[r] = "succeeded" => status'[r] = "succeeded"
  BY DEF Move, DirtyFailed
<1>3. \A r \in Runs : Kind[r] # "experiment" /\ status[r] \in Terminal => status'[r] = status[r]
  BY DEF Move, DirtyFailed, Terminal
<1>4. Refers(x)'
  BY <1>0, <1>1 DEF RowInv, Refers, Same
<1>5. ASSUME x \in Deployments PROVE KeptAt(x)'
  <2> SUFFICES ASSUME resource'[x].present, StatusOf(resource[x].deletion)' # "succeeded",
                      NEW r \in Runs, status'[r] = "running",
                      Cluster[r] = Home[x], Namespace[r] = Space[x]
               PROVE  r \in {resource'[x].run, resource'[x].deletion}
    BY DEF KeptAt
  <2>1. resource[x].present /\ StatusOf(resource[x].deletion) # "succeeded"
    BY <1>0, <1>2 DEF Same, StatusOf
  <2>2. CASE status[r] = "running"
    BY <1>5, <2>1, <2>2 DEF RowInv, KeptAt, Same
  <2>3. CASE status[r] # "running"
    <3>1. MayRun(r)
      BY <2>3 DEF Move
    <3>2. Cluster[r] # None /\ Namespace[r] # None
      BY <1>5, AdmissionAssumption DEF Resources
    <3>3. ~Reserved(Cluster[r], Namespace[r], r)
      BY <3>1, <3>2 DEF MayRun, NamespaceGuard
    <3>4. r \in {resource[x].run, resource[x].deletion}
      BY <1>5, <2>1, <3>3 DEF Reserved
    <3> QED
      BY <3>4 DEF Same
  <2> QED
    BY <2>2, <2>3
<1>6. ASSUME x \in Deployments PROVE InstalledAt(x)'
  <2> SUFFICES ASSUME resource'[x].present,
                      StatusOf(resource[x].deletion)' \in {"queued", "running", "succeeded"}
               PROVE  StatusOf(resource[x].run)' \in Terminal
    BY DEF InstalledAt
  <2>1. resource[x].deletion \in Runs
    BY <1>0 DEF Same, StatusOf
  <2>2. /\ Kind[resource[x].deletion] # "experiment" /\ status[resource[x].deletion] # "absent"
        /\ resource[x].run \in Runs /\ Kind[resource[x].run] # "experiment"
    BY <1>0, <1>6, <2>1 DEF RowInv, Refers, Same
  <2>3. status[resource[x].deletion] \in {"queued", "running", "succeeded"}
    BY <1>0, <2>1, <2>2 DEF Same, StatusOf, Move, DirtyFailed
  <2>4. status[resource[x].run] \in Terminal
    BY <1>0, <1>6, <2>1, <2>2, <2>3 DEF RowInv, InstalledAt, StatusOf, Same
  <2> QED
    BY <1>0, <1>3, <2>2, <2>4 DEF StatusOf, Same
<1>7. ASSUME x \in Clusters PROVE AloneAt(x)'
  <2> SUFFICES ASSUME resource'[x].recreation # None, NEW r \in Runs, Cluster[r] = x
               PROVE  status'[r] \notin {"queued", "running"}
    BY DEF AloneAt
  <2>1. resource[x].recreation # None /\ status[r] \notin {"queued", "running"}
    BY <1>7 DEF RowInv, AloneAt, Same
  <2>2. ~MaintenanceGuard(r)
    BY <1>7, <2>1, AdmissionAssumption DEF MaintenanceGuard, Resources
  <2> QED
    BY <2>1, <2>2 DEF Move, MayRun
<1> QED
  BY <1>4, <1>5, <1>6, <1>7 DEF RowInv

(* The end of a run marks the row of the resource it deleted, and takes    *)
(* the place of the run that created the resource it recreated.            *)
LEMMA CompletedRow ==
    ASSUME Typed, DirtyFailed, \A r \in Runs : Move(r), NEW x \in Resources, RowInv(x),
           NEW c \in Coordinators, CompletePipelineRun(c)
    PROVE  RowInv(x)'
<1> DEFINE r == coordinator[c].run
           row == [resource[x] EXCEPT !.deleted = @ \/ resource[x].deletion = r]
<1>1. r \in Runs /\ r # None
  BY Engaged DEF CompletePipelineRun, Owns
<1>2. /\ status'[r] = "succeeded"
      /\ resource'[x] = IF row.recreation = r /\ ~row.deleted
                          THEN [row EXCEPT !.run = r, !.recreation = None] ELSE row
  BY <1>1 DEF CompletePipelineRun, Typed, StatusType
<1>3. resource[x] \in Rows
  BY DEF Typed, RowsTyped
<1>4. /\ row.present = resource[x].present /\ row.run = resource[x].run
      /\ row.recreation = resource[x].recreation /\ row.deletion = resource[x].deletion
      /\ row \in Rows
  BY <1>3 DEF Rows
<1> HIDE DEF r, row
<1>5. CASE resource'[x] = row
  BY <1>4, <1>5, SameRow DEF Same
<1>6. CASE resource'[x] # row
  <2>1. /\ resource[x].recreation = r
        /\ resource'[x].present = resource[x].present
        /\ resource'[x].run = r
        /\ resource'[x].recreation = None
        /\ resource'[x].deletion = resource[x].deletion
    BY <1>2, <1>4, <1>6 DEF Rows
  <2>2. x \notin Deployments /\ Kind[r] # "experiment"
    BY <1>1, <2>1 DEF RowInv, Refers
  <2>3. resource[x].deletion # None =>
           status'[resource[x].deletion] # "absent" /\ Kind[resource[x].deletion] # "experiment"
    BY <1>3 DEF RowInv, Refers, Move, DirtyFailed, Rows
  <2>4. Refers(x)'
    BY <1>1, <1>2, <2>1, <2>2, <2>3 DEF RowInv, Refers
  <2>5. AloneAt(x)'
    BY <2>1 DEF AloneAt
  <2> QED
    BY <2>2, <2>4, <2>5 DEF RowInv
<1> QED
  BY <1>5, <1>6

(* A lifecycle run is inserted, and refers to nothing that was there.      *)
LEMMA InsertedRun ==
    ASSUME Typed, NEW r \in Runs, status[r] = "absent", InsertPipelineLifecycle(r)
    PROVE  /\ status'[r] = "queued" /\ r # None
           /\ \A s \in Runs \ {r} : status'[s] = status[s]
           /\ \A x \in Resources : Refers(x) =>
                 r \notin {resource[x].run, resource[x].recreation, resource[x].deletion}
BY AdmissionAssumption DEF InsertPipelineLifecycle, Typed, StatusType, Refers

(* A new installation finds its namespace free; a repeated one follows an  *)
(* installation that is over.                                              *)
LEMMA InstalledRow ==
    ASSUME Typed, NEW d \in Deployments, RowInv(d), NEW r \in Runs,
           CreateApplicationDeployment(d, r) \/ RetryApplicationDeployment(d, r)
    PROVE  RowInv(d)'
<1>0. /\ d \in Resources /\ d \notin Clusters /\ resource[d] \in Rows /\ Refers(d)
      /\ resource \in [Resources -> Rows]
  BY AdmissionAssumption DEF Resources, Typed, RowsTyped, RowInv
<1>1. status[r] = "absent" /\ InsertPipelineLifecycle(r) /\ Kind[r] = "deployment"
  BY DEF CreateApplicationDeployment, RetryApplicationDeployment, NewRun
<1>2. /\ status'[r] = "queued" /\ r # None
      /\ \A s \in Runs \ {r} : status'[s] = status[s]
      /\ r \notin {resource[d].run, resource[d].recreation, resource[d].deletion}
  BY <1>0, <1>1, InsertedRun
<1>3. /\ resource'[d].present /\ resource'[d].run = r
      /\ resource'[d].recreation = None
      /\ resource'[d].deletion = None
  <2>1. resource[d].recreation = None
    BY <1>0 DEF Refers
  <2>2. resource[d].deletion = None
    BY <1>0 DEF Refers, CreateApplicationDeployment, RetryApplicationDeployment
  <2>3. CASE CreateApplicationDeployment(d, r)
    BY <1>0, <2>1, <2>2, <2>3 DEF CreateApplicationDeployment, Rows
  <2>4. CASE RetryApplicationDeployment(d, r)
    BY <1>0, <2>1, <2>2, <2>4 DEF RetryApplicationDeployment, Rows
  <2> QED
    BY <2>3, <2>4
<1>4. Refers(d)'
  BY <1>1, <1>2, <1>3 DEF Refers
<1>5. ASSUME NEW s \in Runs, status'[s] = "running", Cluster[s] = Home[d], Namespace[s] = Space[d]
      PROVE  FALSE
  <2>1. s # r /\ status[s] = "running"
    BY <1>2, <1>5
  <2>2. CASE CreateApplicationDeployment(d, r)
    BY <1>5, <2>1, <2>2 DEF CreateApplicationDeployment, NamespaceFree
  <2>3. CASE RetryApplicationDeployment(d, r)
    <3>1. /\ resource[d].present /\ resource[d].deletion = None
          /\ StatusOf(resource[d].run) \in {"failed", "canceled"}
      BY <2>3 DEF RetryApplicationDeployment
    <3>2. s \in {resource[d].run, None}
      BY <1>5, <2>1, <3>1 DEF RowInv, KeptAt, StatusOf
    <3> QED
      BY <2>1, <3>1, <3>2, AdmissionAssumption DEF StatusOf
  <2> QED
    BY <2>2, <2>3
<1>6. KeptAt(d)' /\ InstalledAt(d)'
  BY <1>3, <1>5 DEF KeptAt, InstalledAt, StatusOf
<1> QED
  BY <1>0, <1>4, <1>6 DEF RowInv

(* The row whose deletion is requested, refused or dismissed.              *)
LEMMA RequestedRow ==
    ASSUME Typed, NEW x \in Resources, RowInv(x),
           RequestDeletion(x) \/ (x \in Deployments /\ DismissFailedApplicationDeployment(x))
    PROVE  RowInv(x)'
<1>0. resource[x] \in Rows /\ UNCHANGED status /\ resource \in [Resources -> Rows]
  BY DEF Typed, RowsTyped, RequestDeletion, DismissFailedApplicationDeployment, runVars
<1>1. CASE RequestDeletion(x)
  <2>1. /\ resource[x].present
        /\ \/ resource' = [resource EXCEPT ![x].deletion = resource[x].deletion]
           \/ /\ resource' = [resource EXCEPT ![x].deletion = None]
              /\ ManagedResourceState(x, resource[x].deletion) = "deletion-failed"
    BY <1>1 DEF RequestDeletion
  <2>2. /\ resource'[x].present /\ resource'[x].run = resource[x].run
        /\ resource'[x].recreation = resource[x].recreation
        /\ \/ resource'[x].deletion = resource[x].deletion
           \/ /\ resource'[x].deletion = None
              /\ ManagedResourceState(x, resource[x].deletion) = "deletion-failed"
    BY <1>0, <2>1 DEF Rows
  <2>3. ManagedResourceState(x, resource[x].deletion) = "deletion-failed" =>
          StatusOf(resource[x].deletion) \in {"failed", "canceled"}
    BY DEF ManagedResourceState
  <2>4. Refers(x)'
    BY <1>0, <2>1, <2>2 DEF RowInv, Refers
  <2>5. ASSUME x \in Deployments PROVE KeptAt(x)'
    <3> SUFFICES ASSUME StatusOf(resource[x].deletion)' # "succeeded",
                        NEW r \in Runs, status'[r] = "running",
                        Cluster[r] = Home[x], Namespace[r] = Space[x]
                 PROVE  r \in {resource'[x].run, resource'[x].deletion}
      BY DEF KeptAt
    <3>1. StatusOf(resource[x].deletion) # "succeeded"
      BY <1>0, <2>2, <2>3 DEF StatusOf
    <3>2. r \in {resource[x].run, resource[x].deletion}
      BY <1>0, <2>1, <2>5, <3>1 DEF RowInv, KeptAt
    <3>3. StatusOf(resource[x].deletion) \in {"failed", "canceled"} => r # resource[x].deletion
      BY <1>0, AdmissionAssumption DEF StatusOf
    <3> QED
      BY <2>2, <2>3, <3>2, <3>3
  <2>6. ASSUME x \in Deployments PROVE InstalledAt(x)'
    BY <1>0, <2>1, <2>2, <2>6 DEF RowInv, InstalledAt, StatusOf
  <2>7. ASSUME x \in Clusters PROVE AloneAt(x)'
    BY <1>0, <2>2, <2>7 DEF RowInv, AloneAt
  <2> QED
    BY <2>4, <2>5, <2>6, <2>7 DEF RowInv
<1>2. CASE x \in Deployments /\ DismissFailedApplicationDeployment(x)
  <2>1. resource[x].recreation = None /\ resource[x].deletion = None
    BY <1>2 DEF RowInv, Refers, DismissFailedApplicationDeployment
  <2>2. /\ ~resource'[x].present /\ resource'[x].run = None
        /\ resource'[x].recreation = None
        /\ resource'[x].deletion = None
    BY <1>0, <1>2, <2>1 DEF DismissFailedApplicationDeployment, Rows
  <2> QED
    BY <1>2, <2>2, AdmissionAssumption DEF RowInv, Refers, KeptAt, InstalledAt, AloneAt
<1> QED
  BY <1>1, <1>2

(* A deletion waits for the run that created the resource to be over.      *)
LEMMA DeletedRow ==
    ASSUME Typed, NEW x \in Resources, RowInv(x), NEW r \in Runs, CreateManagedResourceDeletion(x, r)
    PROVE  RowInv(x)'
<1>0. resource[x] \in Rows /\ Refers(x) /\ resource \in [Resources -> Rows]
  BY DEF Typed, RowsTyped, RowInv
<1>1. /\ status[r] = "absent" /\ InsertPipelineLifecycle(r) /\ MayDelete(x)
      /\ Kind[r] = DeletionKind(x)
      /\ resource' = [resource EXCEPT ![x].deletion = r]
  BY DEF CreateManagedResourceDeletion, NewRun
<1>2. /\ status'[r] = "queued" /\ r # None
      /\ \A s \in Runs \ {r} : status'[s] = status[s]
      /\ r \notin {resource[x].run, resource[x].recreation, resource[x].deletion}
  BY <1>0, <1>1, InsertedRun
<1>3. /\ resource'[x].present = resource[x].present /\ resource'[x].run = resource[x].run
      /\ resource'[x].recreation = resource[x].recreation
      /\ resource'[x].deletion = r
      /\ resource[x].run \in (Runs \ {r}) \cup {None}
      /\ resource[x].recreation \in (Runs \ {r}) \cup {None}
  BY <1>0, <1>1, <1>2 DEF Rows
<1>4. resource[x].present /\ resource[x].deletion = None /\ CreationStatus(x) \in Terminal
  BY <1>1 DEF MayDelete
<1>5. Refers(x)'
  BY <1>0, <1>1, <1>2, <1>3, <1>4 DEF Refers, DeletionKind
<1>6. ASSUME x \in Deployments PROVE KeptAt(x)' /\ InstalledAt(x)'
  <2>1. resource[x].run \in Runs \ {r}
    BY <1>0, <1>3, <1>4, <1>6 DEF Refers
  <2>2. StatusOf(resource[x].run)' \in Terminal
    BY <1>2, <1>3, <1>4, <2>1, AdmissionAssumption DEF CreationStatus, StatusOf
  <2>3. ASSUME NEW s \in Runs, status'[s] = "running", Cluster[s] = Home[x], Namespace[s] = Space[x]
        PROVE  s = resource[x].run
    <3>1. s # r /\ status[s] = "running" /\ s # None
      BY <1>2, <2>3, AdmissionAssumption
    <3> QED
      BY <1>4, <1>6, <2>3, <3>1 DEF RowInv, KeptAt, StatusOf
  <2> QED
    BY <1>3, <2>2, <2>3 DEF KeptAt, InstalledAt
<1>7. ASSUME x \in Clusters PROVE AloneAt(x)'
  <2>1. Cluster[r] = None /\ x # None
    BY <1>1, <1>7, AdmissionAssumption DEF DeletionKind, Resources
  <2> QED
    BY <1>2, <1>3, <1>7, <2>1 DEF RowInv, AloneAt
<1> QED
  BY <1>5, <1>6, <1>7 DEF RowInv

(* A recreation starts when nothing runs on the cluster.                   *)
LEMMA RecreatedRow ==
    ASSUME Typed, NEW k \in Clusters, RowInv(k), NEW r \in Runs, CreateManagedResourceRecreation(k, r)
    PROVE  RowInv(k)'
<1>0. /\ k \in Resources /\ k \notin Deployments /\ resource[k] \in Rows /\ Refers(k)
      /\ resource \in [Resources -> Rows]
  BY AdmissionAssumption DEF Resources, Typed, RowsTyped, RowInv
<1>1. /\ status[r] = "absent" /\ InsertPipelineLifecycle(r) /\ Kind[r] = "recreation"
      /\ ~ClusterBusy(k)
      /\ resource' = [resource EXCEPT ![k].recreation = r]
  BY DEF CreateManagedResourceRecreation, NewRun
<1>2. /\ status'[r] = "queued" /\ r # None
      /\ \A s \in Runs \ {r} : status'[s] = status[s]
      /\ r \notin {resource[k].run, resource[k].recreation, resource[k].deletion}
  BY <1>0, <1>1, InsertedRun
<1>3. /\ resource'[k].present = resource[k].present /\ resource'[k].run = resource[k].run
      /\ resource'[k].recreation = r
      /\ resource'[k].deletion = resource[k].deletion
      /\ resource[k].run \in (Runs \ {r}) \cup {None}
      /\ resource[k].deletion \in (Runs \ {r}) \cup {None}
  BY <1>0, <1>1, <1>2 DEF Rows
<1>4. Refers(k)'
  BY <1>0, <1>1, <1>2, <1>3 DEF Refers
<1>5. Cluster[r] # k
  BY <1>0, <1>1, AdmissionAssumption
<1>6. AloneAt(k)'
  BY <1>1, <1>2, <1>5 DEF AloneAt, ClusterBusy
<1> QED
  BY <1>0, <1>4, <1>6 DEF RowInv

(* Every step keeps every row in order.                                    *)
LEMMA RowsKept ==
    ASSUME Typed, DirtyFailed, [Next]_vars, NEW x \in Resources, RowInv(x)
    PROVE  RowInv(x)'
<1>0. \A r \in Runs : Move(r)
  BY StatusMoves
<1>1. CASE UNCHANGED resource
  BY <1>0, <1>1, SameRow DEF Same
<1>2. ASSUME NEW y \in Resources,
             \/ /\ y \in Deployments
                /\ \/ \E r \in Runs : CreateApplicationDeployment(y, r) \/ RetryApplicationDeployment(y, r)
                   \/ DismissFailedApplicationDeployment(y)
             \/ RequestDeletion(y)
             \/ \E r \in Runs : CreateManagedResourceDeletion(y, r)
             \/ y \in Clusters /\ \E r \in Runs : CreateManagedResourceRecreation(y, r)
      PROVE  RowInv(x)'
  <2>1. CASE y = x
    BY <1>2, <2>1, InstalledRow, RequestedRow, DeletedRow, RecreatedRow
  <2>2. CASE y # x
    <3>1. resource'[x] = resource[x]
      BY <1>2, <2>2 DEF CreateApplicationDeployment, RetryApplicationDeployment,
         DismissFailedApplicationDeployment, RequestDeletion, CreateManagedResourceDeletion,
         CreateManagedResourceRecreation, Typed, RowsTyped
    <3> QED
      BY <1>0, <3>1, SameRow DEF Same
  <2> QED
    BY <2>1, <2>2
<1>3. ASSUME NEW c \in Coordinators, Coordinate(c) \/ Crash(c) PROVE RowInv(x)'
  <2>1. CASE CompletePipelineRun(c)
    BY <1>0, <2>1, CompletedRow
  <2> QED
    BY <1>1, <1>3, <2>1 DEF Coordinate, SelectCandidate, ClaimPipelineRun, ClaimRefused,
       ReleasePipelineRun, FailPipelineRun, SyncExperimentPipelineRun, Crash
<1> QED
  BY <1>1, <1>2, <1>3 DEF Next, vars, Resources, LeaseLapses, RetryExperimentCleanup,
     CreatePipelineExperiment, BecomesDue, RequestExperimentCancel,
     DeleteExperimentConfiguration, DeletionRefused

-----------------------------------------------------------------------------
(* The trials of an experiment.                                            *)

(* A step that changes no trial and no run of an experiment, and picks     *)
(* nothing.                                                                *)
LEMMA OrderFrame ==
    ASSUME Typed, Order,
           \A r \in Runs : Kind[r] = "experiment" => status'[r] = status[r] /\ trial'[r] = trial[r],
           \A r \in Runs : Locked(r)' => Locked(r)
    PROVE  Order'
<1> SUFFICES ASSUME NEW r \in Runs, NEW t \in Earlier[r] PROVE InOrder(t, r)'
  BY DEF Order, Earlier
<1>1. t \in Runs /\ Kind[t] = "experiment" /\ Kind[r] = "experiment"
  BY Trials
<1> QED
  BY <1>1 DEF Order, InOrder

(* A coordinator that goes on without a row it has picked locks no row anew. *)
LEMMA UnlockFrame ==
    ASSUME CoordinatorsTyped, NEW c \in Coordinators,
           NEW z \in [phase : {"idle", "working", "syncing"}, run : Runs \cup {None}],
           coordinator' = [coordinator EXCEPT ![c] = z]
    PROVE  \A r \in Runs : Locked(r)' => Locked(r)
BY DEF CoordinatorsTyped, Locked, At

(* A run that is owned or picked is not over, a picked run has no earlier  *)
(* trial that is not over, and success is final.                           *)
LEMMA OrderCoordinate ==
    ASSUME Typed, Order, DirtyFailed, NEW c \in Coordinators, Coordinate(c) \/ Crash(c)
    PROVE  Order'
<1> USE DEF Typed
<1>i. Idle \in [phase : {"idle", "working", "syncing"}, run : Runs \cup {None}]
  BY DEF Idle
<1>t. \A r \in Runs : TickEnds(r) \in [phase : {"idle", "working", "syncing"}, run : Runs \cup {None}]
  BY TickEndsTyped
<1>o. Owns(c) => coordinator[c].run \in Runs /\ status[coordinator[c].run] = "running"
  BY Engaged DEF Owns
<1>1. CASE SelectCandidate(c)
  <2>1. PICK i \in 1..Len(due) :
          Candidate(due[i]) /\ coordinator' = [coordinator EXCEPT ![c] = At("claiming", due[i])]
    BY <1>1 DEF SelectCandidate
  <2>2. \A r \in Runs : Locked(r)' => Locked(r) \/ r = due[i]
    BY <2>1 DEF Locked, CoordinatorsTyped, At
  <2>3. UNCHANGED <<status, trial>>
    BY <1>1 DEF SelectCandidate, runVars
  <2> SUFFICES ASSUME NEW r \in Runs, NEW t \in Earlier[r] PROVE InOrder(t, r)'
    BY DEF Order, Earlier
  <2>4. InOrder(t, r)
    BY DEF Order
  <2>5. r = due[i] => status[t] = "succeeded"
    BY <2>1, <2>4 DEF Candidate, InOrder
  <2> QED
    BY <2>2, <2>3, <2>4, <2>5 DEF InOrder
<1>2. CASE ClaimPipelineRun(c)
  <2> DEFINE q == coordinator[c].run
  <2>1. /\ q \in Runs /\ coordinator[c] = At("claiming", q) /\ status[q] \in {"queued", "running"}
        /\ status' = [status EXCEPT ![q] = "running"]
        /\ coordinator' = [coordinator EXCEPT ![c] = At("working", q)]
        /\ UNCHANGED trial
    BY <1>2, Engaged DEF ClaimPipelineRun, trialVars, CoordinatorsTyped, Picks, At
  <2> HIDE DEF q
  <2>2. Locked(q)
    BY <2>1 DEF Locked
  <2>3. \A r \in Runs : Locked(r)' => Locked(r)
    BY <2>1, UnlockFrame DEF At
  <2> SUFFICES ASSUME NEW r \in Runs, NEW t \in Earlier[r] PROVE InOrder(t, r)'
    BY DEF Order, Earlier
  <2>4. InOrder(t, r) /\ t \in Runs /\ t # r
    BY Trials DEF Order
  <2>5. CASE r = q
    BY <2>1, <2>2, <2>4, <2>5 DEF InOrder, StatusType
  <2>6. CASE t = q
    BY <2>1, <2>3, <2>4, <2>6 DEF InOrder, StatusType
  <2>7. CASE r # q /\ t # q
    BY <2>1, <2>3, <2>4, <2>7 DEF InOrder, StatusType
  <2> QED
    BY <2>5, <2>6, <2>7
<1>3. CASE ClaimRefused(c)
  BY <1>3, <1>i, UnlockFrame, OrderFrame DEF ClaimRefused, runVars
<1>4. CASE ReleasePipelineRun(c)
  BY <1>4, <1>o, <1>t, UnlockFrame, OrderFrame DEF ReleasePipelineRun, trialVars
<1>5. CASE CompletePipelineRun(c)
  <2> DEFINE q == coordinator[c].run
  <2>1. /\ q \in Runs /\ status[q] = "running"
        /\ status' = [status EXCEPT ![q] = "succeeded"]
        /\ coordinator' = [coordinator EXCEPT ![c] = TickEnds(q)]
        /\ UNCHANGED trial
    BY <1>5, <1>o DEF CompletePipelineRun, trialVars
  <2>2. \A r \in Runs : Locked(r)' => Locked(r)
    BY <2>1, <1>t, UnlockFrame
  <2> HIDE DEF q
  <2> SUFFICES ASSUME NEW r \in Runs, NEW t \in Earlier[r] PROVE InOrder(t, r)'
    BY DEF Order, Earlier
  <2>3. InOrder(t, r) /\ t \in Runs /\ t # r
    BY Trials DEF Order
  <2> QED
    BY <2>1, <2>2, <2>3 DEF InOrder, StatusType
<1>6. CASE FailPipelineRun(c)
  <2> DEFINE q == coordinator[c].run
             stopped == {l \in Later[q] : status[l] = "queued"}
  <2>1. /\ q \in Runs /\ status[q] = "running"
        /\ status' = [s \in Runs |-> IF s = q THEN "failed"
                                     ELSE IF s \in stopped THEN "canceled" ELSE status[s]]
        /\ trial' = [s \in Runs |-> IF s \in stopped /\ trial[s] = "queued" THEN "canceled" ELSE trial[s]]
        /\ coordinator' = [coordinator EXCEPT ![c] = TickEnds(q)]
    BY <1>6, <1>o DEF FailPipelineRun
  <2>2. \A r \in Runs : Locked(r)' => Locked(r)
    BY <2>1, <1>t, UnlockFrame
  <2>3. \A r \in Runs : \A t \in Earlier[r] : status[r] = "queued" /\ (t = q \/ t \in stopped) => r \in stopped
    <3> SUFFICES ASSUME NEW r \in Runs, NEW t \in Earlier[r], status[r] = "queued", t = q \/ t \in stopped
                 PROVE  q \in Earlier[r]
      BY Trials, <2>1
    <3>1. CASE t = q
      BY <3>1
    <3>2. CASE t \in stopped
      BY <3>2, Trials, <2>1, SMTT(30) DEF Later
    <3> QED
      BY <3>1, <3>2
  <2>4. \A r \in stopped : status[r] = "queued"
    OBVIOUS
  <2> HIDE DEF q, stopped
  <2> SUFFICES ASSUME NEW r \in Runs, NEW t \in Earlier[r] PROVE InOrder(t, r)'
    BY DEF Order, Earlier
  <2>5. InOrder(t, r) /\ t \in Runs /\ t # r
    BY Trials DEF Order
  <2> QED
    BY <2>1, <2>2, <2>3, <2>4, <2>5 DEF InOrder, StatusType, Terminal
<1>7. CASE SyncExperimentPipelineRun(c)
  <2> DEFINE q == coordinator[c].run
  <2>1. /\ q \in Runs /\ UNCHANGED status
        /\ trial' = [trial EXCEPT ![q] = status[q]]
        /\ coordinator' = [coordinator EXCEPT ![c] = Idle]
    BY <1>7, Engaged DEF SyncExperimentPipelineRun
  <2>2. \A r \in Runs : Locked(r)' => Locked(r)
    BY <2>1, <1>i, UnlockFrame
  <2> HIDE DEF q
  <2> SUFFICES ASSUME NEW r \in Runs, NEW t \in Earlier[r] PROVE InOrder(t, r)'
    BY DEF Order, Earlier
  <2>3. InOrder(t, r) /\ t \in Runs /\ t # r
    BY Trials DEF Order
  <2> QED
    BY <2>1, <2>2, <2>3 DEF InOrder, RowsTyped, Terminal
<1>8. CASE Crash(c)
  BY <1>8, <1>i, UnlockFrame, OrderFrame DEF Crash, trialVars
<1> QED
  BY <1>1, <1>2, <1>3, <1>4, <1>5, <1>6, <1>7, <1>8 DEF Coordinate

(* An experiment is created and canceled as a whole, and a run whose       *)
(* cleanup is retried has no later trial that could still start.           *)
LEMMA OrderRequest ==
    ASSUME Typed, Order, DirtyFailed, Next, ~ \E c \in Coordinators : Coordinate(c) \/ Crash(c)
    PROVE  Order'
<1> USE DEF Typed
<1>0. (\A r \in Runs : Locked(r)' => Locked(r)) \/ ~ UNCHANGED coordinator
  BY DEF Locked
<1>1. ASSUME UNCHANGED <<status, trial, coordinator>> PROVE Order'
  BY <1>0, <1>1, OrderFrame
<1>2. ASSUME NEW r \in Runs, Kind[r] # "experiment", InsertPipelineLifecycle(r),
             UNCHANGED <<trial, coordinator>>
      PROVE  Order'
  BY <1>0, <1>2, OrderFrame DEF InsertPipelineLifecycle, StatusType
<1>3. ASSUME NEW q \in Runs, RetryExperimentCleanup(q) PROVE Order'
  <2>1. /\ status[q] = "failed" /\ status' = [status EXCEPT ![q] = "running"]
        /\ UNCHANGED <<trial, coordinator>>
    BY <1>3 DEF RetryExperimentCleanup, trialVars, DirtyFailed
  <2> SUFFICES ASSUME NEW r \in Runs, NEW t \in Earlier[r] PROVE InOrder(t, r)'
    BY DEF Order, Earlier
  <2>2. InOrder(t, r) /\ t \in Runs /\ t # r
    BY Trials DEF Order
  <2> QED
    BY <1>0, <2>1, <2>2 DEF InOrder, StatusType
<1>4. ASSUME NEW e \in Experiments, CreatePipelineExperiment(e) PROVE Order'
  <2>1. /\ \A r \in RunsOf(e) : status[r] = "absent"
        /\ status' = [r \in Runs |-> IF r \in RunsOf(e) THEN "queued" ELSE status[r]]
        /\ trial' = [r \in Runs |-> IF r \in RunsOf(e) THEN "queued" ELSE trial[r]]
        /\ UNCHANGED coordinator
    BY <1>4 DEF CreatePipelineExperiment
  <2> SUFFICES ASSUME NEW r \in Runs, NEW t \in Earlier[r] PROVE InOrder(t, r)'
    BY DEF Order, Earlier
  <2>2. InOrder(t, r) /\ t \in Runs /\ (t \in RunsOf(e) <=> r \in RunsOf(e))
    BY Trials DEF Order
  <2>3. Locked(r) => status[r] \in {"queued", "running"}
    BY DEF Locked, Picks, At
  <2> QED
    BY <1>0, <2>1, <2>2, <2>3 DEF InOrder, StatusType, Terminal
<1>5. ASSUME NEW e \in Experiments, RequestExperimentCancel(e) PROVE Order'
  <2> DEFINE queued == {r \in RunsOf(e) : status[r] = "queued"}
  <2>1. /\ status' = [r \in Runs |-> IF r \in queued THEN "canceled" ELSE status[r]]
        /\ trial' = [r \in Runs |-> IF r \in queued /\ trial[r] = "queued" THEN "canceled" ELSE trial[r]]
        /\ UNCHANGED coordinator
    BY <1>5 DEF RequestExperimentCancel
  <2> SUFFICES ASSUME NEW r \in Runs, NEW t \in Earlier[r] PROVE InOrder(t, r)'
    BY DEF Order, Earlier
  <2>2. InOrder(t, r) /\ t \in Runs /\ (t \in RunsOf(e) <=> r \in RunsOf(e))
    BY Trials DEF Order
  <2>3. /\ t \in queued => status[t] = "queued"
        /\ r \in queued => status[r] = "queued"
        /\ t \in queued /\ status[r] = "queued" => r \in queued
    BY <2>2
  <2> HIDE DEF queued
  <2> QED
    BY <1>0, <2>1, <2>2, <2>3 DEF InOrder, StatusType, Terminal
<1>6. ASSUME NEW d \in Deployments, NEW r \in Runs,
             CreateApplicationDeployment(d, r) \/ RetryApplicationDeployment(d, r)
      PROVE  Order'
  BY <1>2, <1>6 DEF CreateApplicationDeployment, RetryApplicationDeployment, NewRun, trialVars
<1>7. ASSUME NEW x \in Resources, NEW r \in Runs, CreateManagedResourceDeletion(x, r) PROVE Order'
  BY <1>2, <1>7 DEF CreateManagedResourceDeletion, NewRun, DeletionKind, trialVars
<1>8. ASSUME NEW k \in Clusters, NEW r \in Runs, CreateManagedResourceRecreation(k, r) PROVE Order'
  BY <1>2, <1>8 DEF CreateManagedResourceRecreation, NewRun, trialVars
<1> QED
  BY <1>1, <1>3, <1>4, <1>5, <1>6, <1>7, <1>8 DEF Next, LeaseLapses, BecomesDue,
     DeleteExperimentConfiguration, DismissFailedApplicationDeployment, RequestDeletion,
     DeletionRefused, runVars, trialVars

-----------------------------------------------------------------------------
(* Admitted holds in the empty database. *)
LEMMA AdmittedInit == Init => Admitted
<1> SUFFICES ASSUME Init PROVE Admitted
  OBVIOUS
<1>1. DirtyFailed
  BY DEF Init, DirtyFailed
<1>2. Order
  <2> SUFFICES ASSUME NEW r \in Runs, NEW t \in Earlier[r] PROVE InOrder(t, r)
    BY DEF Order
  <2>1. t \in Runs
    BY Trials
  <2> QED
    BY <2>1 DEF Init, InOrder, Locked, Idle, At
<1>3. ASSUME NEW x \in Resources PROVE RowInv(x)
  <2>1. /\ resource[x].run = None /\ resource[x].recreation = None /\ resource[x].deletion = None
        /\ resource[x].present <=> x \in Clusters
    BY <1>3 DEF Init
  <2> QED
    BY <2>1, AdmissionAssumption DEF RowInv, Refers, KeptAt, InstalledAt, AloneAt
<1> QED
  BY <1>1, <1>2, <1>3 DEF Admitted

(* Every step preserves Admitted, one conjunct at a time. *)
LEMMA AdmittedNext == Typed /\ Admitted /\ [Next]_vars => (Typed /\ Admitted)'
<1> SUFFICES ASSUME Typed, Admitted, [Next]_vars PROVE Typed' /\ Admitted'
  OBVIOUS
<1>1. DirtyFailed' /\ Typed'
  BY DirtyKept, TypedNext DEF Admitted
<1>2. Order'
  <2>1. CASE UNCHANGED vars
    BY <2>1, OrderFrame DEF vars, Locked, Admitted
  <2> QED
    BY <2>1, OrderCoordinate, OrderRequest DEF Admitted
<1>3. \A x \in Resources : RowInv(x)'
  BY RowsKept DEF Admitted
<1> QED
  BY <1>1, <1>2, <1>3 DEF Admitted

(* The inductive invariant of admission.                                   *)
THEOREM AdmittedAlways == Spec => [](Typed /\ Admitted)
BY TypedInit, AdmittedInit, AdmittedNext, PTL DEF Spec

(* In the namespace of a deployment nothing runs but its own runs, from    *)
(* its creation until its removal has succeeded (the triggers of migration *)
(* 054 and Store.RetryApplicationDeployment).                              *)
THEOREM NamespaceKeptAlways == Spec => []NamespaceKept
<1>1. Typed /\ Admitted => NamespaceKept
  BY DEF Admitted, RowInv, KeptAt, NamespaceKept, Resources
<1> QED
  BY <1>1, AdmittedAlways, PTL

(* A trial starts only after every earlier trial of its experiment has     *)
(* succeeded (ClaimPipelineRun and FailPipelineRun).                       *)
THEOREM TrialsInOrderAlways == Spec => []TrialsInOrder
<1>1. Typed /\ Admitted => TrialsInOrder
  BY DEF Admitted, Order, InOrder, TrialsInOrder
<1> QED
  BY <1>1, AdmittedAlways, PTL

(* Lifecycles of one resource never overlap                                *)
(* (CreateManagedPipelineResourceDeletion, createManagedResourceRecreation *)
(* and the maintenance trigger).                                           *)
THEOREM LifecyclesApartAlways == Spec => []LifecyclesApart
<1>1. Typed /\ Admitted => LifecyclesApart
  BY DEF Admitted, RowInv, InstalledAt, AloneAt, LifecyclesApart, Resources
<1> QED
  BY <1>1, AdmittedAlways, PTL
=============================================================================
