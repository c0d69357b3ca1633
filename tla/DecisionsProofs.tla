--------------------------- MODULE DecisionsProofs ---------------------------
(***************************************************************************)
(* The decisions of MCDecisions follow their rules in every state, for any *)
(* bounds.  Pipelines: what the two functions return is the subject of     *)
(* PipelinePlanProofs; here they are shown to be asked only what those     *)
(* theorems answer.  Layouts: what NodePools lays out passes the checks of *)
(* the running cluster.  Counters: what MetricsCollector reports never     *)
(* exceeds what happened.                                                  *)
(***************************************************************************)
EXTENDS MCDecisions, PipelinePlanProofs

(* A pipeline has a kind, inputs and a row for each of its stages, and only
   stages of it have been started. *)
PlanTyped ==
    /\ kind \in Seq(Kinds)
    /\ stage \in Seq(RowStatuses)
    /\ started \in SUBSET (1..Len(stage))
    /\ max \in Nat

(* A pipeline begins without stages. *)
LEMMA PlanTypedInit ==
    ASSUME Init
    PROVE  PlanTyped
<1>1. kind = <<>> /\ stage = <<>> /\ started = {}
    BY DEF Init
<1>2. max \in Nat
    <2>1. max \in 0..MaxParallel \/ max = 0
        BY Zenon DEF Init
    <2> QED BY <2>1, BoundsAssumption
<1> QED BY <1>1, <1>2 DEF PlanTyped

(* A stage that is added has a kind and a status, and is started or not. *)
LEMMA AddStageTyped ==
    ASSUME PlanTyped, NEW k \in Kinds, NEW deps, NEW s \in RowStatuses, NEW op \in BOOLEAN, AddStage(k, deps, s, op)
    PROVE  PlanTyped'
<1>1. kind' \in Seq(Kinds) /\ stage' \in Seq(RowStatuses) /\ max' \in Nat
    BY DEF PlanTyped, AddStage
<1>2. Len(stage') = Len(stage) + 1 /\ Len(stage) \in Nat
    BY DEF PlanTyped, AddStage
<1>3. started' \subseteq started \union {Len(stage) + 1}
    BY DEF AddStage
<1>4. started' \in SUBSET (1..Len(stage'))
    BY <1>2, <1>3 DEF PlanTyped
<1> QED BY <1>1, <1>4 DEF PlanTyped

(* Every step grows the pipeline by such a stage or leaves it alone. *)
LEMMA PlanTypedNext ==
    ASSUME PlanTyped, [Next]_vars
    PROVE  PlanTyped'
<1>1. CASE UNCHANGED pipeline
    BY <1>1 DEF pipeline, PlanTyped
<1>2. CASE AddScheduledStage
    <2>1. PICK deps \in SUBSET (1..Len(stage)), s \in RowStatuses, op \in BOOLEAN : AddStage("other", deps, s, op)
        BY <1>2, Zenon DEF AddScheduledStage
    <2> QED BY <2>1, AddStageTyped DEF Kinds
<1>3. CASE AddOrderedStage
    <2>1. PICK k \in Kinds : AddStage(k, {}, "pending", FALSE)
        BY <1>3 DEF AddOrderedStage
    <2> QED BY <2>1, AddStageTyped DEF RowStatuses
<1>4. AddScheduledStage \/ AddOrderedStage \/ UNCHANGED pipeline
    BY DEF Next, vars, AddPool, Event, Restart, Scrape
<1> QED BY <1>1, <1>2, <1>3, <1>4

(* The stages that are picked fit the limit, none is left out below it and
   none is skipped. *)
LEMMA PlanReady ==
    ASSUME PlanTyped
    PROVE  ReadyWithinLimit
<1>1. PICK n : n = Len(stage)
    OBVIOUS
<1>2. n \in Nat /\ DOMAIN stage = 1..n /\ started \in SUBSET (1..n) /\ max \in Nat
    BY <1>1 DEF PlanTyped
<1>3. PICK ready, active, limit : ready = Ready /\ active = Cardinality(ActiveStages(stage, started)) /\ limit = Limit(max)
    OBVIOUS
<1>4. ready = {} \/ active + Cardinality(ready) <= limit
    BY <1>2, <1>3, ReadyFitsTheLimit DEF Ready
<1>5. ASSUME NEW i \in DOMAIN stage \ ready, Startable(needs, max, stage, started, i)
      PROVE  active + Cardinality({j \in ready : j < i}) >= limit
    BY <1>2, <1>3, <1>5, ReadyWastesNothing DEF Ready
<1>6. ASSUME max <= 1, \A i \in 2..n : stage[i] # "pending" => stage[i - 1] = "succeeded",
             NEW i \in ready, NEW j \in 1..(i - 1)
      PROVE  stage[j] = "succeeded"
    <2>1. max \in 0..1
        BY <1>2, <1>6
    <2> QED BY <1>2, <1>3, <1>6, <2>1, ReadySkipsNothing DEF Ready
<1> QED BY <1>1, <1>3, <1>4, <1>5, <1>6 DEF ReadyWithinLimit

(* PlanFollowsItsRules for every pipeline and every state of its rows. *)
LEMMA PlanRules ==
    ASSUME PlanTyped
    PROVE  PlanFollowsItsRules
<1>1. CleanupOrderFollowsRule
    BY CleanupOrderIsRight DEF PlanTyped, Order, CleanupOrderFollowsRule
<1> QED BY <1>1, PlanReady DEF PlanFollowsItsRules

(* PlanFollowsItsRules for pipelines of any length and every limit:
   starting and cleaning up follow the rules of the definition
   (readyPipelineStages, pipelineCleanupOrder). *)
THEOREM PlanAlwaysFollowsItsRules ==
    Spec => []PlanFollowsItsRules
<1>1. Init => PlanTyped
    BY PlanTypedInit
<1>2. PlanTyped /\ [Next]_vars => PlanTyped'
    BY PlanTypedNext
<1>3. PlanTyped => PlanFollowsItsRules
    BY PlanRules
<1> QED BY <1>1, <1>2, <1>3, PTL DEF Spec

-----------------------------------------------------------------------------
(* Loops.                                                                  *)

(* What holds at the start and is kept by every step holds all along: of   *)
(* the steps after which it would be wrong there were a first one.         *)
LEMMA Upwards ==
    ASSUME NEW n \in Nat, NEW S, 0 \in S, \A t \in 1..n : t - 1 \in S => t \in S
    PROVE  0..n \subseteq S
<1> DEFINE bad == (0..n) \ S
<1> SUFFICES ASSUME bad # {} PROVE FALSE
    OBVIOUS
<1>1. PICK t \in bad : \A y \in bad : t <= y
  <2>1. bad \in SUBSET Nat
      OBVIOUS
  <2> HIDE DEF bad
  <2> QED BY <2>1, LeastOf
<1>2. t \in 0..n /\ t \notin S /\ t # 0
    BY <1>1
<1>3. t \in 1..n /\ t - 1 \in 0..n /\ ~(t <= t - 1)
    BY <1>2
<1>4. t - 1 \notin bad
  <2> HIDE DEF bad
  <2> QED BY <1>1, <1>3
<1> QED BY <1>2, <1>3, <1>4

(* A loop over values of W whose t-th turn applies the function G[t]. *)
Turn(x, G, f, t) == IF t = 0 THEN x ELSE G[t][f[t - 1]]
CanRun(n, W, x, G) == \E f \in [0..n -> W] : \A t \in 0..n : f[t] = Turn(x, G, f, t)

(* Such a loop can be run. *)
LEMMA LoopOf ==
    ASSUME NEW n \in Nat, NEW W, NEW x \in W, NEW G \in [1..n -> [W -> W]]
    PROVE  CanRun(n, W, x, G)
<1> DEFINE S == {m \in 0..n : CanRun(m, W, x, G)}
<1>1. 0 \in S
  <2> DEFINE f == [t \in 0..0 |-> x]
  <2>1. f \in [0..0 -> W] /\ \A t \in 0..0 : f[t] = Turn(x, G, f, t)
      BY DEF Turn
  <2> HIDE DEF f
  <2>2. CanRun(0, W, x, G)
      BY <2>1 DEF CanRun
  <2> QED BY <2>2
<1>2. ASSUME NEW m \in 1..n, m - 1 \in S PROVE m \in S
  <2>1. PICK f \in [0..(m - 1) -> W] : \A t \in 0..(m - 1) : f[t] = Turn(x, G, f, t)
      BY <1>2 DEF CanRun
  <2>2. m \in Nat /\ m - 1 \in 0..(m - 1) /\ \A t \in 0..m : t # m => t \in 0..(m - 1)
      OBVIOUS
  <2> DEFINE g == [t \in 0..m |-> IF t = m THEN G[m][f[m - 1]] ELSE f[t]]
  <2>3. G[m][f[m - 1]] \in W
      BY <2>1, <2>2
  <2>4. g \in [0..m -> W]
      BY <2>1, <2>2, <2>3
  <2>5. ASSUME NEW t \in 0..m PROVE g[t] = Turn(x, G, g, t)
    <3>1. t # 0 => g[t - 1] = f[t - 1]
        BY <2>2
    <3>2. CASE t = m
        BY <2>2, <3>1, <3>2 DEF Turn
    <3>3. CASE t # m
      <4>1. g[t] = f[t] /\ f[t] = Turn(x, G, f, t)
          BY <2>1, <2>2, <3>3
      <4> QED BY <3>1, <4>1 DEF Turn
    <3> QED BY <3>2, <3>3
  <2> HIDE DEF g
  <2>6. CanRun(m, W, x, G)
      BY <2>4, <2>5 DEF CanRun
  <2> QED BY <2>6
<1> HIDE DEF S
<1>3. 0..n \subseteq S
    BY <1>1, <1>2, Upwards, Zenon
<1>4. n \in 0..n
    OBVIOUS
<1>5. n \in S
    BY <1>3, <1>4, Zenon
<1> QED BY <1>5 DEF S

-----------------------------------------------------------------------------
(* The layout of machines in pools.                                        *)

(* What the pools of a configuration are. *)
PoolsTyped(pools, n) ==
    /\ n \in Nat /\ Len(pools) = n /\ DOMAIN pools = 1..n /\ (n = 0 <=> pools = <<>>)
    /\ \A k \in 1..n : pools[k].count \in Nat

(* The workers before a pool are those of the pools in front of it. *)
LEMMA BeforeIs ==
    ASSUME NEW pools, NEW n, PoolsTyped(pools, n)
    PROVE  /\ NP!Before(pools, 1) = 0
           /\ \A k \in 1..n : NP!Before(pools, k) \in Nat
           /\ \A k \in 1..(n - 1) : NP!Before(pools, k + 1) = NP!Before(pools, k) + pools[k].count
<1>1. n \in Nat /\ Len(pools) = n /\ \A k \in 1..n : pools[k].count \in Nat
    BY DEF PoolsTyped
<1> DEFINE G == [k \in 1..n |-> [x \in Nat |-> x + pools[k].count]]
           Sum(f) == [k \in 0..n |-> IF k = 0 THEN 0 ELSE f[k - 1] + pools[k].count]
<1>2. PICK f : f = (CHOOSE g : g = Sum(g)) /\ \A k : NP!Before(pools, k) = f[k - 1]
  <2>1. \A k : NP!Before(pools, k) = (CHOOSE g : g = [i \in 0..Len(pools) |-> IF i = 0 THEN 0 ELSE g[i - 1] + pools[i].count])[k - 1]
      BY Zenon DEF NP!Before
  <2> QED BY <1>1, <2>1, Zenon
<1>3. \E g : g = Sum(g)
  <2>1. G \in [1..n -> [Nat -> Nat]]
      BY <1>1
  <2>2. PICK g \in [0..n -> Nat] : \A k \in 0..n : g[k] = Turn(0, G, g, k)
    <3>1. n \in Nat /\ 0 \in Nat
        BY <1>1
    <3> HIDE DEF G
    <3>2. CanRun(n, Nat, 0, G)
        BY <2>1, <3>1, LoopOf
    <3> QED BY <3>2 DEF CanRun
  <2>3. ASSUME NEW k \in 0..n PROVE g[k] = IF k = 0 THEN 0 ELSE g[k - 1] + pools[k].count
    <3>1. k # 0 => k \in 1..n /\ k - 1 \in 0..n
        BY <1>1
    <3>2. k # 0 => g[k - 1] \in Nat /\ G[k][g[k - 1]] = g[k - 1] + pools[k].count
        BY <3>1
    <3> QED BY <2>2, <3>2 DEF Turn
  <2> QED BY <2>3
<1>4. f = Sum(f)
  <2> HIDE DEF Sum
  <2> QED BY <1>2, <1>3, Zenon
<1>5. f[0] = 0 /\ \A k \in 1..n : f[k] = f[k - 1] + pools[k].count
    BY <1>1, <1>4
<1>6. \A k \in 0..n : f[k] \in Nat
  <2> DEFINE S == {k \in 0..n : f[k] \in Nat}
  <2>1. 0 \in S
      BY <1>1, <1>5
  <2>2. ASSUME NEW k \in 1..n, k - 1 \in S PROVE k \in S
    <3>1. f[k] = f[k - 1] + pools[k].count /\ pools[k].count \in Nat /\ f[k - 1] \in Nat
        BY <1>1, <1>5, <2>2
    <3>2. f[k] \in Nat
        BY <3>1
    <3> QED BY <3>2
  <2> HIDE DEF S
  <2>3. 0..n \subseteq S
      BY <1>1, <2>1, <2>2, Upwards
  <2> QED BY <2>3 DEF S
<1>7. ASSUME NEW k \in 1..(n - 1) PROVE NP!Before(pools, k + 1) = NP!Before(pools, k) + pools[k].count
  <2>1. k \in 1..n /\ (k + 1) - 1 = k
      BY <1>1
  <2> QED BY <1>2, <1>5, <2>1
<1>8. ASSUME NEW k \in 1..n PROVE NP!Before(pools, k) \in Nat
  <2>1. k - 1 \in 0..n
      BY <1>1
  <2> QED BY <1>2, <1>6, <2>1
<1>9. NP!Before(pools, 1) = 0
  <2>1. 1 - 1 = 0
      OBVIOUS
  <2> QED BY <1>2, <1>5, <2>1
<1> QED BY <1>7, <1>8, <1>9

(* Pools do not overlap. *)
LEMMA BeforeOrdered ==
    ASSUME NEW pools, NEW n, PoolsTyped(pools, n), NEW i \in 1..n, NEW j \in 1..n, i < j
    PROVE  NP!Before(pools, i) + pools[i].count <= NP!Before(pools, j)
<1> DEFINE b(k) == NP!Before(pools, k)
           S == {k \in 0..n : i < k => b(i) + pools[i].count <= b(k)}
<1>0. n \in Nat /\ \A k \in 1..n : pools[k].count \in Nat
    BY DEF PoolsTyped
<1>1. \A k \in 1..n : b(k) \in Nat
    BY BeforeIs
<1>2. \A k \in 1..(n - 1) : b(k + 1) = b(k) + pools[k].count
    BY BeforeIs
<1> HIDE DEF b
<1>3. 0 \in S
    BY <1>0
<1>4. ASSUME NEW k \in 1..n, k - 1 \in S PROVE k \in S
  <2> SUFFICES ASSUME i < k PROVE b(i) + pools[i].count <= b(k)
      OBVIOUS
  <2>1. k - 1 \in 1..(n - 1) /\ k - 1 \in 1..n /\ (k - 1) + 1 = k
      BY <1>0
  <2>2. b(k) = b(k - 1) + pools[k - 1].count
      BY <1>2, <2>1
  <2>3. CASE i = k - 1
      BY <1>0, <1>1, <2>1, <2>2, <2>3
  <2>4. CASE i # k - 1
    <3>1. b(i) + pools[i].count <= b(k - 1)
        BY <1>4, <2>1, <2>4
    <3> QED BY <1>0, <1>1, <2>1, <2>2, <3>1
  <2> QED BY <2>3, <2>4
<1> HIDE DEF S
<1>5. 0..n \subseteq S
    BY <1>0, <1>3, <1>4, Upwards
<1>6. j \in S
    BY <1>0, <1>5
<1> QED BY <1>6 DEF S, b

(* The i-th worker of a pool falls into that pool. *)
LEMMA PoolOfMember ==
    ASSUME NEW pools, NEW n, PoolsTyped(pools, n), NEW k \in 1..n, NEW i \in 0..(pools[k].count - 1), NEW w,
           w = NP!Before(pools, k) + i
    PROVE  /\ w \in Nat /\ w < NP!Workers(pools)
           /\ NP!PoolsOf(pools, w) # {} /\ NP!PoolOf(pools, w) = k
<1> DEFINE b(j) == NP!Before(pools, j)
<1>0. n \in Nat /\ Len(pools) = n /\ DOMAIN pools = 1..n /\ pools # <<>> /\ \A j \in 1..n : pools[j].count \in Nat
    BY DEF PoolsTyped
<1>1. \A j \in 1..n : b(j) \in Nat
    BY BeforeIs
<1>2. \A j, l \in 1..n : j < l => b(j) + pools[j].count <= b(l)
    BY BeforeOrdered
<1>3. NP!PoolsOf(pools, w) = {j \in 1..n : w < b(j) + pools[j].count}
    BY <1>0 DEF NP!PoolsOf
<1>4. NP!Workers(pools) = b(n) + pools[n].count
    BY <1>0 DEF NP!Workers
<1> HIDE DEF b
<1>5. w \in Nat /\ w = b(k) + i
    BY <1>0, <1>1 DEF b
<1>6. n \in 1..n
    BY <1>0
<1>7. w < NP!Workers(pools)
  <2>1. /\ k = n \/ k < n
        /\ i < pools[k].count /\ i \in Nat /\ pools[k].count \in Nat /\ pools[n].count \in Nat
        /\ b(k) \in Nat /\ b(n) \in Nat
      BY <1>0, <1>1, <1>6
  <2>2. CASE k = n
      BY <1>4, <1>5, <2>1, <2>2
  <2>3. CASE k < n
    <3>1. b(k) + pools[k].count <= b(n)
        BY <1>2, <1>6, <2>3
    <3> QED BY <1>4, <1>5, <2>1, <3>1
  <2> QED BY <2>1, <2>2, <2>3
<1>8. k \in NP!PoolsOf(pools, w)
    BY <1>0, <1>1, <1>3, <1>5, SMTT(30)
<1>9. \A j \in NP!PoolsOf(pools, w) : k <= j
  <2> SUFFICES ASSUME NEW j \in 1..n, w < b(j) + pools[j].count, j < k PROVE FALSE
      BY <1>0, <1>3
  <2>1. b(j) + pools[j].count <= b(k)
      BY <1>2
  <2> QED BY <1>0, <1>1, <1>5, <2>1
<1>10. \A j \in NP!PoolsOf(pools, w) : (\A l \in NP!PoolsOf(pools, w) : j <= l) => j = k
    BY <1>0, <1>3, <1>8, <1>9
<1>11. NP!PoolOf(pools, w) = k
    BY <1>8, <1>9, <1>10 DEF NP!PoolOf
<1> QED BY <1>5, <1>7, <1>8, <1>11

(* Every worker is a member of some pool. *)
LEMMA WorkerHasPool ==
    ASSUME NEW pools, NEW n, PoolsTyped(pools, n), NEW w \in Nat, w < NP!Workers(pools)
    PROVE  \E k \in 1..n : \E i \in 0..(pools[k].count - 1) : w = NP!Before(pools, k) + i
<1> DEFINE b(j) == NP!Before(pools, j)
           over == {j \in 1..n : w < b(j) + pools[j].count}
<1>0. n \in Nat /\ Len(pools) = n /\ \A j \in 1..n : pools[j].count \in Nat
    BY DEF PoolsTyped
<1>1. b(1) = 0 /\ (\A j \in 1..n : b(j) \in Nat) /\ \A j \in 1..(n - 1) : b(j + 1) = b(j) + pools[j].count
    BY BeforeIs
<1>2. n # 0
    BY DEF PoolsTyped, NP!Workers
<1>3. NP!Workers(pools) = b(n) + pools[n].count
    BY <1>0, <1>2 DEF PoolsTyped, NP!Workers
<1> HIDE DEF b
<1>4. n \in over
    BY <1>0, <1>2, <1>3
<1>5. PICK k \in over : \A y \in over : k <= y
  <2>1. over \in SUBSET Nat
      BY <1>0
  <2> HIDE DEF over
  <2> QED BY <1>4, <2>1, LeastOf
<1>6. k \in 1..n /\ w < b(k) + pools[k].count
    BY <1>5
<1>7. b(k) <= w
  <2>1. CASE k = 1
      BY <1>1, <2>1
  <2>2. CASE k # 1
    <3>1. k - 1 \in 1..(n - 1) /\ k - 1 \in 1..n /\ (k - 1) + 1 = k /\ ~(k <= k - 1)
        BY <1>0, <1>6, <2>2
    <3>2. k - 1 \notin over
      <4> HIDE DEF over
      <4> QED BY <1>5, <3>1
    <3> QED BY <1>0, <1>1, <3>1, <3>2
  <2> QED BY <2>1, <2>2
<1>8. w - b(k) \in 0..(pools[k].count - 1) /\ w = b(k) + (w - b(k))
    BY <1>0, <1>1, <1>6, <1>7
<1> QED BY <1>6, <1>8 DEF b
(* The workers are a number. *)
LEMMA WorkersNatural ==
    ASSUME NEW pools, NEW n, PoolsTyped(pools, n)
    PROVE  NP!Workers(pools) \in Nat
<1>1. CASE n = 0
    BY <1>1 DEF NP!Workers, PoolsTyped
<1>2. CASE n # 0
  <2>1. n \in 1..n
      BY <1>2 DEF PoolsTyped
  <2>2. NP!Workers(pools) = NP!Before(pools, n) + pools[n].count
      BY <1>2 DEF NP!Workers, PoolsTyped
  <2>3. NP!Before(pools, n) \in Nat /\ pools[n].count \in Nat
      BY <2>1, BeforeIs DEF PoolsTyped
  <2> QED BY <2>2, <2>3
<1> QED BY <1>1, <1>2

(* A configuration with pools that Validate and Precheck let pass, in parts. *)
Accepted(spec, n, machines) ==
    /\ PoolsTyped(spec.pools, n) /\ ~ NP!Unpooled(spec)
    /\ spec.controlPlanes \in Nat \ {0}
    /\ machines = spec.controlPlanes + NP!Workers(spec.pools)
    /\ \A k \in 1..n :
          /\ spec.pools[k].name # "control-plane" /\ spec.pools[k].name # ""
          /\ \A j \in 1..n : spec.pools[k].name = spec.pools[j].name => j = k
          /\ spec.pools[k].count # 0
          /\ \A i \in Nat : NP!Zone(spec.pools[k].zones, i) # ""
    /\ \A i \in Nat : NP!Zone(spec.zones, i) # ""
    /\ spec.networking = "cilium" =>
          /\ \A i \in Nat : NP!Zone(spec.zones, i) = NP!ClusterName
          /\ \A k \in 1..n : \A i \in Nat : NP!Zone(spec.pools[k].zones, i) = NP!ClusterName

(* The first machines are the control planes. *)
LEMMA ControlPlanePlace ==
    ASSUME NEW spec, NEW n, NEW machines, Accepted(spec, n, machines), NEW p \in 0..(spec.controlPlanes - 1)
    PROVE  /\ NP!managedNodeName(spec, p) = <<"control-plane", p + 1>>
           /\ NP!machineLabels(spec, p).pool = "control-plane"
           /\ NP!nodePlacementLabel(NP!machineLabels(spec, p)) = NP!Zone(spec.zones, p)
           /\ NP!KubernetesRole(spec, p) = "control-plane"
<1>0. spec.controlPlanes \in Nat /\ ~ NP!Unpooled(spec)
    BY DEF Accepted
<1>1. p \in Nat /\ p < spec.controlPlanes /\ spec.controlPlanes \in Nat /\ ~ NP!Unpooled(spec)
    BY <1>0
<1>2. p - spec.controlPlanes < 0 /\ ~(p - spec.controlPlanes >= 0)
    BY <1>1
<1>3. NP!managedNodeName(spec, p) = <<"control-plane", p + 1>>
    BY <1>2 DEF NP!managedNodeName
<1>4. NP!machineLabels(spec, p) =
          NP!ciliumPoolLabels(spec, [pool |-> "control-plane", role |-> "control-plane",
                                     zone |-> NP!Zone(spec.zones, p), cluster |-> ""])
    BY <1>1, <1>2 DEF NP!machineLabels
<1>5. spec.networking = "cilium" => NP!Zone(spec.zones, p) = NP!ClusterName
    BY <1>1 DEF Accepted
<1>6. /\ NP!machineLabels(spec, p).pool = "control-plane"
      /\ NP!nodePlacementLabel(NP!machineLabels(spec, p)) = NP!Zone(spec.zones, p)
  <2>1. spec.networking # "cilium" \/ NP!Zone(spec.zones, p) = NP!ClusterName
      BY <1>5
  <2> DEFINE made == NP!ciliumPoolLabels(spec, [pool |-> "control-plane", role |-> "control-plane",
                                                zone |-> NP!Zone(spec.zones, p), cluster |-> ""])
  <2>2. made.pool = "control-plane" /\ NP!nodePlacementLabel(made) = NP!Zone(spec.zones, p)
      BY <2>1 DEF NP!ciliumPoolLabels, NP!nodePlacementLabel, NP!ClusterName
  <2>3. NP!machineLabels(spec, p) = made
      BY <1>4
  <2> QED BY <2>2, <2>3, Zenon
<1> QED BY <1>1, <1>3, <1>6 DEF NP!KubernetesRole

(* The pools follow in their order. *)
LEMMA PoolPlace ==
    ASSUME NEW spec, NEW n, NEW machines, Accepted(spec, n, machines), NEW k \in 1..n,
           NEW i \in 0..(spec.pools[k].count - 1), NEW p, p = spec.controlPlanes + NP!Before(spec.pools, k) + i
    PROVE  /\ p \in 0..(machines - 1) /\ p >= spec.controlPlanes
           /\ NP!managedNodeName(spec, p) = <<spec.pools[k].name, i + 1>>
           /\ NP!machineLabels(spec, p).pool = spec.pools[k].name
           /\ NP!nodePlacementLabel(NP!machineLabels(spec, p)) = NP!Zone(spec.pools[k].zones, i)
           /\ NP!KubernetesRole(spec, p) = "worker"
<1>0. PICK w : w = NP!Before(spec.pools, k) + i
    OBVIOUS
<1>1. spec.controlPlanes \in Nat /\ ~ NP!Unpooled(spec) /\ PoolsTyped(spec.pools, n)
    BY DEF Accepted
<1>2. NP!Before(spec.pools, k) \in Nat /\ i \in Nat
  <2>1. NP!Before(spec.pools, k) \in Nat
      BY <1>1, BeforeIs, Zenon
  <2>2. spec.pools[k].count \in Nat
      BY <1>1, Zenon DEF PoolsTyped
  <2> QED BY <2>1, <2>2
<1>3. w \in Nat /\ w < NP!Workers(spec.pools) /\ NP!PoolsOf(spec.pools, w) # {} /\ NP!PoolOf(spec.pools, w) = k
    BY <1>0, <1>1, PoolOfMember
<1>4. p \in Nat /\ p - spec.controlPlanes = w /\ ~(w < 0) /\ ~(p < spec.controlPlanes) /\ w - NP!Before(spec.pools, k) = i
    BY <1>0, <1>1, <1>2
<1>5. NP!managedNodeName(spec, p) = <<spec.pools[k].name, w - NP!Before(spec.pools, k) + 1>>
    BY <1>3, <1>4 DEF NP!managedNodeName
<1>6. /\ NP!machineLabels(spec, p).pool = spec.pools[k].name
      /\ NP!nodePlacementLabel(NP!machineLabels(spec, p)) = NP!Zone(spec.pools[k].zones, i)
  <2>1. NP!machineLabels(spec, p) =
            NP!ciliumPoolLabels(spec, [pool |-> spec.pools[k].name, role |-> spec.pools[k].role,
                                       zone |-> NP!Zone(spec.pools[k].zones, w - NP!Before(spec.pools, k)), cluster |-> ""])
      BY <1>1, <1>3, <1>4 DEF NP!machineLabels
  <2>2. spec.networking = "cilium" => NP!Zone(spec.pools[k].zones, i) = NP!ClusterName
      BY <1>2 DEF Accepted
  <2> DEFINE made == NP!ciliumPoolLabels(spec, [pool |-> spec.pools[k].name, role |-> spec.pools[k].role,
                                                zone |-> NP!Zone(spec.pools[k].zones, i), cluster |-> ""])
  <2>3. spec.networking # "cilium" \/ NP!Zone(spec.pools[k].zones, i) = NP!ClusterName
      BY <2>2
  <2>4. made.pool = spec.pools[k].name /\ NP!nodePlacementLabel(made) = NP!Zone(spec.pools[k].zones, i)
      BY <2>3 DEF NP!ciliumPoolLabels, NP!nodePlacementLabel, NP!ClusterName
  <2>5. NP!machineLabels(spec, p) = made
    <3>1. w - NP!Before(spec.pools, k) = i
        BY <1>4
    <3> QED BY <2>1, <3>1, Zenon
  <2> QED BY <2>4, <2>5, Zenon
<1>7. machines = spec.controlPlanes + NP!Workers(spec.pools) /\ NP!Workers(spec.pools) \in Nat
    BY <1>1, WorkersNatural DEF Accepted
<1>8. p \in 0..(machines - 1)
    BY <1>1, <1>3, <1>4, <1>7
<1> QED BY <1>1, <1>4, <1>5, <1>6, <1>8 DEF NP!KubernetesRole

(* There are no other machines. *)
LEMMA EveryPlace ==
    ASSUME NEW spec, NEW n, NEW machines, Accepted(spec, n, machines), NEW p \in 0..(machines - 1)
    PROVE  \/ p \in 0..(spec.controlPlanes - 1)
           \/ \E k \in 1..n : \E i \in 0..(spec.pools[k].count - 1) : p = spec.controlPlanes + NP!Before(spec.pools, k) + i
<1>1. spec.controlPlanes \in Nat /\ PoolsTyped(spec.pools, n) /\ machines = spec.controlPlanes + NP!Workers(spec.pools)
    BY DEF Accepted
<1>2. NP!Workers(spec.pools) \in Nat
    BY <1>1, WorkersNatural
<1>3. CASE p < spec.controlPlanes
    BY <1>1, <1>2, <1>3
<1>4. CASE ~(p < spec.controlPlanes)
  <2>1. p - spec.controlPlanes \in Nat /\ p - spec.controlPlanes < NP!Workers(spec.pools)
      BY <1>1, <1>2, <1>4
  <2>2. PICK k \in 1..n : \E i \in 0..(spec.pools[k].count - 1) : p - spec.controlPlanes = NP!Before(spec.pools, k) + i
      BY <1>1, <2>1, WorkerHasPool
  <2>3. PICK i \in 0..(spec.pools[k].count - 1) : p - spec.controlPlanes = NP!Before(spec.pools, k) + i
      BY <2>2
  <2>4. NP!Before(spec.pools, k) \in Nat /\ i \in Nat /\ p \in Nat
    <3>1. spec.pools[k].count \in Nat /\ machines \in Nat
        BY <1>1, <1>2 DEF PoolsTyped
    <3>2. NP!Before(spec.pools, k) \in Nat
        BY <1>1, BeforeIs
    <3> QED BY <3>1, <3>2
  <2>5. p = spec.controlPlanes + NP!Before(spec.pools, k) + i
      BY <1>1, <2>3, <2>4
  <2> QED BY <2>5
<1> QED BY <1>3, <1>4
(* No two machines get the same name. *)
LEMMA NamesDiffer ==
    ASSUME NEW spec, NEW n, NEW machines, Accepted(spec, n, machines),
           NEW p \in 0..(machines - 1), NEW q \in 0..(machines - 1),
           NP!managedNodeName(spec, p) = NP!managedNodeName(spec, q)
    PROVE  p = q
<1> DEFINE front(r) == r \in 0..(spec.controlPlanes - 1)
           member(r, k, i) == r = spec.controlPlanes + NP!Before(spec.pools, k) + i
<1>1. \A r : front(r) => NP!managedNodeName(spec, r) = <<"control-plane", r + 1>>
    BY ControlPlanePlace
<1>2. \A k \in 1..n : \A i \in 0..(spec.pools[k].count - 1) : \A r :
        member(r, k, i) => NP!managedNodeName(spec, r) = <<spec.pools[k].name, i + 1>>
    BY PoolPlace
<1>3. /\ front(p) \/ \E k \in 1..n : \E i \in 0..(spec.pools[k].count - 1) : member(p, k, i)
      /\ front(q) \/ \E k \in 1..n : \E i \in 0..(spec.pools[k].count - 1) : member(q, k, i)
    BY EveryPlace
<1>4. \A k \in 1..n : /\ spec.pools[k].name # "control-plane"
                      /\ \A j \in 1..n : spec.pools[k].name = spec.pools[j].name => j = k
    BY DEF Accepted
<1>5. spec.controlPlanes \in Nat /\ \A k \in 1..n : spec.pools[k].count \in Nat
    BY DEF Accepted, PoolsTyped
<1>6. CASE front(p) /\ front(q)
  <2>1. <<"control-plane", p + 1>> = <<"control-plane", q + 1>>
      BY <1>1, <1>6
  <2>2. p \in Nat /\ q \in Nat
      BY <1>5, <1>6
  <2> QED BY <2>1, <2>2
<1>7. CASE front(p) /\ ~ front(q)
  <2>1. PICK k, i : k \in 1..n /\ i \in 0..(spec.pools[k].count - 1) /\ member(q, k, i)
      BY <1>3, <1>7
  <2>2. <<"control-plane", p + 1>> = <<spec.pools[k].name, i + 1>>
      BY <1>1, <1>2, <1>7, <2>1
  <2> QED BY <1>4, <2>1, <2>2
<1>8. CASE ~ front(p) /\ front(q)
  <2>1. PICK k, i : k \in 1..n /\ i \in 0..(spec.pools[k].count - 1) /\ member(p, k, i)
      BY <1>3, <1>8
  <2>2. <<"control-plane", q + 1>> = <<spec.pools[k].name, i + 1>>
      BY <1>1, <1>2, <1>8, <2>1
  <2> QED BY <1>4, <2>1, <2>2
<1>9. CASE ~ front(p) /\ ~ front(q)
  <2>1. PICK k, i : k \in 1..n /\ i \in 0..(spec.pools[k].count - 1) /\ member(p, k, i)
      BY <1>3, <1>9
  <2>2. PICK l, j : l \in 1..n /\ j \in 0..(spec.pools[l].count - 1) /\ member(q, l, j)
      BY <1>3, <1>9
  <2>3. <<spec.pools[k].name, i + 1>> = <<spec.pools[l].name, j + 1>>
      BY <1>2, <2>1, <2>2
  <2>4. k = l /\ i + 1 = j + 1
      BY <1>4, <2>1, <2>2, <2>3
  <2>5. i \in Nat /\ j \in Nat
      BY <1>5, <2>1, <2>2
  <2>6. k = l /\ i = j
      BY <2>4, <2>5
  <2> QED BY <2>1, <2>2, <2>6
<1> QED BY <1>6, <1>7, <1>8, <1>9

(* Numbered names are as many as their numbers. *)
LEMMA Numbered ==
    ASSUME NEW name, NEW size \in Nat, NEW S \in SUBSET (0..(size - 1))
    PROVE  Cardinality({<<name, i + 1>> : i \in S}) = Cardinality(S)
<1> DEFINE T == {<<name, i + 1>> : i \in S}
           f == [i \in S |-> <<name, i + 1>>]
<1>1. \A i \in S : i \in Nat
    OBVIOUS
<1>2. f \in [S -> T] /\ (\A i, j \in S : f[i] = f[j] => i = j) /\ \A t \in T : \E i \in S : f[i] = t
    BY <1>1
<1>3. f \in Bijection(S, T)
    BY <1>2 DEF Bijection, Injection, Surjection, IsInjective
<1>4. IsFiniteSet(S)
  <2>1. 0 \in Int /\ size - 1 \in Int
      OBVIOUS
  <2>2. IsFiniteSet(0..(size - 1))
      BY <2>1, FS_Interval
  <2> QED BY <2>2, FS_Subset
<1> QED BY <1>3, <1>4, FS_Bijection DEF ExistsBijection

(* The cluster that comes up has a node for every machine. *)
LEMMA InstalledIs ==
    ASSUME NEW spec, NEW machines \in Nat, NEW nodes, nodes = NP!Installed(spec, machines),
           \A p, q \in 0..(machines - 1) : NP!managedNodeName(spec, p) = NP!managedNodeName(spec, q) => p = q
    PROVE  /\ DOMAIN nodes = {NP!managedNodeName(spec, p) : p \in 0..(machines - 1)}
           /\ Cardinality(DOMAIN nodes) = machines
           /\ \A p \in 0..(machines - 1) :
                 /\ nodes[NP!managedNodeName(spec, p)].role = NP!KubernetesRole(spec, p)
                 /\ nodes[NP!managedNodeName(spec, p)].pool = NP!machineLabels(spec, p).pool
                 /\ nodes[NP!managedNodeName(spec, p)].zone = NP!nodePlacementLabel(NP!machineLabels(spec, p))
<1> DEFINE P == 0..(machines - 1)
           f == [p \in P |-> NP!managedNodeName(spec, p)]
           T == {NP!managedNodeName(spec, p) : p \in P}
           Node(p) == [role |-> NP!KubernetesRole(spec, p), pool |-> NP!machineLabels(spec, p).pool,
                       zone |-> NP!nodePlacementLabel(NP!machineLabels(spec, p))]
<1>1. nodes = [name \in T |-> Node(CHOOSE q \in P : NP!managedNodeName(spec, q) = name)]
    BY Zenon DEF NP!Installed
<1>2. DOMAIN nodes = T
    BY <1>1
<1>3. ASSUME NEW p \in P PROVE nodes[NP!managedNodeName(spec, p)] = Node(p)
  <2>1. (CHOOSE q \in P : NP!managedNodeName(spec, q) = NP!managedNodeName(spec, p)) = p
      OBVIOUS
  <2>2. NP!managedNodeName(spec, p) \in T
      OBVIOUS
  <2> HIDE DEF Node, T, P
  <2> QED BY <1>1, <2>1, <2>2
<1>4. Cardinality(T) = machines
  <2>1. f \in [P -> T] /\ (\A i, j \in P : f[i] = f[j] => i = j) /\ \A t \in T : \E i \in P : f[i] = t
      OBVIOUS
  <2>2. f \in Bijection(P, T)
    <3> HIDE DEF f, P, T
    <3> QED BY <2>1 DEF Bijection, Injection, Surjection, IsInjective
  <2>3. IsFiniteSet(P) /\ Cardinality(P) = machines
      BY FS_Interval
  <2> HIDE DEF f, P, T
  <2> QED BY <2>2, <2>3, FS_Bijection DEF ExistsBijection
<1>5. ASSUME NEW p \in P
      PROVE  /\ Node(p).role = NP!KubernetesRole(spec, p) /\ Node(p).pool = NP!machineLabels(spec, p).pool
             /\ Node(p).zone = NP!nodePlacementLabel(NP!machineLabels(spec, p))
    OBVIOUS
<1> HIDE DEF Node
<1> QED BY <1>2, <1>3, <1>4, <1>5

(* NodePools counts as everybody does. *)
LEMMA SameCount ==
    ASSUME NEW S
    PROVE  NP!Cardinality(S) = Cardinality(S)
BY Zenon DEF NP!Cardinality, Cardinality

(* Distinct names are all that the check of the topology needs. *)
LEMMA TopologyHolds ==
    ASSUME NEW spec, NEW machines \in Nat, NEW nodes, nodes = NP!Installed(spec, machines),
           \A p, q \in 0..(machines - 1) : NP!managedNodeName(spec, p) = NP!managedNodeName(spec, q) => p = q
    PROVE  NP!validateInventoryTopology(nodes, machines, spec)
<1> DEFINE P == 0..(machines - 1)
           nm(p) == NP!managedNodeName(spec, p)
<1>1. /\ DOMAIN nodes = {nm(p) : p \in P}
      /\ Cardinality(DOMAIN nodes) = machines
      /\ \A p \in P : nodes[nm(p)].role = NP!KubernetesRole(spec, p)
  <2>1. DOMAIN nodes = {nm(p) : p \in P}
      BY DEF NP!Installed
  <2>2. Cardinality(DOMAIN nodes) = machines
      BY InstalledIs
  <2>3. \A p \in P : nodes[nm(p)].role = NP!KubernetesRole(spec, p)
      BY InstalledIs
  <2> QED BY <2>1, <2>2, <2>3
<1>2. \A p \in P : nm(p) \in DOMAIN nodes
  <2> HIDE DEF nm, P
  <2> QED BY <1>1
<1> QED BY <1>1, <1>2, SameCount, Zenon DEF NP!validateInventoryTopology

(* A pool whose nodes are numbered, with the zones in turn, is one that the
   check of the inventory expects. *)
LEMMA PoolFits ==
    ASSUME NEW nodes, NEW name, NEW size \in Nat, NEW zones,
           \A x \in DOMAIN nodes : nodes[x].pool = name => \E i \in 0..(size - 1) : x = <<name, i + 1>>,
           \A i \in 0..(size - 1) : /\ <<name, i + 1>> \in DOMAIN nodes
                                    /\ nodes[<<name, i + 1>>].pool = name
                                    /\ nodes[<<name, i + 1>>].zone = NP!Zone(zones, i)
    PROVE  NP!PoolMatches(nodes, name, size, zones)
<1> DEFINE P == 0..(size - 1)
           members == {x \in DOMAIN nodes : nodes[x].pool = name}
<1>0. ASSUME NEW S \in SUBSET P PROVE Cardinality({<<name, i + 1>> : i \in S}) = Cardinality(S)
    BY <1>0, Numbered, ZenonT(30)
<1>1. members = {<<name, i + 1>> : i \in P}
    OBVIOUS
<1>2. Cardinality(members) = size
  <2>1. 0 \in Int /\ size - 1 \in Int /\ P \in SUBSET (0..(size - 1))
      OBVIOUS
  <2>2. Cardinality(P) = size
      BY <2>1, FS_Interval
  <2>3. Cardinality(members) = Cardinality(P)
    <3> HIDE DEF members
    <3> QED BY <1>0, <1>1, <2>1
  <2> QED BY <2>2, <2>3
<1>3. ASSUME NEW zone PROVE NP!Count(nodes, name, zone) = NP!Expected(size, zones, zone)
  <2> DEFINE S == {i \in P : NP!Zone(zones, i) = zone}
             T == {x \in DOMAIN nodes : nodes[x].pool = name /\ nodes[x].zone = zone}
  <2>1. T = {<<name, i + 1>> : i \in S}
      BY <1>1
  <2>2. Cardinality(T) = Cardinality(S)
    <3>1. S \in SUBSET (0..(size - 1))
        OBVIOUS
    <3> HIDE DEF S, T
    <3> QED BY <1>0, <2>1, <3>1
  <2>3. NP!Count(nodes, name, zone) = Cardinality(T) /\ NP!Expected(size, zones, zone) = Cardinality(S)
      BY SameCount, Zenon DEF NP!Count, NP!Expected
  <2> HIDE DEF S, T
  <2> QED BY <2>2, <2>3
<1> HIDE DEF P
<1> QED BY <1>2, <1>3, SameCount, Zenon DEF NP!PoolMatches
(* The nodes of a configuration with pools: the control planes and the
   members of each pool, numbered, with their zones in turn. *)
PooledOnes(spec, n, machines, nodes) ==
    /\ NP!validateInventoryTopology(nodes, machines, spec)
    /\ \A i \in 0..(spec.controlPlanes - 1) :
          /\ <<"control-plane", i + 1>> \in DOMAIN nodes
          /\ nodes[<<"control-plane", i + 1>>].role = "control-plane"
          /\ nodes[<<"control-plane", i + 1>>].pool = "control-plane"
          /\ nodes[<<"control-plane", i + 1>>].zone = NP!Zone(spec.zones, i)
    /\ \A k \in 1..n : \A i \in 0..(spec.pools[k].count - 1) :
          /\ <<spec.pools[k].name, i + 1>> \in DOMAIN nodes
          /\ nodes[<<spec.pools[k].name, i + 1>>].role = "worker"
          /\ nodes[<<spec.pools[k].name, i + 1>>].pool = spec.pools[k].name
          /\ nodes[<<spec.pools[k].name, i + 1>>].zone = NP!Zone(spec.pools[k].zones, i)
    /\ \A x \in DOMAIN nodes :
          \/ \E i \in 0..(spec.controlPlanes - 1) : x = <<"control-plane", i + 1>>
          \/ \E k \in 1..n : \E i \in 0..(spec.pools[k].count - 1) : x = <<spec.pools[k].name, i + 1>>

(* Installation gives these nodes. *)
LEMMA PooledNodes ==
    ASSUME NEW spec, NEW n, NEW machines \in Nat, Accepted(spec, n, machines), NEW nodes, nodes = NP!Installed(spec, machines)
    PROVE  PooledOnes(spec, n, machines, nodes)
<1> DEFINE P == 0..(machines - 1)
           nm(p) == NP!managedNodeName(spec, p)
<1>1. \A p, q \in P : nm(p) = nm(q) => p = q
    BY NamesDiffer
<1>2. /\ DOMAIN nodes = {nm(p) : p \in P}
      /\ Cardinality(DOMAIN nodes) = machines
      /\ \A p \in P : /\ nodes[nm(p)].role = NP!KubernetesRole(spec, p)
                      /\ nodes[nm(p)].pool = NP!machineLabels(spec, p).pool
                      /\ nodes[nm(p)].zone = NP!nodePlacementLabel(NP!machineLabels(spec, p))
  <2>1. DOMAIN nodes = {nm(p) : p \in P}
      BY DEF NP!Installed
  <2>2. Cardinality(DOMAIN nodes) = machines
      BY <1>1, InstalledIs
  <2>3. ASSUME NEW p \in P
        PROVE  /\ nodes[nm(p)].role = NP!KubernetesRole(spec, p)
               /\ nodes[nm(p)].pool = NP!machineLabels(spec, p).pool
               /\ nodes[nm(p)].zone = NP!nodePlacementLabel(NP!machineLabels(spec, p))
      BY <1>1, InstalledIs
  <2> QED BY <2>1, <2>2, <2>3
<1> HIDE DEF P
<1>3. NP!validateInventoryTopology(nodes, machines, spec)
    BY <1>1, TopologyHolds DEF P
<1>4. ASSUME NEW i \in 0..(spec.controlPlanes - 1)
      PROVE  /\ <<"control-plane", i + 1>> \in DOMAIN nodes
             /\ nodes[<<"control-plane", i + 1>>].role = "control-plane"
             /\ nodes[<<"control-plane", i + 1>>].pool = "control-plane"
             /\ nodes[<<"control-plane", i + 1>>].zone = NP!Zone(spec.zones, i)
  <2>1. i \in P
    <3>1. spec.controlPlanes \in Nat /\ machines = spec.controlPlanes + NP!Workers(spec.pools) /\ PoolsTyped(spec.pools, n)
        BY DEF Accepted
    <3>2. NP!Workers(spec.pools) \in Nat
        BY <3>1, WorkersNatural
    <3> QED BY <3>1, <3>2 DEF P
  <2>2. nm(i) = <<"control-plane", i + 1>>
      BY ControlPlanePlace
  <2>3. /\ NP!machineLabels(spec, i).pool = "control-plane" /\ NP!nodePlacementLabel(NP!machineLabels(spec, i)) = NP!Zone(spec.zones, i)
        /\ NP!KubernetesRole(spec, i) = "control-plane"
      BY ControlPlanePlace
  <2> HIDE DEF nm
  <2> QED BY <1>2, <2>1, <2>2, <2>3
<1>5. ASSUME NEW k \in 1..n, NEW i \in 0..(spec.pools[k].count - 1)
      PROVE  /\ <<spec.pools[k].name, i + 1>> \in DOMAIN nodes
             /\ nodes[<<spec.pools[k].name, i + 1>>].role = "worker"
             /\ nodes[<<spec.pools[k].name, i + 1>>].pool = spec.pools[k].name
             /\ nodes[<<spec.pools[k].name, i + 1>>].zone = NP!Zone(spec.pools[k].zones, i)
  <2>1. PICK p : p = spec.controlPlanes + NP!Before(spec.pools, k) + i
      OBVIOUS
  <2>2. /\ p \in P /\ nm(p) = <<spec.pools[k].name, i + 1>>
        /\ NP!machineLabels(spec, p).pool = spec.pools[k].name
        /\ NP!nodePlacementLabel(NP!machineLabels(spec, p)) = NP!Zone(spec.pools[k].zones, i)
        /\ NP!KubernetesRole(spec, p) = "worker"
      BY <2>1, PoolPlace DEF P
  <2> HIDE DEF nm
  <2> QED BY <1>2, <2>2
<1>6. ASSUME NEW x \in DOMAIN nodes
      PROVE  \/ \E i \in 0..(spec.controlPlanes - 1) : x = <<"control-plane", i + 1>>
             \/ \E k \in 1..n : \E i \in 0..(spec.pools[k].count - 1) : x = <<spec.pools[k].name, i + 1>>
  <2>1. PICK p \in P : x = nm(p)
      BY <1>2
  <2>2. CASE p \in 0..(spec.controlPlanes - 1)
      BY <2>1, <2>2, ControlPlanePlace
  <2>3. CASE \E k \in 1..n : \E i \in 0..(spec.pools[k].count - 1) : p = spec.controlPlanes + NP!Before(spec.pools, k) + i
    <3>1. PICK k, i : /\ k \in 1..n /\ i \in 0..(spec.pools[k].count - 1)
                      /\ p = spec.controlPlanes + NP!Before(spec.pools, k) + i
        BY <2>3
    <3>2. nm(p) = <<spec.pools[k].name, i + 1>>
        BY <3>1, PoolPlace
    <3> QED BY <2>1, <3>1, <3>2
  <2> QED BY <2>2, <2>3, EveryPlace DEF P
<1> QED BY <1>3, <1>4, <1>5, <1>6 DEF PooledOnes

(* A configuration with pools passes the checks of the running cluster. *)
LEMMA PooledPasses ==
    ASSUME NEW spec, NEW n, NEW machines \in Nat, Accepted(spec, n, machines), NEW nodes, nodes = NP!Installed(spec, machines)
    PROVE  /\ NP!validateInventoryTopology(nodes, machines, spec)
           /\ NP!validateInventoryPools(nodes, spec)
<1> DEFINE cp(i) == <<"control-plane", i + 1>>
           wk(k, i) == <<spec.pools[k].name, i + 1>>
           C == 0..(spec.controlPlanes - 1)
           W(k) == 0..(spec.pools[k].count - 1)
<1>0. PooledOnes(spec, n, machines, nodes)
    BY PooledNodes
<1>1. NP!validateInventoryTopology(nodes, machines, spec)
    BY <1>0 DEF PooledOnes
<1>2. \A i \in C : /\ cp(i) \in DOMAIN nodes /\ nodes[cp(i)].role = "control-plane"
                   /\ nodes[cp(i)].pool = "control-plane" /\ nodes[cp(i)].zone = NP!Zone(spec.zones, i)
    BY <1>0 DEF PooledOnes
<1>3. \A k \in 1..n : \A i \in W(k) :
         /\ wk(k, i) \in DOMAIN nodes /\ nodes[wk(k, i)].role = "worker"
         /\ nodes[wk(k, i)].pool = spec.pools[k].name /\ nodes[wk(k, i)].zone = NP!Zone(spec.pools[k].zones, i)
    BY <1>0, Zenon DEF PooledOnes
<1>4. \A x \in DOMAIN nodes : (\E i \in C : x = cp(i)) \/ \E k \in 1..n : \E i \in W(k) : x = wk(k, i)
    BY <1>0, Zenon DEF PooledOnes
<1>5. \A k \in 1..n : /\ spec.pools[k].name # "control-plane" /\ spec.pools[k].name # ""
                      /\ \A j \in 1..n : spec.pools[k].name = spec.pools[j].name => j = k
    BY DEF Accepted
<1>6. /\ \A i \in Nat : NP!Zone(spec.zones, i) # ""
      /\ \A k \in 1..n : \A i \in Nat : NP!Zone(spec.pools[k].zones, i) # ""
    BY DEF Accepted
<1>7. /\ spec.controlPlanes \in Nat /\ 0 \in C /\ C \subseteq Nat
      /\ \A k \in 1..n : spec.pools[k].count \in Nat /\ 0 \in W(k) /\ W(k) \subseteq Nat
  <2>1. spec.controlPlanes \in Nat \ {0} /\ \A k \in 1..n : spec.pools[k].count \in Nat \ {0}
      BY DEF Accepted, PoolsTyped
  <2> QED BY <2>1
<1>8. DOMAIN spec.pools = 1..n
    BY DEF Accepted, PoolsTyped
<1>9. ASSUME NEW x \in DOMAIN nodes
      PROVE  /\ nodes[x].pool # "" /\ nodes[x].zone # ""
             /\ nodes[x].role = "control-plane" <=> nodes[x].pool = "control-plane"
             /\ nodes[x].pool = "control-plane" \/ \E k \in 1..n : nodes[x].pool = spec.pools[k].name
  <2> HIDE DEF cp, wk, C, W
  <2>1. CASE \E i \in C : x = cp(i)
      BY <1>2, <1>6, <1>7, <2>1
  <2>2. CASE \E k \in 1..n : \E i \in W(k) : x = wk(k, i)
    <3>1. PICK k \in 1..n : \E i \in W(k) : x = wk(k, i)
        BY <2>2
    <3>2. PICK i \in W(k) : x = wk(k, i)
        BY <3>1
    <3>3. /\ nodes[x].role = "worker" /\ nodes[x].pool = spec.pools[k].name
          /\ nodes[x].zone = NP!Zone(spec.pools[k].zones, i) /\ i \in Nat
        BY <1>3, <1>7, <3>2
    <3> QED BY <1>5, <1>6, <3>3
  <2> QED BY <1>4, <2>1, <2>2
<1>10. {nodes[x].pool : x \in DOMAIN nodes} = {"control-plane"} \cup {spec.pools[k].name : k \in 1..n}
  <2> HIDE DEF cp, wk, C, W
  <2>1. cp(0) \in DOMAIN nodes /\ nodes[cp(0)].pool = "control-plane"
      BY <1>2, <1>7
  <2>2. \A k \in 1..n : wk(k, 0) \in DOMAIN nodes /\ nodes[wk(k, 0)].pool = spec.pools[k].name
      BY <1>3, <1>7
  <2> DEFINE L == {nodes[x].pool : x \in DOMAIN nodes}
             R == {"control-plane"} \cup {spec.pools[k].name : k \in 1..n}
  <2>3. L \subseteq R
      BY <1>9, ZenonT(30)
  <2>4. "control-plane" \in L /\ \A k \in 1..n : spec.pools[k].name \in L
      BY <2>1, <2>2
  <2>5. R \subseteq L
    <3> HIDE DEF L
    <3> QED BY <2>4
  <2> QED BY <2>3, <2>5
<1>11. NP!PoolMatches(nodes, "control-plane", spec.controlPlanes, spec.zones)
  <2>1. ASSUME NEW x \in DOMAIN nodes, nodes[x].pool = "control-plane"
        PROVE  \E i \in C : x = cp(i)
    <3> HIDE DEF cp, wk, C, W
    <3>1. ASSUME NEW j \in 1..n, NEW i \in W(j), x = wk(j, i) PROVE FALSE
        BY <1>3, <1>5, <2>1, <3>1
    <3> QED BY <1>4, <2>1, <3>1
  <2> QED BY <1>2, <1>7, <2>1, PoolFits
<1>12. ASSUME NEW k \in 1..n
       PROVE  NP!PoolMatches(nodes, spec.pools[k].name, spec.pools[k].count, spec.pools[k].zones)
  <2>1. ASSUME NEW x \in DOMAIN nodes, nodes[x].pool = spec.pools[k].name
        PROVE  \E i \in W(k) : x = wk(k, i)
    <3> HIDE DEF cp, wk, C, W
    <3>1. ASSUME NEW i \in C, x = cp(i) PROVE FALSE
        BY <1>2, <1>5, <2>1, <3>1
    <3>2. ASSUME NEW j \in 1..n, NEW i \in W(j), x = wk(j, i) PROVE j = k
        BY <1>3, <1>5, <2>1, <3>2
    <3> QED BY <1>4, <2>1, <3>1, <3>2
  <2> QED BY <1>3, <1>7, <2>1, PoolFits
<1>13. NP!validateInventoryPools(nodes, spec)
  <2> HIDE DEF cp, wk, C, W
  <2>1. \A x \in DOMAIN nodes : /\ nodes[x].pool # "" /\ nodes[x].zone # ""
                                /\ (nodes[x].role = "control-plane") = (nodes[x].pool = "control-plane")
      BY <1>9
  <2> QED BY <1>8, <1>10, <1>11, <1>12, <2>1 DEF NP!validateInventoryPools
<1> QED BY <1>1, <1>13
(* Without pools and zones the nodes are numbered by their role. *)
LEMMA UnpooledPasses ==
    ASSUME NEW spec, NP!Unpooled(spec), spec.controlPlanes \in Nat, NEW machines \in Nat,
           NEW nodes, nodes = NP!Installed(spec, machines)
    PROVE  /\ NP!validateInventoryTopology(nodes, machines, spec)
           /\ NP!validateInventoryPools(nodes, spec)
<1> DEFINE P == 0..(machines - 1)
           nm(p) == NP!managedNodeName(spec, p)
<1>1. \A w : NP!PoolsOf(spec.pools, w) = {}
    BY DEF NP!PoolsOf, NP!Unpooled
<1>2. ASSUME NEW p \in P
      PROVE  nm(p) = IF p < spec.controlPlanes THEN <<"control-plane", p + 1>> ELSE <<"worker", p - spec.controlPlanes + 1>>
  <2>1. p \in Nat
      OBVIOUS
  <2>2. CASE p < spec.controlPlanes
    <3>1. p - spec.controlPlanes < 0 /\ ~(p - spec.controlPlanes >= 0)
        BY <2>1, <2>2
    <3>2. nm(p) = <<"control-plane", p + 1>>
        BY <3>1 DEF NP!managedNodeName
    <3> QED BY <2>2, <3>2
  <2>3. CASE ~(p < spec.controlPlanes)
    <3>1. ~(p - spec.controlPlanes < 0) /\ p - spec.controlPlanes >= 0
        BY <2>1, <2>3
    <3>2. nm(p) = <<"worker", p - spec.controlPlanes + 1>>
        BY <1>1, <3>1 DEF NP!managedNodeName
    <3> QED BY <2>3, <3>2
  <2> QED BY <2>2, <2>3
<1>3. \A p \in P : p \in Nat
    OBVIOUS
<1>4. ASSUME NEW p \in P, NEW q \in P, nm(p) = nm(q) PROVE p = q
  <2> HIDE DEF nm, P
  <2>1. CASE p < spec.controlPlanes /\ q < spec.controlPlanes
    <3>1. <<"control-plane", p + 1>> = <<"control-plane", q + 1>>
        BY <1>2, <1>4, <2>1
    <3> QED BY <1>3, <3>1
  <2>2. CASE ~(p < spec.controlPlanes) /\ ~(q < spec.controlPlanes)
    <3>1. <<"worker", p - spec.controlPlanes + 1>> = <<"worker", q - spec.controlPlanes + 1>>
        BY <1>2, <1>4, <2>2
    <3> QED BY <1>3, <3>1
  <2>3. CASE p < spec.controlPlanes /\ ~(q < spec.controlPlanes)
      BY <1>2, <1>4, <2>3
  <2>4. CASE ~(p < spec.controlPlanes) /\ q < spec.controlPlanes
      BY <1>2, <1>4, <2>4
  <2> QED BY <2>1, <2>2, <2>3, <2>4
<1>5. \A p, q \in 0..(machines - 1) : NP!managedNodeName(spec, p) = NP!managedNodeName(spec, q) => p = q
    BY <1>4
<1>6. NP!validateInventoryTopology(nodes, machines, spec)
    BY <1>5, TopologyHolds
<1> QED BY <1>6 DEF NP!validateInventoryPools

(* A configuration whose names, roles and zones are taken from Words. *)
PoolsOver(Words) == [name : Words, role : Words, count : Nat, zones : Seq(Words)]
LayoutTyped(spec, Words) ==
    /\ spec \in [networking : {"flannel", "cilium"}, controlPlanes : Nat, zones : Seq(Words), pools : Seq(PoolsOver(Words))]
    /\ "" \notin Words

(* A list of one zone. *)
LEMMA OneZone ==
    ASSUME NEW zones, zones = <<NP!ClusterName>>, NEW i \in Nat
    PROVE  NP!Zone(zones, i) = NP!ClusterName
<1>1. Len(zones) = 1 /\ zones[1] = NP!ClusterName /\ i % 1 = 0
    OBVIOUS
<1> QED BY <1>1 DEF NP!Zone

(* A zone is one of those listed. *)
LEMMA ZoneIsWord ==
    ASSUME NEW Words, NEW zones \in Seq(Words), zones # <<>>, NEW i \in Nat
    PROVE  NP!Zone(zones, i) \in Words
<1>1. PICK l : l = Len(zones)
    OBVIOUS
<1>2. l \in Nat /\ l # 0
    BY <1>1, EmptySeq, LenProperties
<1>3. i % l \in 0..(l - 1)
    BY <1>2
<1>4. (i % l) + 1 \in 1..l
    BY <1>2, <1>3
<1>5. zones[(i % l) + 1] \in Words
    BY <1>1, <1>4, ElementOfSeq
<1> QED BY <1>1, <1>5 DEF NP!Zone

(* LayoutPassesItsChecks of NodePools for every configuration: any number of
   pools of any size, any zones and any number of machines.  What Validate
   and Precheck of plugins/k3s let pass, Execute and Verify never refuse
   because of its layout (machineLabels, managedNodeName,
   validateInventoryPools, validateInventoryTopology), provided that the
   zones of a Cilium cluster are its name, as createMultiCluster sets them:
   Validate does not demand it. *)
THEOREM LayoutsPass ==
    ASSUME NEW Words, NEW spec, LayoutTyped(spec, Words), NEW machines \in Nat
    PROVE  NP!LayoutPassesItsChecks(spec, machines)
<1> SUFFICES ASSUME spec.controlPlanes \in {1, 3}, NP!validatePoolConfiguration(spec),
                    NP!validatePoolCapacity(spec, machines),
                    spec.networking = "cilium" => NP!ZonesAreTheCluster(spec)
             PROVE  /\ NP!validateInventoryTopology(NP!Installed(spec, machines), machines, spec)
                    /\ NP!validateInventoryPools(NP!Installed(spec, machines), spec)
    BY DEF NP!LayoutPassesItsChecks
<1>1. CASE NP!Unpooled(spec)
  <2>1. spec.controlPlanes \in Nat
      OBVIOUS
  <2> QED BY <1>1, <2>1, UnpooledPasses
<1>2. CASE ~ NP!Unpooled(spec)
  <2>1. PICK n : n = Len(spec.pools)
      OBVIOUS
  <2>2. /\ n \in Nat /\ DOMAIN spec.pools = 1..n /\ (n = 0 <=> spec.pools = <<>>)
        /\ \A k \in 1..n : spec.pools[k] \in PoolsOver(Words)
      BY <2>1, LenProperties, EmptySeq, ElementOfSeq DEF LayoutTyped
  <2>3. \A k \in 1..n : /\ spec.pools[k].name \in Words /\ spec.pools[k].count \in Nat
                         /\ spec.pools[k].zones \in Seq(Words)
      BY <2>2 DEF PoolsOver
  <2>4. PoolsTyped(spec.pools, n)
      BY <2>1, <2>2, <2>3 DEF PoolsTyped
  <2>5. /\ spec.zones # <<>>
        /\ \A k \in 1..n : /\ spec.pools[k].name # "control-plane"
                           /\ \A j \in 1..n : spec.pools[k].name = spec.pools[j].name => k = j
                           /\ spec.pools[k].count \in 1..12
                           /\ spec.pools[k].zones # <<>>
      BY <1>2, <2>2 DEF NP!validatePoolConfiguration
  <2>6. machines = spec.controlPlanes + NP!Workers(spec.pools)
      BY <1>2 DEF NP!validatePoolCapacity
  <2>7. \A i \in Nat : NP!Zone(spec.zones, i) \in Words
      BY <2>5, ZoneIsWord DEF LayoutTyped
  <2>8. \A k \in 1..n : \A i \in Nat : NP!Zone(spec.pools[k].zones, i) \in Words
      BY <2>3, <2>5, ZoneIsWord
  <2>9. \A k \in 1..n : spec.pools[k].count # 0
      BY <2>5, SMTT(30)
  <2>10. spec.controlPlanes \in Nat \ {0}
      OBVIOUS
  <2>11. "" \notin Words
      BY DEF LayoutTyped
  <2>12. spec.networking = "cilium" =>
            /\ \A i \in Nat : NP!Zone(spec.zones, i) = NP!ClusterName
            /\ \A k \in 1..n : \A i \in Nat : NP!Zone(spec.pools[k].zones, i) = NP!ClusterName
      BY <2>2, OneZone DEF NP!ZonesAreTheCluster
  <2>13. Accepted(spec, n, machines)
      BY <1>2, <2>3, <2>4, <2>5, <2>6, <2>7, <2>8, <2>9, <2>10, <2>11, <2>12 DEF Accepted
  <2> QED BY <2>13, PooledPasses
<1> QED BY <1>1, <1>2

(* The inputs of the run. *)
Terms == {"a", "b", "p", "q", "control-plane", "management", "application", "cluster"}

(* Their zones. *)
LEMMA ZonesAreTerms == Zones \subseteq Seq(Terms)
<1>1. "a" \in Terms /\ "b" \in Terms
    BY DEF Terms
<1>2. <<>> \in Seq(Terms) /\ <<"a">> \in Seq(Terms) /\ <<"b", "a">> \in Seq(Terms)
    BY <1>1
<1> QED BY <1>2 DEF Zones

(* A layout is grown pool by pool. *)
LEMMA LayoutInit ==
    ASSUME Init
    PROVE  LayoutTyped(layout, Terms)
<1>1. PICK n \in {1, 3}, zones \in Zones : layout = [networking |-> "flannel", controlPlanes |-> n, zones |-> zones, pools |-> <<>>]
    BY Zenon DEF Init, Zones
<1>2. zones \in Seq(Terms)
    BY ZonesAreTerms
<1>3. "" \notin Terms
    BY DEF Terms
<1>4. layout \in [networking : {"flannel", "cilium"}, controlPlanes : Nat, zones : Seq(Terms), pools : Seq(PoolsOver(Terms))]
    BY <1>1, <1>2
<1> QED BY <1>3, <1>4, Zenon DEF LayoutTyped

(* One more pool. *)
LEMMA PoolAdded ==
    ASSUME NEW Words, NEW spec \in [networking : {"flannel", "cilium"}, controlPlanes : Nat, zones : Seq(Words), pools : Seq(PoolsOver(Words))],
           NEW pool \in PoolsOver(Words)
    PROVE  [spec EXCEPT !.pools = Append(@, pool)] \in
               [networking : {"flannel", "cilium"}, controlPlanes : Nat, zones : Seq(Words), pools : Seq(PoolsOver(Words))]
<1>1. Append(spec.pools, pool) \in Seq(PoolsOver(Words))
    BY AppendProperties
<1> QED BY <1>1

(* Every step adds a pool or leaves the layout alone. *)
LEMMA LayoutNext ==
    ASSUME LayoutTyped(layout, Terms), [Next]_vars
    PROVE  LayoutTyped(layout', Terms)
<1>1. CASE UNCHANGED layout
    BY <1>1
<1>2. CASE AddPool
  <2>1. PICK name \in {"control-plane", "p", "q"}, role \in {"management", "application"}, n \in 1..2, zones \in Zones :
           layout' = [layout EXCEPT !.pools = Append(@, [name |-> name, role |-> role, count |-> n, zones |-> zones])]
      BY <1>2, Zenon DEF AddPool
  <2>2. PICK pool : pool = [name |-> name, role |-> role, count |-> n, zones |-> zones]
      OBVIOUS
  <2>3. name \in Terms /\ role \in Terms /\ zones \in Seq(Terms)
      BY ZonesAreTerms DEF Terms
  <2>4. pool \in PoolsOver(Terms)
      BY <2>2, <2>3 DEF PoolsOver
  <2>5. layout \in [networking : {"flannel", "cilium"}, controlPlanes : Nat, zones : Seq(Terms), pools : Seq(PoolsOver(Terms))] /\ "" \notin Terms
      BY Zenon DEF LayoutTyped
  <2>6. layout' \in [networking : {"flannel", "cilium"}, controlPlanes : Nat, zones : Seq(Terms), pools : Seq(PoolsOver(Terms))]
      BY <2>1, <2>2, <2>4, <2>5, PoolAdded, Zenon
  <2> QED BY <2>5, <2>6, Zenon DEF LayoutTyped
<1>3. AddPool \/ UNCHANGED layout
    BY DEF Next, vars, AddScheduledStage, AddOrderedStage, AddStage, Event, Restart, Scrape
<1> QED BY <1>1, <1>2, <1>3

(* A member of a group is such a layout too. *)
LEMMA MemberTyped ==
    ASSUME LayoutTyped(layout, Terms)
    PROVE  LayoutTyped(NP!createMultiCluster(layout), Terms)
<1>1. NP!ClusterName \in Terms
    BY DEF Terms, NP!ClusterName
<1>2. <<NP!ClusterName>> \in Seq(Terms)
    BY <1>1
<1>3. PICK n \in Nat : layout.pools \in [1..n -> PoolsOver(Terms)] /\ DOMAIN layout.pools = 1..n
    BY LenProperties DEF LayoutTyped
<1> DEFINE Pools == [i \in DOMAIN layout.pools |-> [layout.pools[i] EXCEPT !.zones = <<NP!ClusterName>>]]
<1>4. \A i \in 1..n : [layout.pools[i] EXCEPT !.zones = <<NP!ClusterName>>] \in PoolsOver(Terms)
    BY <1>2, <1>3 DEF PoolsOver
<1>5. Pools \in [1..n -> PoolsOver(Terms)]
    BY <1>3, <1>4
<1>6. Pools \in Seq(PoolsOver(Terms))
  <2> HIDE DEF Pools
  <2> QED BY <1>5, SeqDef
<1>7. layout.controlPlanes \in Nat /\ "" \notin Terms
    BY DEF LayoutTyped
<1>8. NP!createMultiCluster(layout) = [networking |-> "cilium", controlPlanes |-> layout.controlPlanes,
                                       zones |-> <<NP!ClusterName>>, pools |-> Pools]
    BY Zenon DEF NP!createMultiCluster
<1> HIDE DEF Pools
<1>9. NP!createMultiCluster(layout) \in
          [networking : {"flannel", "cilium"}, controlPlanes : Nat, zones : Seq(Terms), pools : Seq(PoolsOver(Terms))]
  <2>1. PICK z, ps, c : z = <<NP!ClusterName>> /\ ps = Pools /\ c = layout.controlPlanes
      OBVIOUS
  <2>2. z \in Seq(Terms) /\ ps \in Seq(PoolsOver(Terms)) /\ c \in Nat
      BY <1>2, <1>6, <1>7, <2>1
  <2>3. NP!createMultiCluster(layout) = [networking |-> "cilium", controlPlanes |-> c, zones |-> z, pools |-> ps]
      BY <1>8, <2>1, Zenon
  <2> QED BY <2>2, <2>3
<1> QED BY <1>7, <1>9, Zenon DEF LayoutTyped

(* LayoutPassesItsChecks in every state, for any bounds on pools and
   machines. *)
THEOREM LayoutAlwaysPasses ==
    Spec => []LayoutPassesItsChecks
<1>1. Init => LayoutTyped(layout, Terms)
    BY LayoutInit
<1>2. LayoutTyped(layout, Terms) /\ [Next]_vars => LayoutTyped(layout, Terms)'
    BY LayoutNext DEF LayoutTyped
<1>3. LayoutTyped(layout, Terms) => LayoutPassesItsChecks
    BY LayoutsPass, MemberTyped, BoundsAssumption DEF LayoutPassesItsChecks
<1> QED BY <1>1, <1>2, <1>3, PTL DEF Spec

-----------------------------------------------------------------------------
(* What a dataset makes out of counters.                                   *)

(* f follows the loop as long as its values are in W, and then they are. *)
Follows(f, n, W, x, G) == f[0] = x /\ \A t \in 1..n : f[t - 1] \in W => f[t] = G[t][f[t - 1]]

(* The values of a loop. *)
LEMMA LoopTyped ==
    ASSUME NEW n \in Nat, NEW W, NEW x \in W, NEW G \in [1..n -> [W -> W]], NEW f, Follows(f, n, W, x, G)
    PROVE  \A t \in 0..n : f[t] \in W
<1> DEFINE S == {t \in 0..n : f[t] \in W}
<1>1. 0 \in S
    BY DEF Follows
<1>2. ASSUME NEW t \in 1..n, t - 1 \in S PROVE t \in S
  <2>1. f[t - 1] \in W /\ t \in 0..n
      BY <1>2
  <2>2. f[t] = G[t][f[t - 1]]
      BY <2>1 DEF Follows
  <2>3. G[t][f[t - 1]] \in W
      BY <2>1
  <2> QED BY <2>1, <2>2, <2>3
<1> HIDE DEF S
<1>3. 0..n \subseteq S
    BY <1>1, <1>2, Upwards, Zenon
<1> QED BY <1>3 DEF S

(* f and g have the same values from low to high. *)
Agree(low, high, f, g) == \A t \in low..high : g[t] = f[t]

(* Two loops that begin in the same way have the same values so far. *)
LEMMA LoopSame ==
    ASSUME NEW n \in Nat, NEW m \in Nat, n <= m, NEW W, NEW x \in W,
           NEW G \in [1..n -> [W -> W]], NEW f, Follows(f, n, W, x, G),
           NEW H \in [1..m -> [W -> W]], NEW g, Follows(g, m, W, x, H),
           Agree(1, n, G, H)
    PROVE  Agree(0, n, f, g)
<1> DEFINE S == {t \in 0..n : g[t] = f[t]}
<1>0. \A t \in 0..n : f[t] \in W
    BY LoopTyped, Zenon
<1>1. 0 \in S
    BY DEF Follows
<1>2. ASSUME NEW t \in 1..n, t - 1 \in S PROVE t \in S
  <2>1. t \in 0..n /\ t \in 1..m /\ t - 1 \in 0..n /\ g[t - 1] = f[t - 1]
      BY <1>2
  <2>2. f[t] = G[t][f[t - 1]] /\ g[t] = H[t][g[t - 1]]
      BY <1>0, <2>1 DEF Follows
  <2> QED BY <2>1, <2>2 DEF Agree
<1> HIDE DEF S
<1>3. 0..n \subseteq S
    BY <1>1, <1>2, Upwards, Zenon
<1> QED BY <1>3 DEF S, Agree

(* The sums of a sequence of numbers. *)
Sums(f) == CHOOSE g : g = [k \in 0..Len(f) |-> IF k = 0 THEN 0 ELSE g[k - 1] + f[k]]
Adding(f) == [k \in 1..Len(f) |-> [x \in Nat |-> x + f[k]]]

(* Numbers is the last of these sums. *)
LEMMA NumbersIs ==
    ASSUME NEW f
    PROVE  MT!Numbers(f) = Sums(f)[Len(f)]
BY Zenon DEF MT!Numbers, Sums

(* They can be computed. *)
LEMMA SumsFollow ==
    ASSUME NEW f \in Seq(Nat)
    PROVE  /\ Len(f) \in Nat /\ Adding(f) \in [1..Len(f) -> [Nat -> Nat]]
           /\ Follows(Sums(f), Len(f), Nat, 0, Adding(f))
<1> DEFINE n == Len(f)
           G == Adding(f)
           Sum(g) == [k \in 0..n |-> IF k = 0 THEN 0 ELSE g[k - 1] + f[k]]
<1>1. n \in Nat /\ 0 \in Nat /\ \A k \in 1..n : f[k] \in Nat
    BY LenProperties, ElementOfSeq
<1>2. G \in [1..n -> [Nat -> Nat]]
    BY <1>1 DEF Adding
<1>3. \A k \in 1..n : \A x \in Nat : G[k][x] = x + f[k]
    BY DEF Adding
<1> HIDE DEF n, G
<1>4. CanRun(n, Nat, 0, G)
    BY <1>1, <1>2, LoopOf
<1>5. PICK g \in [0..n -> Nat] : \A k \in 0..n : g[k] = Turn(0, G, g, k)
    BY <1>4 DEF CanRun
<1>6. g = Sum(g)
  <2>1. ASSUME NEW k \in 0..n PROVE g[k] = IF k = 0 THEN 0 ELSE g[k - 1] + f[k]
    <3>1. k # 0 => k \in 1..n /\ k - 1 \in 0..n
        BY <1>1
    <3>2. k # 0 => g[k - 1] \in Nat /\ G[k][g[k - 1]] = g[k - 1] + f[k]
        BY <1>3, <3>1
    <3> QED BY <1>5, <3>2 DEF Turn
  <2> QED BY <2>1
<1>7. PICK s : s = Sums(f)
    OBVIOUS
<1>8. s = Sum(s)
  <2>1. s = (CHOOSE h : h = Sum(h))
      BY <1>7, Zenon DEF Sums, n
  <2> HIDE DEF Sum
  <2> QED BY <1>6, <2>1, Zenon
<1>9. s[0] = 0 /\ \A k \in 1..n : s[k] = s[k - 1] + f[k]
    BY <1>1, <1>8
<1>10. Follows(s, n, Nat, 0, G)
    BY <1>3, <1>9 DEF Follows
<1> QED BY <1>1, <1>2, <1>7, <1>10 DEF n, G

(* Functions on a first part of the numbers are sequences. *)
LEMMA IsSequence ==
    ASSUME NEW n \in Nat, NEW X, NEW f \in [1..n -> X]
    PROVE  f \in Seq(X) /\ Len(f) = n
<1>1. f \in Seq(X)
    BY SeqDef
<1>2. Len(f) \in Nat /\ DOMAIN f = 1..Len(f) /\ DOMAIN f = 1..n
    BY <1>1, LenProperties
<1>3. \A i \in Nat : 1..i = 1..n => i = n
  <2> SUFFICES ASSUME NEW i \in Nat, 1..i = 1..n PROVE i = n
      OBVIOUS
  <2>1. i > 0 => i \in 1..n
      BY SMT
  <2>2. n > 0 => n \in 1..i
      BY SMT
  <2> QED BY <2>1, <2>2
<1> QED BY <1>1, <1>2, <1>3

(* A number of values adds up to a number. *)
LEMMA NumbersTyped ==
    ASSUME NEW f \in Seq(Nat)
    PROVE  /\ MT!Numbers(f) \in Nat
           /\ Len(f) = 0 => MT!Numbers(f) = 0
<1>1. /\ Len(f) \in Nat /\ Adding(f) \in [1..Len(f) -> [Nat -> Nat]]
      /\ Follows(Sums(f), Len(f), Nat, 0, Adding(f))
    BY SumsFollow
<1>2. 0 \in Nat /\ Len(f) \in 0..Len(f)
    BY <1>1
<1>3. \A t \in 0..Len(f) : Sums(f)[t] \in Nat
    BY <1>1, <1>2, LoopTyped, Zenon
<1>4. MT!Numbers(f) \in Nat
    BY <1>2, <1>3, NumbersIs
<1>5. Sums(f)[0] = 0
    BY <1>1 DEF Follows
<1> QED BY <1>4, <1>5, NumbersIs

(* One more value is added. *)
LEMMA NumbersGrow ==
    ASSUME NEW f \in Seq(Nat), NEW g \in Seq(Nat), Len(g) = Len(f) + 1, \A k \in 1..Len(f) : g[k] = f[k]
    PROVE  MT!Numbers(g) = MT!Numbers(f) + g[Len(f) + 1]
<1> DEFINE n == Len(f)
           m == Len(g)
<1>1. /\ n \in Nat /\ Adding(f) \in [1..n -> [Nat -> Nat]]
      /\ Follows(Sums(f), n, Nat, 0, Adding(f))
    BY SumsFollow
<1>2. /\ m \in Nat /\ Adding(g) \in [1..m -> [Nat -> Nat]]
      /\ Follows(Sums(g), m, Nat, 0, Adding(g))
    BY SumsFollow
<1>3. m = n + 1
    OBVIOUS
<1>4. \A k \in 1..n : Adding(g)[k] = Adding(f)[k]
  <2> SUFFICES ASSUME NEW k \in 1..n PROVE Adding(g)[k] = Adding(f)[k]
      OBVIOUS
  <2>1. k \in 1..m /\ g[k] = f[k]
      BY <1>1, <1>3
  <2> QED BY <2>1 DEF Adding
<1>5. \A x \in Nat : Adding(g)[m][x] = x + g[m]
  <2>1. m \in 1..m
      BY <1>1, <1>3
  <2> QED BY <2>1 DEF Adding
<1> HIDE DEF n, m
<1>6. 0 \in Nat /\ n <= m /\ n \in 0..n /\ m \in 1..m /\ m - 1 = n
    BY <1>1, <1>2, <1>3
<1>7. \A t \in 0..n : Sums(g)[t] = Sums(f)[t]
  <2>1. Agree(1, n, Adding(f), Adding(g))
      BY <1>4 DEF Agree
  <2>2. Agree(0, n, Sums(f), Sums(g))
      BY <1>1, <1>2, <1>6, <2>1, LoopSame
  <2> QED BY <2>2 DEF Agree
<1>8. Sums(f)[n] \in Nat
    BY <1>1, <1>6, LoopTyped
<1>9. Sums(g)[m] = Sums(g)[n] + g[m]
    BY <1>2, <1>5, <1>6, <1>7, <1>8 DEF Follows
<1> QED BY <1>3, <1>6, <1>7, <1>9, NumbersIs DEF n, m

(* One value. *)
LEMMA NumbersOne ==
    ASSUME NEW f \in [1..1 -> Nat]
    PROVE  MT!Numbers(f) = f[1]
<1> DEFINE e == <<>>
<1>1. f \in Seq(Nat) /\ Len(f) = 1
    BY IsSequence
<1>2. e \in Seq(Nat) /\ Len(e) = 0
    OBVIOUS
<1> HIDE DEF e
<1>3. MT!Numbers(f) = MT!Numbers(e) + f[Len(e) + 1]
  <2>1. Len(f) = Len(e) + 1 /\ \A k \in 1..Len(e) : f[k] = e[k]
      BY <1>1, <1>2
  <2> QED BY <1>1, <1>2, <2>1, NumbersGrow, Zenon
<1>4. MT!Numbers(e) = 0
    BY <1>2, NumbersTyped
<1>5. f[1] \in Nat
    OBVIOUS
<1> QED BY <1>2, <1>3, <1>4, <1>5

(* Two values. *)
LEMMA NumbersTwo ==
    ASSUME NEW f \in [1..2 -> Nat]
    PROVE  MT!Numbers(f) = f[1] + f[2]
<1> DEFINE e == [k \in 1..1 |-> f[k]]
<1>1. f \in Seq(Nat) /\ Len(f) = 2
    BY IsSequence
<1>2. e \in [1..1 -> Nat] /\ e[1] = f[1]
    OBVIOUS
<1> HIDE DEF e
<1>3. e \in Seq(Nat) /\ Len(e) = 1
    BY <1>2, IsSequence
<1>4. MT!Numbers(f) = MT!Numbers(e) + f[Len(e) + 1]
  <2>1. Len(f) = Len(e) + 1 /\ \A k \in 1..Len(e) : f[k] = e[k]
      BY <1>1, <1>2, <1>3
  <2> QED BY <1>1, <1>3, <2>1, NumbersGrow, Zenon
<1> QED BY <1>2, <1>3, <1>4, NumbersOne

(* A value is missing or a number; durations come with their number. *)
Values == Nat \cup {MT!None}
Samples == [count : Values, sum : Values]
Amounts == [count : Nat, sum : Nat]

(* The state of a walk over samples. *)
DurationWalks == [count : Nat, sum : Nat, seen : BOOLEAN, change : Amounts]
DurationStart == [count |-> 0, sum |-> 0, seen |-> FALSE, change |-> [count |-> 0, sum |-> 0]]

(* A walk begins before the first sample. *)
LEMMA DurationStartTyped == DurationStart \in DurationWalks
BY DEF DurationStart, DurationWalks, Amounts

(* What changes from one sample to the next is a number, never negative. *)
LEMMA DurationChangeTyped ==
    ASSUME NEW w \in DurationWalks, NEW x \in Samples, NEW new
    PROVE  MT!durationChange(w, x, new) \in DurationWalks
<1>1. CASE MT!None \in {x.count, x.sum}
  <2>1. [count |-> 0, sum |-> 0] \in Amounts
      BY DEF Amounts
  <2>2. [w EXCEPT !.change = [count |-> 0, sum |-> 0]] \in DurationWalks
      BY <2>1 DEF DurationWalks
  <2> QED BY <1>1, <2>2 DEF MT!durationChange
<1>2. CASE MT!None \notin {x.count, x.sum}
  <2>1. x.count \in Nat /\ x.sum \in Nat /\ x \in Amounts
      BY <1>2 DEF Samples, Values, Amounts
  <2>2. w.count \in Nat /\ w.sum \in Nat
      BY DEF DurationWalks
  <2> DEFINE c == IF ~ w.seen /\ ~ new THEN [count |-> 0, sum |-> 0]
                  ELSE IF x.count < w.count \/ x.sum < w.sum THEN x
                  ELSE [count |-> x.count - w.count, sum |-> x.sum - w.sum]
  <2>3. c \in Amounts
    <3>1. [count |-> 0, sum |-> 0] \in Amounts
        BY DEF Amounts
    <3>2. ~(x.count < w.count \/ x.sum < w.sum) => [count |-> x.count - w.count, sum |-> x.sum - w.sum] \in Amounts
        BY <2>1, <2>2 DEF Amounts
    <3> QED BY <2>1, <3>1, <3>2, Zenon
  <2>4. MT!durationChange(w, x, new) = [count |-> x.count, sum |-> x.sum, seen |-> TRUE, change |-> c]
      BY <1>2, Zenon DEF MT!durationChange
  <2> HIDE DEF c
  <2> QED BY <2>1, <2>3, <2>4 DEF DurationWalks
<1> QED BY <1>1, <1>2

(* The walk over samples of counts and durations. *)
DurationWalk(list, new) ==
    CHOOSE g : g = [t \in 0..Len(list) |-> IF t = 0 THEN DurationStart ELSE MT!durationChange(g[t - 1], list[t], new)]
DurationTurns(list, new) == [t \in 1..Len(list) |-> [w \in DurationWalks |-> MT!durationChange(w, list[t], new)]]

(* It can be made. *)
LEMMA DurationWalkFollows ==
    ASSUME NEW list \in Seq(Samples), NEW new
    PROVE  /\ Len(list) \in Nat /\ DurationTurns(list, new) \in [1..Len(list) -> [DurationWalks -> DurationWalks]]
           /\ Follows(DurationWalk(list, new), Len(list), DurationWalks, DurationStart, DurationTurns(list, new))
<1> DEFINE n == Len(list)
           G == DurationTurns(list, new)
           Walked(g) == [t \in 0..n |-> IF t = 0 THEN DurationStart ELSE MT!durationChange(g[t - 1], list[t], new)]
<1>1. n \in Nat /\ \A t \in 1..n : list[t] \in Samples
    BY LenProperties, ElementOfSeq
<1>2. G \in [1..n -> [DurationWalks -> DurationWalks]]
    BY <1>1, DurationChangeTyped DEF DurationTurns
<1>3. \A t \in 1..n : \A w \in DurationWalks : G[t][w] = MT!durationChange(w, list[t], new)
    BY DEF DurationTurns
<1> HIDE DEF n, G
<1>4. CanRun(n, DurationWalks, DurationStart, G)
    BY <1>1, <1>2, DurationStartTyped, LoopOf
<1>5. PICK g \in [0..n -> DurationWalks] : \A t \in 0..n : g[t] = Turn(DurationStart, G, g, t)
    BY <1>4 DEF CanRun
<1>6. g = Walked(g)
  <2>1. ASSUME NEW t \in 0..n PROVE g[t] = IF t = 0 THEN DurationStart ELSE MT!durationChange(g[t - 1], list[t], new)
    <3>1. t # 0 => t \in 1..n /\ t - 1 \in 0..n
        BY <1>1
    <3>2. t # 0 => g[t - 1] \in DurationWalks /\ G[t][g[t - 1]] = MT!durationChange(g[t - 1], list[t], new)
        BY <1>3, <3>1
    <3> QED BY <1>5, <3>2 DEF Turn
  <2> QED BY <2>1
<1>7. PICK s : s = DurationWalk(list, new)
    OBVIOUS
<1>8. s = Walked(s)
  <2>1. s = (CHOOSE h : h = Walked(h))
      BY <1>7, Zenon DEF DurationWalk, n
  <2> HIDE DEF Walked
  <2> QED BY <1>6, <2>1, Zenon
<1>9. s[0] = DurationStart /\ \A t \in 1..n : s[t] = MT!durationChange(s[t - 1], list[t], new)
    BY <1>1, <1>8
<1>10. Follows(s, n, DurationWalks, DurationStart, G)
    BY <1>3, <1>9 DEF Follows
<1> QED BY <1>1, <1>2, <1>7, <1>10 DEF n, G

(* Its steps. *)
LEMMA DurationWalkIs ==
    ASSUME NEW list \in Seq(Samples), NEW new
    PROVE  /\ \A t \in 0..Len(list) : DurationWalk(list, new)[t] \in DurationWalks
           /\ DurationWalk(list, new)[0] = DurationStart
           /\ \A t \in 1..Len(list) : DurationWalk(list, new)[t] = MT!durationChange(DurationWalk(list, new)[t - 1], list[t], new)
<1> DEFINE n == Len(list)
           G == DurationTurns(list, new)
           s == DurationWalk(list, new)
<1>1. n \in Nat /\ G \in [1..n -> [DurationWalks -> DurationWalks]] /\ Follows(s, n, DurationWalks, DurationStart, G)
    BY DurationWalkFollows
<1>2. \A t \in 1..n : \A w \in DurationWalks : G[t][w] = MT!durationChange(w, list[t], new)
    BY DEF DurationTurns
<1> HIDE DEF n, G, s
<1>3. \A t \in 0..n : s[t] \in DurationWalks
    BY <1>1, DurationStartTyped, LoopTyped
<1>4. \A t \in 1..n : t - 1 \in 0..n
    BY <1>1
<1>5. s[0] = DurationStart /\ \A t \in 1..n : s[t] = MT!durationChange(s[t - 1], list[t], new)
    BY <1>1, <1>2, <1>3, <1>4 DEF Follows
<1> QED BY <1>3, <1>5 DEF n, s

(* One more sample does not change what came before it. *)
LEMMA DurationWalkGrows ==
    ASSUME NEW list \in Seq(Samples), NEW more \in Seq(Samples), NEW new, Len(more) = Len(list) + 1,
           \A t \in 1..Len(list) : more[t] = list[t]
    PROVE  \A t \in 0..Len(list) : DurationWalk(more, new)[t] = DurationWalk(list, new)[t]
<1> DEFINE n == Len(list)
           m == Len(more)
<1>1. /\ n \in Nat /\ DurationTurns(list, new) \in [1..n -> [DurationWalks -> DurationWalks]]
      /\ Follows(DurationWalk(list, new), n, DurationWalks, DurationStart, DurationTurns(list, new))
    BY DurationWalkFollows
<1>2. /\ m \in Nat /\ DurationTurns(more, new) \in [1..m -> [DurationWalks -> DurationWalks]]
      /\ Follows(DurationWalk(more, new), m, DurationWalks, DurationStart, DurationTurns(more, new))
    BY DurationWalkFollows
<1>3. m = n + 1 /\ n <= m
    BY <1>1
<1>4. Agree(1, n, DurationTurns(list, new), DurationTurns(more, new))
  <2> SUFFICES ASSUME NEW t \in 1..n PROVE DurationTurns(more, new)[t] = DurationTurns(list, new)[t]
      BY DEF Agree
  <2>1. t \in 1..m /\ more[t] = list[t]
      BY <1>1, <1>3
  <2> QED BY <2>1 DEF DurationTurns
<1> HIDE DEF n, m
<1>5. Agree(0, n, DurationWalk(list, new), DurationWalk(more, new))
    BY <1>1, <1>2, <1>3, <1>4, DurationStartTyped, LoopSame
<1> QED BY <1>5 DEF Agree, n

(* The state of a walk over the values of one counter. *)
CounterWalks == [previous : Nat, first : BOOLEAN, change : Nat]
CounterStart == [previous |-> 0, first |-> TRUE, change |-> 0]

(* A walk begins before the first value. *)
LEMMA CounterStartTyped == CounterStart \in CounterWalks
BY DEF CounterStart, CounterWalks

(* What changes from one value to the next is a number, never negative. *)
LEMMA CounterChangeTyped ==
    ASSUME NEW w \in CounterWalks, NEW x \in Values, NEW new
    PROVE  MT!counterChange(w, x, new) \in CounterWalks
<1>1. CASE x = MT!None
  <2>1. [w EXCEPT !.change = 0] \in CounterWalks
      BY DEF CounterWalks
  <2> QED BY <1>1, <2>1 DEF MT!counterChange
<1>2. CASE x # MT!None
  <2>1. x \in Nat
      BY <1>2 DEF Values
  <2>2. w.previous \in Nat
      BY DEF CounterWalks
  <2> DEFINE c == IF w.first /\ ~ new THEN 0
                  ELSE IF x < w.previous THEN x ELSE x - w.previous
  <2>3. c \in Nat
    <3>1. ~(x < w.previous) => x - w.previous \in Nat
        BY <2>1, <2>2
    <3>2. 0 \in Nat
        OBVIOUS
    <3> QED BY <2>1, <3>1, <3>2, Zenon
  <2>4. MT!counterChange(w, x, new) = [previous |-> x, first |-> FALSE, change |-> c]
    <3>1. ~(x < 0)
        BY <2>1
    <3> QED BY <1>2, <3>1, Zenon DEF MT!counterChange
  <2> HIDE DEF c
  <2> QED BY <2>1, <2>3, <2>4 DEF CounterWalks
<1> QED BY <1>1, <1>2

(* The walk over values of one counter. *)
CounterWalk(list, new) ==
    CHOOSE g : g = [t \in 0..Len(list) |-> IF t = 0 THEN CounterStart ELSE MT!counterChange(g[t - 1], list[t], new)]
CounterTurns(list, new) == [t \in 1..Len(list) |-> [w \in CounterWalks |-> MT!counterChange(w, list[t], new)]]

(* It can be made. *)
LEMMA CounterWalkFollows ==
    ASSUME NEW list \in Seq(Values), NEW new
    PROVE  /\ Len(list) \in Nat /\ CounterTurns(list, new) \in [1..Len(list) -> [CounterWalks -> CounterWalks]]
           /\ Follows(CounterWalk(list, new), Len(list), CounterWalks, CounterStart, CounterTurns(list, new))
<1> DEFINE n == Len(list)
           G == CounterTurns(list, new)
           Walked(g) == [t \in 0..n |-> IF t = 0 THEN CounterStart ELSE MT!counterChange(g[t - 1], list[t], new)]
<1>1. n \in Nat /\ \A t \in 1..n : list[t] \in Values
    BY LenProperties, ElementOfSeq
<1>2. G \in [1..n -> [CounterWalks -> CounterWalks]]
    BY <1>1, CounterChangeTyped DEF CounterTurns
<1>3. \A t \in 1..n : \A w \in CounterWalks : G[t][w] = MT!counterChange(w, list[t], new)
    BY DEF CounterTurns
<1> HIDE DEF n, G
<1>4. CanRun(n, CounterWalks, CounterStart, G)
    BY <1>1, <1>2, CounterStartTyped, LoopOf
<1>5. PICK g \in [0..n -> CounterWalks] : \A t \in 0..n : g[t] = Turn(CounterStart, G, g, t)
    BY <1>4 DEF CanRun
<1>6. g = Walked(g)
  <2>1. ASSUME NEW t \in 0..n PROVE g[t] = IF t = 0 THEN CounterStart ELSE MT!counterChange(g[t - 1], list[t], new)
    <3>1. t # 0 => t \in 1..n /\ t - 1 \in 0..n
        BY <1>1
    <3>2. t # 0 => g[t - 1] \in CounterWalks /\ G[t][g[t - 1]] = MT!counterChange(g[t - 1], list[t], new)
        BY <1>3, <3>1
    <3> QED BY <1>5, <3>2 DEF Turn
  <2> QED BY <2>1
<1>7. PICK s : s = CounterWalk(list, new)
    OBVIOUS
<1>8. s = Walked(s)
  <2>1. s = (CHOOSE h : h = Walked(h))
      BY <1>7, Zenon DEF CounterWalk, n
  <2> HIDE DEF Walked
  <2> QED BY <1>6, <2>1, Zenon
<1>9. s[0] = CounterStart /\ \A t \in 1..n : s[t] = MT!counterChange(s[t - 1], list[t], new)
    BY <1>1, <1>8
<1>10. Follows(s, n, CounterWalks, CounterStart, G)
    BY <1>3, <1>9 DEF Follows
<1> QED BY <1>1, <1>2, <1>7, <1>10 DEF n, G

(* Its steps. *)
LEMMA CounterWalkIs ==
    ASSUME NEW list \in Seq(Values), NEW new
    PROVE  /\ \A t \in 0..Len(list) : CounterWalk(list, new)[t] \in CounterWalks
           /\ CounterWalk(list, new)[0] = CounterStart
           /\ \A t \in 1..Len(list) : CounterWalk(list, new)[t] = MT!counterChange(CounterWalk(list, new)[t - 1], list[t], new)
<1> DEFINE n == Len(list)
           G == CounterTurns(list, new)
           s == CounterWalk(list, new)
<1>1. n \in Nat /\ G \in [1..n -> [CounterWalks -> CounterWalks]] /\ Follows(s, n, CounterWalks, CounterStart, G)
    BY CounterWalkFollows
<1>2. \A t \in 1..n : \A w \in CounterWalks : G[t][w] = MT!counterChange(w, list[t], new)
    BY DEF CounterTurns
<1> HIDE DEF n, G, s
<1>3. \A t \in 0..n : s[t] \in CounterWalks
    BY <1>1, CounterStartTyped, LoopTyped
<1>4. \A t \in 1..n : t - 1 \in 0..n
    BY <1>1
<1>5. s[0] = CounterStart /\ \A t \in 1..n : s[t] = MT!counterChange(s[t - 1], list[t], new)
    BY <1>1, <1>2, <1>3, <1>4 DEF Follows
<1> QED BY <1>3, <1>5 DEF n, s

(* One more value does not change what came before it. *)
LEMMA CounterWalkGrows ==
    ASSUME NEW list \in Seq(Values), NEW more \in Seq(Values), NEW new, Len(more) = Len(list) + 1,
           \A t \in 1..Len(list) : more[t] = list[t]
    PROVE  \A t \in 0..Len(list) : CounterWalk(more, new)[t] = CounterWalk(list, new)[t]
<1> DEFINE n == Len(list)
           m == Len(more)
<1>1. /\ n \in Nat /\ CounterTurns(list, new) \in [1..n -> [CounterWalks -> CounterWalks]]
      /\ Follows(CounterWalk(list, new), n, CounterWalks, CounterStart, CounterTurns(list, new))
    BY CounterWalkFollows
<1>2. /\ m \in Nat /\ CounterTurns(more, new) \in [1..m -> [CounterWalks -> CounterWalks]]
      /\ Follows(CounterWalk(more, new), m, CounterWalks, CounterStart, CounterTurns(more, new))
    BY CounterWalkFollows
<1>3. m = n + 1 /\ n <= m
    BY <1>1
<1>4. Agree(1, n, CounterTurns(list, new), CounterTurns(more, new))
  <2> SUFFICES ASSUME NEW t \in 1..n PROVE CounterTurns(more, new)[t] = CounterTurns(list, new)[t]
      BY DEF Agree
  <2>1. t \in 1..m /\ more[t] = list[t]
      BY <1>1, <1>3
  <2> QED BY <2>1 DEF CounterTurns
<1> HIDE DEF n, m
<1>5. Agree(0, n, CounterWalk(list, new), CounterWalk(more, new))
    BY <1>1, <1>2, <1>3, <1>4, CounterStartTyped, LoopSame
<1> QED BY <1>5 DEF Agree, n

(* The events and the durations of one source at each timestamp. *)
DurationCounts(list, new) == [t \in 1..Len(list) |-> DurationWalk(list, new)[t].change.count]
DurationTotals(list, new) ==
    [t \in 1..Len(list) |-> IF DurationWalk(list, new)[t].change.count > 0
                            THEN DurationWalk(list, new)[t].change.sum ELSE 0]

(* The changes of a source are those of its walk. *)
LEMMA DurationChangesAre ==
    ASSUME NEW list \in Seq(Samples), NEW new
    PROVE  MT!durationChanges(list, new) = [t \in 1..Len(list) |-> DurationWalk(list, new)[t].change]
BY Zenon DEF MT!durationChanges, DurationWalk, DurationStart

(* A series of one source adds them up. *)
LEMMA SeriesIs ==
    ASSUME NEW list \in Seq(Samples), NEW new
    PROVE  /\ DurationCounts(list, new) \in Seq(Nat) /\ Len(DurationCounts(list, new)) = Len(list)
           /\ DurationTotals(list, new) \in Seq(Nat) /\ Len(DurationTotals(list, new)) = Len(list)
           /\ MT!durationCounterSeries(<<list>>, new).count = MT!Numbers(DurationCounts(list, new))
           /\ MT!durationCounterSeries(<<list>>, new).total = MT!Numbers(DurationTotals(list, new))
<1> DEFINE n == Len(list)
           w == DurationWalk(list, new)
           changes == [s \in DOMAIN <<list>> |-> MT!durationChanges(<<list>>[s], new)]
           Counted(t) == MT!Numbers([s \in DOMAIN <<list>> |-> changes[s][t].count])
           Lasted(t) == MT!Numbers([s \in DOMAIN <<list>> |-> changes[s][t].sum])
           times == {t \in DOMAIN <<list>>[1] : Counted(t) > 0}
           counts == [t \in DOMAIN <<list>>[1] |-> IF t \in times THEN Counted(t) ELSE 0]
           totals == [t \in DOMAIN <<list>>[1] |-> IF t \in times THEN Lasted(t) ELSE 0]
<1>1. /\ MT!durationCounterSeries(<<list>>, new).count = MT!Numbers(counts)
      /\ MT!durationCounterSeries(<<list>>, new).total = MT!Numbers(totals)
    BY DEF MT!durationCounterSeries
<1>2. n \in Nat /\ DOMAIN list = 1..n /\ DOMAIN <<list>> = 1..1 /\ <<list>>[1] = list
    BY LenProperties
<1>3. \A t \in 1..n : w[t].change.count \in Nat /\ w[t].change.sum \in Nat
  <2>1. \A t \in 1..n : t \in 0..n
      BY <1>2
  <2>2. \A t \in 1..n : w[t] \in DurationWalks
      BY <2>1, DurationWalkIs
  <2> HIDE DEF n, w
  <2> QED BY <2>2 DEF DurationWalks, Amounts
<1>4. changes = [s \in 1..1 |-> [t \in 1..n |-> w[t].change]]
    BY <1>2, DurationChangesAre
<1> HIDE DEF n, w, changes
<1>5. ASSUME NEW t \in 1..n
      PROVE  Counted(t) = w[t].change.count /\ Lasted(t) = w[t].change.sum
  <2> DEFINE c == [s \in 1..1 |-> w[t].change.count]
             d == [s \in 1..1 |-> w[t].change.sum]
  <2>1. [s \in DOMAIN <<list>> |-> changes[s][t].count] = c /\ [s \in DOMAIN <<list>> |-> changes[s][t].sum] = d
      BY <1>2, <1>4
  <2>2. c \in [1..1 -> Nat] /\ c[1] = w[t].change.count /\ d \in [1..1 -> Nat] /\ d[1] = w[t].change.sum
      BY <1>3
  <2> HIDE DEF c, d
  <2>3. MT!Numbers(c) = c[1] /\ MT!Numbers(d) = d[1]
      BY <2>2, NumbersOne
  <2> QED BY <2>1, <2>2, <2>3
<1> HIDE DEF Counted, Lasted
<1>6. counts = [t \in 1..n |-> w[t].change.count]
    BY <1>2, <1>3, <1>5
<1>7. totals = [t \in 1..n |-> IF w[t].change.count > 0 THEN w[t].change.sum ELSE 0]
    BY <1>2, <1>3, <1>5
<1>8. counts \in [1..n -> Nat] /\ totals \in [1..n -> Nat]
    BY <1>3, <1>6, <1>7
<1>9. counts = DurationCounts(list, new) /\ totals = DurationTotals(list, new)
    BY <1>6, <1>7 DEF DurationCounts, DurationTotals, n, w
<1> HIDE DEF counts, totals
<1>10. counts \in Seq(Nat) /\ Len(counts) = n /\ totals \in Seq(Nat) /\ Len(totals) = n
    BY <1>2, <1>8, IsSequence
<1> QED BY <1>1, <1>9, <1>10 DEF n

(* What a source reports so far, and where its walk has come to. *)
Reported(list, new) == MT!Numbers(DurationCounts(list, new))
Lasted(list, new) == MT!Numbers(DurationTotals(list, new))
DurationEnd(list, new) == DurationWalk(list, new)[Len(list)]

(* Without samples nothing is reported. *)
LEMMA SourceEmpty ==
    ASSUME NEW new
    PROVE  /\ Reported(<<>>, new) = 0 /\ Lasted(<<>>, new) = 0
           /\ DurationEnd(<<>>, new) = DurationStart
<1> DEFINE e == <<>>
<1>1. e \in Seq(Samples) /\ Len(e) = 0
    OBVIOUS
<1> HIDE DEF e
<1>2. DurationEnd(e, new) = DurationStart
    BY <1>1, DurationWalkIs DEF DurationEnd
<1>3. Reported(e, new) = 0 /\ Lasted(e, new) = 0
    BY <1>1, SeriesIs, NumbersTyped DEF Reported, Lasted
<1> QED BY <1>2, <1>3 DEF e

(* What a source reports is a number. *)
LEMMA SourceTyped ==
    ASSUME NEW list \in Seq(Samples), NEW new
    PROVE  /\ Reported(list, new) \in Nat /\ Lasted(list, new) \in Nat
           /\ DurationEnd(list, new) \in DurationWalks
<1>1. Len(list) \in 0..Len(list)
    BY LenProperties
<1>2. DurationEnd(list, new) \in DurationWalks
    BY <1>1, DurationWalkIs DEF DurationEnd
<1>3. Reported(list, new) \in Nat /\ Lasted(list, new) \in Nat
    BY SeriesIs, NumbersTyped DEF Reported, Lasted
<1> QED BY <1>2, <1>3

(* One more sample adds what has changed since the last one that counts. *)
LEMMA SourceGrows ==
    ASSUME NEW list \in Seq(Samples), NEW x \in Samples, NEW new, NEW v,
           v = MT!durationChange(DurationEnd(list, new), x, new)
    PROVE  /\ DurationEnd(Append(list, x), new) = v
           /\ Reported(Append(list, x), new) = Reported(list, new) + v.change.count
           /\ Lasted(Append(list, x), new) = Lasted(list, new) + (IF v.change.count > 0 THEN v.change.sum ELSE 0)
<1> DEFINE more == Append(list, x)
           n == Len(list)
<1>1. /\ more \in Seq(Samples) /\ Len(more) = n + 1 /\ n \in Nat
      /\ (\A t \in 1..n : more[t] = list[t]) /\ more[n + 1] = x
    BY AppendProperties, LenProperties
<1> HIDE DEF more
<1>2. \A t \in 0..n : DurationWalk(more, new)[t] = DurationWalk(list, new)[t]
    BY <1>1, DurationWalkGrows, Zenon
<1> HIDE DEF n
<1>3. n + 1 \in 1..(n + 1) /\ (n + 1) - 1 = n /\ n \in 0..n /\ (\A t \in 1..n : t \in 0..n /\ t \in 1..(n + 1))
    BY <1>1
<1>4. DurationWalk(more, new)[n + 1] = v
  <2>1. DurationWalk(more, new)[n + 1] = MT!durationChange(DurationWalk(more, new)[(n + 1) - 1], more[n + 1], new)
      BY <1>1, <1>3, DurationWalkIs
  <2> QED BY <1>1, <1>2, <1>3, <2>1 DEF DurationEnd, n
<1>5. DurationEnd(more, new) = v
    BY <1>1, <1>4 DEF DurationEnd
<1>6. /\ DurationCounts(list, new) \in Seq(Nat) /\ Len(DurationCounts(list, new)) = n
      /\ DurationTotals(list, new) \in Seq(Nat) /\ Len(DurationTotals(list, new)) = n
      /\ DurationCounts(more, new) \in Seq(Nat) /\ Len(DurationCounts(more, new)) = n + 1
      /\ DurationTotals(more, new) \in Seq(Nat) /\ Len(DurationTotals(more, new)) = n + 1
    BY <1>1, SeriesIs DEF n
<1>7. /\ \A t \in 1..n : DurationCounts(more, new)[t] = DurationCounts(list, new)[t]
      /\ \A t \in 1..n : DurationTotals(more, new)[t] = DurationTotals(list, new)[t]
    BY <1>1, <1>2, <1>3 DEF DurationCounts, DurationTotals, n
<1>8. /\ DurationCounts(more, new)[n + 1] = v.change.count
      /\ DurationTotals(more, new)[n + 1] = IF v.change.count > 0 THEN v.change.sum ELSE 0
    BY <1>1, <1>3, <1>4 DEF DurationCounts, DurationTotals
<1>9. Reported(more, new) = Reported(list, new) + DurationCounts(more, new)[n + 1]
    BY <1>6, <1>7, NumbersGrow DEF Reported
<1>10. Lasted(more, new) = Lasted(list, new) + DurationTotals(more, new)[n + 1]
    BY <1>6, <1>7, NumbersGrow DEF Lasted
<1> QED BY <1>5, <1>8, <1>9, <1>10 DEF more

(* Reports stay behind what happened: n events of length t are reported, w
   is the last sample that counts, c what the process shows now and h what
   happened.  Either no sample counts yet; or the process still works since
   that sample, and what it did since is neither reported nor forgotten; or
   it has restarted since, and shows only what is not reported. *)
Behind(n, t, w, c, h, new) ==
    \/ ~ w.seen /\ ~ new /\ n = 0 /\ t = 0
    \/ /\ w.count <= c.count /\ w.sum <= c.sum
       /\ n + c.count - w.count <= h.count /\ t + c.sum - w.sum <= h.sum
    \/ n + c.count <= h.count /\ t + c.sum <= h.sum

(* As long as nothing restarts, reports and what was not sampled yet are
   exactly what happened. *)
Exact(n, t, w, c, h) ==
    /\ w.count <= c.count /\ w.sum <= c.sum
    /\ n + c.count - w.count = h.count /\ t + c.sum - w.sum = h.sum
    /\ w.count = c.count => w.sum = c.sum

(* A sample of both values, or one in which some value is missing. *)
SampleOf(x, c) == x = c \/ MT!None \in {x.count, x.sum}

(* A sample leaves reports behind what happened. *)
LEMMA SampleKeepsBehind ==
    ASSUME NEW n \in Nat, NEW t \in Nat, NEW w \in DurationWalks, NEW c \in Amounts, NEW h \in Amounts, NEW new \in BOOLEAN,
           NEW x \in Samples, SampleOf(x, c), Behind(n, t, w, c, h, new),
           NEW v, v = MT!durationChange(w, x, new)
    PROVE  Behind(n + v.change.count, t + (IF v.change.count > 0 THEN v.change.sum ELSE 0), v, c, h, new)
<1>0. /\ w.count \in Nat /\ w.sum \in Nat /\ c.count \in Nat /\ c.sum \in Nat /\ h.count \in Nat /\ h.sum \in Nat
      /\ w.seen \in BOOLEAN /\ w = [count |-> w.count, sum |-> w.sum, seen |-> w.seen, change |-> w.change]
    BY DEF DurationWalks, Amounts
<1>1. CASE MT!None \in {x.count, x.sum}
  <2>1. v = [w EXCEPT !.change = [count |-> 0, sum |-> 0]]
      BY <1>1, Zenon DEF MT!durationChange
  <2>2. v.count = w.count /\ v.sum = w.sum /\ v.seen = w.seen /\ v.change.count = 0 /\ v.change.sum = 0
      BY <2>1 DEF DurationWalks
  <2> QED BY <1>0, <2>2 DEF Behind
<1>2. CASE MT!None \notin {x.count, x.sum}
  <2>1. x = c
      BY <1>2 DEF SampleOf
  <2> DEFINE d == IF ~ w.seen /\ ~ new THEN [count |-> 0, sum |-> 0]
                  ELSE IF c.count < w.count \/ c.sum < w.sum THEN c
                  ELSE [count |-> c.count - w.count, sum |-> c.sum - w.sum]
  <2>2. v = [count |-> c.count, sum |-> c.sum, seen |-> TRUE, change |-> d]
      BY <1>2, <2>1, Zenon DEF MT!durationChange
  <2>3. v.count = c.count /\ v.sum = c.sum /\ v.change = d
      BY <2>2
  <2>4. \/ ~ w.seen /\ ~ new /\ d.count = 0 /\ d.sum = 0
        \/ (w.seen \/ new) /\ (c.count < w.count \/ c.sum < w.sum) /\ d.count = c.count /\ d.sum = c.sum
        \/ (w.seen \/ new) /\ c.count >= w.count /\ c.sum >= w.sum
            /\ d.count = c.count - w.count /\ d.sum = c.sum - w.sum
    <3>1. CASE ~ w.seen /\ ~ new
        BY <3>1
    <3>2. CASE (w.seen \/ new) /\ (c.count < w.count \/ c.sum < w.sum)
        BY <3>2
    <3>3. CASE (w.seen \/ new) /\ ~(c.count < w.count \/ c.sum < w.sum)
        BY <1>0, <3>3
    <3> QED BY <3>1, <3>2, <3>3
  <2> HIDE DEF d
  <2>5. d.count \in Nat /\ d.sum \in Nat
      BY <1>0, <2>4
  <2>6. n + d.count <= h.count /\ t + d.sum <= h.sum
    <3>1. CASE ~ w.seen /\ ~ new /\ n = 0 /\ t = 0
        BY <1>0, <2>4, <3>1
    <3>2. CASE /\ w.count <= c.count /\ w.sum <= c.sum
               /\ n + c.count - w.count <= h.count /\ t + c.sum - w.sum <= h.sum
        BY <1>0, <2>4, <3>2
    <3>3. CASE n + c.count <= h.count /\ t + c.sum <= h.sum
        BY <1>0, <2>4, <3>3
    <3> QED BY <3>1, <3>2, <3>3 DEF Behind
  <2> QED BY <1>0, <2>3, <2>5, <2>6 DEF Behind
<1> QED BY <1>1, <1>2

(* And exact when they were. *)
LEMMA SampleKeepsExact ==
    ASSUME NEW n \in Nat, NEW t \in Nat, NEW w \in DurationWalks, NEW c \in Amounts, NEW h \in Amounts,
           NEW x \in Samples, SampleOf(x, c), Exact(n, t, w, c, h),
           NEW new, new = TRUE, NEW v, v = MT!durationChange(w, x, new)
    PROVE  Exact(n + v.change.count, t + (IF v.change.count > 0 THEN v.change.sum ELSE 0), v, c, h)
<1>0. /\ w.count \in Nat /\ w.sum \in Nat /\ c.count \in Nat /\ c.sum \in Nat /\ h.count \in Nat /\ h.sum \in Nat
      /\ w.seen \in BOOLEAN
    BY DEF DurationWalks, Amounts
<1>1. CASE MT!None \in {x.count, x.sum}
  <2>1. v = [w EXCEPT !.change = [count |-> 0, sum |-> 0]]
      BY <1>1, Zenon DEF MT!durationChange
  <2>2. v.count = w.count /\ v.sum = w.sum /\ v.change.count = 0
      BY <2>1 DEF DurationWalks
  <2> QED BY <1>0, <2>2 DEF Exact
<1>2. CASE MT!None \notin {x.count, x.sum}
  <2>1. x = c
      BY <1>2 DEF SampleOf
  <2>2. ~(c.count < w.count \/ c.sum < w.sum)
      BY <1>0 DEF Exact
  <2>3. v = [count |-> c.count, sum |-> c.sum, seen |-> TRUE,
             change |-> [count |-> c.count - w.count, sum |-> c.sum - w.sum]]
      BY <1>2, <2>1, <2>2, Zenon DEF MT!durationChange
  <2>4. v.count = c.count /\ v.sum = c.sum /\ v.change.count = c.count - w.count /\ v.change.sum = c.sum - w.sum
      BY <2>3
  <2> QED BY <1>0, <2>4 DEF Exact
<1> QED BY <1>1, <1>2

(* The values of one counter in samples. *)
CountsOf(list) == [t \in DOMAIN list |-> list[t].count]

(* They are values, and one more sample is one more of them. *)
LEMMA CountsTyped ==
    ASSUME NEW list \in Seq(Samples)
    PROVE  /\ CountsOf(list) \in Seq(Values) /\ Len(CountsOf(list)) = Len(list)
           /\ \A x \in Samples : CountsOf(Append(list, x)) = Append(CountsOf(list), x.count)
<1>1. Len(list) \in Nat /\ DOMAIN list = 1..Len(list) /\ \A t \in 1..Len(list) : list[t] \in Samples
    BY LenProperties, ElementOfSeq
<1>2. CountsOf(list) \in [1..Len(list) -> Values]
    BY <1>1 DEF CountsOf, Samples
<1>3. CountsOf(list) \in Seq(Values) /\ Len(CountsOf(list)) = Len(list)
    BY <1>1, <1>2, IsSequence
<1>4. ASSUME NEW x \in Samples
      PROVE  CountsOf(Append(list, x)) = Append(CountsOf(list), x.count)
  <2> DEFINE n == Len(list)
             a == Append(list, x)
             b == Append(CountsOf(list), x.count)
  <2>0. x.count \in Values
      BY DEF Samples
  <2>1. /\ DOMAIN a = 1..(n + 1) /\ (\A t \in 1..n : a[t] = list[t]) /\ a[n + 1] = x
      BY <1>1, AppendProperties, LenProperties
  <2>2. /\ b \in Seq(Values) /\ DOMAIN b = 1..(n + 1) /\ (\A t \in 1..n : b[t] = CountsOf(list)[t]) /\ b[n + 1] = x.count
      BY <1>3, <2>0, AppendProperties, LenProperties
  <2>3. b = [t \in 1..(n + 1) |-> b[t]]
      BY <2>2
  <2>4. \A t \in 1..n : CountsOf(list)[t] = list[t].count
      BY <1>1 DEF CountsOf
  <2> HIDE DEF a, b, n
  <2>5. \A t \in 1..(n + 1) : b[t] = a[t].count
    <3>1. \A t \in 1..(n + 1) : t = n + 1 \/ t \in 1..n
        BY <1>1 DEF n
    <3> QED BY <2>1, <2>2, <2>4, <3>1
  <2>6. CountsOf(a) = b
      BY <2>1, <2>3, <2>5 DEF CountsOf
  <2> QED BY <2>6 DEF a, b
<1> QED BY <1>3, <1>4

(* What a counter reports so far, and where its walk has come to. *)
Counted(list, new) == MT!Numbers(MT!counterChanges(list, new))
CounterEnd(list, new) == CounterWalk(list, new)[Len(list)]

(* The changes of a counter are those of its walk. *)
LEMMA CounterChangesAre ==
    ASSUME NEW list \in Seq(Values), NEW new
    PROVE  /\ MT!counterChanges(list, new) = [t \in 1..Len(list) |-> CounterWalk(list, new)[t].change]
           /\ MT!counterChanges(list, new) \in Seq(Nat) /\ Len(MT!counterChanges(list, new)) = Len(list)
<1> DEFINE n == Len(list)
           w == CounterWalk(list, new)
<1>1. MT!counterChanges(list, new) = [t \in 1..n |-> w[t].change]
    BY Zenon DEF MT!counterChanges, CounterWalk, CounterStart
<1>2. n \in Nat
    BY LenProperties
<1>3. \A t \in 1..n : t \in 0..n
    BY <1>2
<1>4. \A t \in 1..n : w[t] \in CounterWalks
    BY <1>3, CounterWalkIs
<1> HIDE DEF n, w
<1>5. MT!counterChanges(list, new) \in [1..n -> Nat]
    BY <1>1, <1>4 DEF CounterWalks
<1>6. MT!counterChanges(list, new) \in Seq(Nat) /\ Len(MT!counterChanges(list, new)) = n
    BY <1>2, <1>5, IsSequence
<1> QED BY <1>1, <1>6 DEF n, w

(* Without values nothing is reported. *)
LEMMA CounterEmpty ==
    ASSUME NEW new
    PROVE  Counted(<<>>, new) = 0 /\ CounterEnd(<<>>, new) = CounterStart
<1> DEFINE e == <<>>
<1>1. e \in Seq(Values) /\ Len(e) = 0
    OBVIOUS
<1> HIDE DEF e
<1>2. CounterEnd(e, new) = CounterStart
    BY <1>1, CounterWalkIs DEF CounterEnd
<1>3. Counted(e, new) = 0
    BY <1>1, CounterChangesAre, NumbersTyped DEF Counted
<1> QED BY <1>2, <1>3 DEF e

(* What a counter reports is a number. *)
LEMMA CounterTyped ==
    ASSUME NEW list \in Seq(Values), NEW new
    PROVE  Counted(list, new) \in Nat /\ CounterEnd(list, new) \in CounterWalks
<1>1. Len(list) \in 0..Len(list)
    BY LenProperties
<1>2. CounterEnd(list, new) \in CounterWalks
    BY <1>1, CounterWalkIs DEF CounterEnd
<1>3. Counted(list, new) \in Nat
    BY CounterChangesAre, NumbersTyped DEF Counted
<1> QED BY <1>2, <1>3

(* One more value adds what has changed since the last one. *)
LEMMA CounterGrows ==
    ASSUME NEW list \in Seq(Values), NEW x \in Values, NEW new, NEW v,
           v = MT!counterChange(CounterEnd(list, new), x, new)
    PROVE  /\ CounterEnd(Append(list, x), new) = v
           /\ Counted(Append(list, x), new) = Counted(list, new) + v.change
<1> DEFINE more == Append(list, x)
           n == Len(list)
<1>1. /\ more \in Seq(Values) /\ Len(more) = n + 1 /\ n \in Nat
      /\ (\A t \in 1..n : more[t] = list[t]) /\ more[n + 1] = x
    BY AppendProperties, LenProperties
<1> HIDE DEF more
<1>2. \A t \in 0..n : CounterWalk(more, new)[t] = CounterWalk(list, new)[t]
    BY <1>1, CounterWalkGrows, Zenon
<1> HIDE DEF n
<1>3. n + 1 \in 1..(n + 1) /\ (n + 1) - 1 = n /\ n \in 0..n /\ (\A t \in 1..n : t \in 0..n /\ t \in 1..(n + 1))
    BY <1>1
<1>4. CounterWalk(more, new)[n + 1] = v
  <2>1. CounterWalk(more, new)[n + 1] = MT!counterChange(CounterWalk(more, new)[(n + 1) - 1], more[n + 1], new)
      BY <1>1, <1>3, CounterWalkIs
  <2> QED BY <1>1, <1>2, <1>3, <2>1 DEF CounterEnd, n
<1>5. CounterEnd(more, new) = v
    BY <1>1, <1>4 DEF CounterEnd
<1> DEFINE f == MT!counterChanges(list, new)
           g == MT!counterChanges(more, new)
<1>6. /\ f \in Seq(Nat) /\ Len(f) = n /\ f = [t \in 1..n |-> CounterWalk(list, new)[t].change]
      /\ g \in Seq(Nat) /\ Len(g) = n + 1 /\ g = [t \in 1..(n + 1) |-> CounterWalk(more, new)[t].change]
    BY <1>1, CounterChangesAre DEF n
<1> HIDE DEF f, g
<1>7. (\A t \in 1..n : g[t] = f[t]) /\ g[n + 1] = v.change
    BY <1>2, <1>3, <1>4, <1>6
<1>8. MT!Numbers(g) = MT!Numbers(f) + g[n + 1]
    BY <1>6, <1>7, NumbersGrow
<1> QED BY <1>5, <1>7, <1>8 DEF more, f, g, Counted

(* Reports of one counter stay behind what happened, for the same reasons. *)
CounterBehind(n, w, c, h, new) ==
    \/ w.first /\ ~ new /\ n = 0
    \/ w.previous <= c.count /\ n + c.count - w.previous <= h.count
    \/ n + c.count <= h.count

(* A value of it, or a missing one, leaves them behind. *)
LEMMA ValueKeepsBehind ==
    ASSUME NEW n \in Nat, NEW w \in CounterWalks, NEW c \in Amounts, NEW h \in Amounts, NEW new \in BOOLEAN,
           NEW x \in Values, x = c.count \/ x = MT!None, CounterBehind(n, w, c, h, new),
           NEW v, v = MT!counterChange(w, x, new)
    PROVE  CounterBehind(n + v.change, v, c, h, new)
<1>0. w.previous \in Nat /\ c.count \in Nat /\ h.count \in Nat /\ w.first \in BOOLEAN
    BY DEF CounterWalks, Amounts
<1>1. CASE x = MT!None
  <2>1. v = [w EXCEPT !.change = 0]
      BY <1>1, Zenon DEF MT!counterChange
  <2>2. v.previous = w.previous /\ v.first = w.first /\ v.change = 0
      BY <2>1 DEF CounterWalks
  <2> QED BY <1>0, <2>2 DEF CounterBehind
<1>2. CASE x # MT!None
  <2>1. x = c.count
      BY <1>2
  <2> DEFINE d == IF w.first /\ ~ new THEN 0
                  ELSE IF x < w.previous THEN x ELSE x - w.previous
  <2>2. v = [previous |-> x, first |-> FALSE, change |-> d]
    <3>1. ~(x < 0)
        BY <1>0, <2>1
    <3> QED BY <1>2, <3>1, Zenon DEF MT!counterChange
  <2>3. v.previous = c.count /\ v.change = d
      BY <2>1, <2>2
  <2>4. \/ w.first /\ ~ new /\ d = 0
        \/ (~ w.first \/ new) /\ c.count < w.previous /\ d = c.count
        \/ (~ w.first \/ new) /\ c.count >= w.previous /\ d = c.count - w.previous
    <3>1. CASE w.first /\ ~ new
        BY <3>1
    <3>2. CASE (~ w.first \/ new) /\ c.count < w.previous
        BY <2>1, <3>2
    <3>3. CASE (~ w.first \/ new) /\ ~(c.count < w.previous)
        BY <1>0, <2>1, <3>3
    <3> QED BY <3>1, <3>2, <3>3
  <2> HIDE DEF d
  <2>5. d \in Nat /\ n + d <= h.count
    <3>1. CASE w.first /\ ~ new /\ n = 0
        BY <1>0, <2>4, <3>1
    <3>2. CASE w.previous <= c.count /\ n + c.count - w.previous <= h.count
        BY <1>0, <2>4, <3>2
    <3>3. CASE n + c.count <= h.count
        BY <1>0, <2>4, <3>3
    <3> QED BY <3>1, <3>2, <3>3 DEF CounterBehind
  <2> QED BY <1>0, <2>3, <2>5 DEF CounterBehind
<1> QED BY <1>1, <1>2

(* The first values of a sequence of numbers, and their sum. *)
LEMMA FirstNumbers ==
    ASSUME NEW f \in Seq(Nat), NEW n, n = Len(f)
    PROVE  /\ \A t \in 1..n : MT!Numbers(SubSeq(f, 1, t)) \in Nat
           /\ \A t \in 2..n : MT!Numbers(SubSeq(f, 1, t - 1)) <= MT!Numbers(SubSeq(f, 1, t))
           /\ SubSeq(f, 1, n) = f
<1>1. n \in Nat /\ DOMAIN f = 1..n /\ \A t \in 1..n : f[t] \in Nat
    BY LenProperties, ElementOfSeq
<1>2. ASSUME NEW t \in 1..n
      PROVE  SubSeq(f, 1, t) \in Seq(Nat) /\ Len(SubSeq(f, 1, t)) = t /\ \A k \in 1..t : SubSeq(f, 1, t)[k] = f[k]
    BY <1>1, SubSeqProperties
<1>3. \A t \in 1..n : MT!Numbers(SubSeq(f, 1, t)) \in Nat
    BY <1>2, NumbersTyped
<1>4. ASSUME NEW t \in 2..n
      PROVE  MT!Numbers(SubSeq(f, 1, t - 1)) <= MT!Numbers(SubSeq(f, 1, t))
  <2> DEFINE a == SubSeq(f, 1, t - 1)
             b == SubSeq(f, 1, t)
  <2>1. t \in 1..n /\ t - 1 \in 1..n /\ (t - 1) + 1 = t /\ t \in 1..t /\ \A k \in 1..(t - 1) : k \in 1..t
      BY <1>1
  <2>2. a \in Seq(Nat) /\ Len(a) = t - 1 /\ \A k \in 1..(t - 1) : a[k] = f[k]
      BY <1>2, <2>1
  <2>3. b \in Seq(Nat) /\ Len(b) = t /\ \A k \in 1..t : b[k] = f[k]
      BY <1>2, <2>1
  <2> HIDE DEF a, b
  <2>4. Len(b) = Len(a) + 1 /\ \A k \in 1..Len(a) : b[k] = a[k]
      BY <2>1, <2>2, <2>3
  <2>5. MT!Numbers(b) = MT!Numbers(a) + b[Len(a) + 1]
      BY <2>2, <2>3, <2>4, NumbersGrow, Zenon
  <2>6. b[Len(a) + 1] \in Nat
      BY <1>1, <2>1, <2>2, <2>3
  <2>7. MT!Numbers(a) \in Nat
      BY <2>2, NumbersTyped
  <2>8. MT!Numbers(a) <= MT!Numbers(b)
      BY <2>5, <2>6, <2>7
  <2> QED BY <2>8 DEF a, b
<1>5. SubSeq(f, 1, n) = f
  <2>1. CASE n = 0
      BY <1>1, <2>1
  <2>2. CASE n # 0
    <3>1. n \in 1..n
        BY <1>1, <2>2
    <3>2. /\ SubSeq(f, 1, n) \in Seq(Nat) /\ Len(SubSeq(f, 1, n)) = n
          /\ \A k \in 1..n : SubSeq(f, 1, n)[k] = f[k]
        BY <1>2, <3>1
    <3> QED BY <1>1, <3>2, SeqEqual
  <2> QED BY <2>1, <2>2
<1> QED BY <1>3, <1>4, <1>5

(* The series of a counter in both clusters adds up what they report, and
   its points never fall. *)
LEMMA SeriesOfCounter ==
    ASSUME NEW lists \in [Sources -> Seq(Samples)], NEW n \in Nat \ {0}, Len(lists[1]) = n, Len(lists[2]) = n, NEW new,
           NEW series, series = MT!cumulativeCounterSeries([s \in Sources |-> CountsOf(lists[s])], new)
    PROVE  /\ series[n] = Counted(CountsOf(lists[1]), new) + Counted(CountsOf(lists[2]), new)
           /\ \A t \in 2..n : series[t - 1] <= series[t]
<1> DEFINE sources == [s \in Sources |-> CountsOf(lists[s])]
           changes == [s \in DOMAIN sources |-> MT!counterChanges(sources[s], new)]
           c(s) == MT!counterChanges(CountsOf(lists[s]), new)
           N(s, t) == MT!Numbers(SubSeq(c(s), 1, t))
<1>1. series = [t \in DOMAIN sources[1] |->
                  MT!Numbers([s \in DOMAIN sources |-> MT!Numbers(SubSeq(changes[s], 1, t))])]
    BY DEF MT!cumulativeCounterSeries
<1>2. \A s \in Sources : CountsOf(lists[s]) \in Seq(Values) /\ Len(CountsOf(lists[s])) = n
    BY CountsTyped DEF Sources
<1>3. DOMAIN sources = Sources /\ DOMAIN sources[1] = 1..n /\ changes = [s \in Sources |-> c(s)]
  <2>1. 1 \in Sources
      BY DEF Sources
  <2>2. DOMAIN CountsOf(lists[1]) = 1..n
      BY <1>2, <2>1, LenProperties
  <2> QED BY <2>1, <2>2
<1>4. \A s \in Sources : c(s) \in Seq(Nat) /\ Len(c(s)) = n
    BY <1>2, CounterChangesAre
<1> HIDE DEF c, sources, changes
<1>5. \A s \in Sources : /\ \A t \in 1..n : N(s, t) \in Nat
                         /\ \A t \in 2..n : N(s, t - 1) <= N(s, t)
                         /\ SubSeq(c(s), 1, n) = c(s)
    BY <1>4, FirstNumbers
<1>6. ASSUME NEW t \in 1..n PROVE series[t] = N(1, t) + N(2, t)
  <2> DEFINE f == [s \in 1..2 |-> N(s, t)]
  <2>1. f = [s \in DOMAIN sources |-> MT!Numbers(SubSeq(changes[s], 1, t))]
      BY <1>3 DEF Sources
  <2>2. f \in [1..2 -> Nat] /\ f[1] = N(1, t) /\ f[2] = N(2, t)
      BY <1>5 DEF Sources
  <2> HIDE DEF f, N
  <2>3. MT!Numbers(f) = f[1] + f[2]
      BY <2>2, NumbersTwo
  <2>4. series[t] = MT!Numbers(f)
      BY <1>1, <1>3, <2>1
  <2> QED BY <2>2, <2>3, <2>4
<1>7. \A t \in 2..n : series[t - 1] <= series[t]
  <2> SUFFICES ASSUME NEW t \in 2..n PROVE series[t - 1] <= series[t]
      OBVIOUS
  <2>1. t \in 1..n /\ t - 1 \in 1..n /\ 1 \in Sources /\ 2 \in Sources
      BY DEF Sources
  <2> HIDE DEF N
  <2>2. /\ N(1, t) \in Nat /\ N(1, t - 1) \in Nat /\ N(1, t - 1) <= N(1, t)
        /\ N(2, t) \in Nat /\ N(2, t - 1) \in Nat /\ N(2, t - 1) <= N(2, t)
      BY <1>5, <2>1
  <2>3. series[t] = N(1, t) + N(2, t) /\ series[t - 1] = N(1, t - 1) + N(2, t - 1)
      BY <1>6, <2>1
  <2> QED BY <2>2, <2>3
<1>8. series[n] = N(1, n) + N(2, n)
    BY <1>6
<1>9. N(1, n) = MT!Numbers(c(1)) /\ N(2, n) = MT!Numbers(c(2))
  <2>1. 1 \in Sources /\ 2 \in Sources
      BY DEF Sources
  <2>2. SubSeq(c(1), 1, n) = c(1) /\ SubSeq(c(2), 1, n) = c(2)
      BY <1>5, <2>1
  <2> QED BY <2>2
<1> QED BY <1>7, <1>8, <1>9 DEF c, Counted

(* The summary of a source that reports n events of length t. *)
Summary(u, n, t) ==
    \/ u.status = "unavailable"
    \/ u.status = "no_events"
    \/ u.status = "available" /\ u.count = n /\ n > 0 /\ u.sum = t

(* What a source reports is what its summary says. *)
LEMMA SummaryIs ==
    ASSUME NEW list \in Seq(Samples), NEW new
    PROVE  Summary(MT!durationSummary(list, new), Reported(list, new), Lasted(list, new))
<1> DEFINE u == MT!durationSummary(list, new)
           series == MT!durationCounterSeries(<<list>>, new)
           Read(field) == \E t \in DOMAIN list : list[t][field] # MT!None
<1>1. series.count = Reported(list, new) /\ series.total = Lasted(list, new)
    BY SeriesIs DEF Reported, Lasted
<1>2. Reported(list, new) \in Nat
    BY SourceTyped
<1>3. u = CASE ~ Read("count") \/ ~ Read("sum") -> [status |-> "unavailable", count |-> MT!None, sum |-> MT!None, total |-> MT!None]
            [] Read("count") /\ Read("sum") /\ series.count = 0 -> [status |-> "no_events", count |-> 0, sum |-> MT!None, total |-> MT!None]
            [] OTHER -> [status |-> "available", count |-> series.count, sum |-> series.total, total |-> MT!None]
    BY Zenon DEF MT!durationSummary
<1> HIDE DEF u, series, Read
<1>4. CASE ~ Read("count") \/ ~ Read("sum")
    BY <1>3, <1>4 DEF Summary, u
<1>5. CASE Read("count") /\ Read("sum") /\ series.count = 0
    BY <1>3, <1>5 DEF Summary, u
<1>6. CASE Read("count") /\ Read("sum") /\ series.count # 0
  <2>1. u = [status |-> "available", count |-> series.count, sum |-> series.total, total |-> MT!None]
      BY <1>3, <1>6
  <2>2. u.status = "available" /\ u.count = Reported(list, new) /\ u.sum = Lasted(list, new) /\ Reported(list, new) > 0
      BY <1>1, <1>2, <1>6, <2>1
  <2> QED BY <2>2 DEF Summary, u
<1> QED BY <1>4, <1>5, <1>6

(* Merged summaries are valid and add up what is reported. *)
LEMMA MergedIs ==
    ASSUME NEW f, DOMAIN f = 1..2, NEW n \in [1..2 -> Nat], NEW t \in [1..2 -> Nat],
           \A s \in 1..2 : Summary(f[s], n[s], t[s]),
           NEW m, m = MT!mergeControlSummaries("scheduler.cycle_duration", f)
    PROVE  /\ MT!validateControlSummary("scheduler.cycle_duration", m)
           /\ m.status = "available" => /\ m.count \in Nat /\ m.count <= n[1] + n[2]
                                       /\ m.sum \in Nat /\ m.sum <= t[1] + t[2]
<1> DEFINE available == {k \in DOMAIN f : f[k].status = "available"}
           Added(field) == MT!Numbers([k \in DOMAIN f |->
                               IF k \in available /\ f[k][field] # MT!None THEN f[k][field] ELSE 0])
<1>1. m = IF \E k \in DOMAIN f : f[k].status \in {"missing", "unavailable"}
          THEN [status |-> "unavailable", count |-> MT!None, sum |-> MT!None, total |-> MT!None]
          ELSE IF available = {} THEN f[1]
          ELSE [status |-> "available", count |-> Added("count"), sum |-> Added("sum"), total |-> MT!None]
    BY DEF MT!mergeControlSummaries
<1>2. CASE \E k \in DOMAIN f : f[k].status \in {"missing", "unavailable"}
  <2>1. m.status = "unavailable"
      BY <1>1, <1>2
  <2> QED BY <2>1 DEF MT!validateControlSummary
<1>3. CASE ~(\E k \in DOMAIN f : f[k].status \in {"missing", "unavailable"}) /\ available = {}
  <2>1. m = f[1]
      BY <1>1, <1>3
  <2>2. f[1].status = "no_events"
      BY <1>3 DEF Summary
  <2> QED BY <2>1, <2>2 DEF MT!validateControlSummary
<1>4. CASE ~(\E k \in DOMAIN f : f[k].status \in {"missing", "unavailable"}) /\ available # {}
  <2>1. m = [status |-> "available", count |-> Added("count"), sum |-> Added("sum"), total |-> MT!None]
      BY <1>1, <1>4
  <2> DEFINE c == [k \in 1..2 |-> IF k \in available THEN n[k] ELSE 0]
             d == [k \in 1..2 |-> IF k \in available THEN t[k] ELSE 0]
  <2>2. \A k \in available : k \in 1..2 /\ f[k].count = n[k] /\ n[k] > 0 /\ f[k].sum = t[k]
      BY DEF Summary
  <2>3. \A k \in 1..2 : n[k] \in Nat /\ t[k] \in Nat /\ n[k] # MT!None /\ t[k] # MT!None
      BY DEF MT!None
  <2> HIDE DEF available
  <2>5. /\ [k \in DOMAIN f |-> IF k \in available /\ f[k].count # MT!None THEN f[k].count ELSE 0] = c
        /\ [k \in DOMAIN f |-> IF k \in available /\ f[k].sum # MT!None THEN f[k].sum ELSE 0] = d
      BY <2>2, <2>3
  <2>6. c \in [1..2 -> Nat] /\ d \in [1..2 -> Nat]
      BY <2>3
  <2>7. /\ \A k \in 1..2 : c[k] <= n[k] /\ d[k] <= t[k]
        /\ \E k \in 1..2 : c[k] > 0
      BY <1>4, <2>2, <2>3
  <2> HIDE DEF c, d
  <2>8. MT!Numbers(c) = c[1] + c[2] /\ MT!Numbers(d) = d[1] + d[2]
      BY <2>6, NumbersTwo
  <2>9. m.status = "available" /\ m.count = c[1] + c[2] /\ m.sum = d[1] + d[2]
      BY <2>1, <2>5, <2>8
  <2>10. m.count > 0 /\ m.count \in Nat /\ m.sum \in Nat /\ m.count <= n[1] + n[2] /\ m.sum <= t[1] + t[2]
      BY <2>3, <2>6, <2>7, <2>9
  <2>11. m.sum # MT!None
      BY <2>10 DEF MT!None
  <2> QED BY <2>9, <2>10, <2>11 DEF MT!validateControlSummary
<1> QED BY <1>2, <1>3, <1>4

(* A source whose reports stay behind what happened, and one whose reports
   are exact. *)
Honest(list, c, h, new) ==
    /\ Behind(Reported(list, new), Lasted(list, new), DurationEnd(list, new), c, h, new)
    /\ CounterBehind(Counted(CountsOf(list), new), CounterEnd(CountsOf(list), new), c, h, new)
Complete(list, c, h, new) == Exact(Reported(list, new), Lasted(list, new), DurationEnd(list, new), c, h)

(* The terms of both are numbers. *)
LEMMA HonestTyped ==
    ASSUME NEW list \in Seq(Samples), NEW new
    PROVE  /\ Reported(list, new) \in Nat /\ Lasted(list, new) \in Nat
           /\ DurationEnd(list, new) \in DurationWalks
           /\ DurationEnd(list, new).count \in Nat /\ DurationEnd(list, new).sum \in Nat
           /\ Counted(CountsOf(list), new) \in Nat /\ CounterEnd(CountsOf(list), new) \in CounterWalks
           /\ CounterEnd(CountsOf(list), new).previous \in Nat
<1>1. Reported(list, new) \in Nat /\ Lasted(list, new) \in Nat /\ DurationEnd(list, new) \in DurationWalks
    BY SourceTyped
<1>2. Counted(CountsOf(list), new) \in Nat /\ CounterEnd(CountsOf(list), new) \in CounterWalks
    BY CountsTyped, CounterTyped
<1>3. DurationEnd(list, new).count \in Nat /\ DurationEnd(list, new).sum \in Nat
    BY <1>1 DEF DurationWalks
<1>4. CounterEnd(CountsOf(list), new).previous \in Nat
    BY <1>2 DEF CounterWalks
<1> QED BY <1>1, <1>2, <1>3, <1>4

(* Sources without samples are honest; fresh ones are complete. *)
LEMMA HonestInit ==
    ASSUME NEW c \in Amounts, NEW new \in BOOLEAN
    PROVE  /\ ~ new => Honest(<<>>, c, Nothing, new)
           /\ new /\ c = Nothing => Honest(<<>>, c, Nothing, new) /\ Complete(<<>>, c, Nothing, new)
<1>1. /\ Reported(<<>>, new) = 0 /\ Lasted(<<>>, new) = 0
      /\ DurationEnd(<<>>, new) = DurationStart
    BY SourceEmpty
<1>2. CountsOf(<<>>) = <<>>
  <2>1. DOMAIN <<>> = {}
      OBVIOUS
  <2> QED BY <2>1 DEF CountsOf
<1>3. Counted(CountsOf(<<>>), new) = 0 /\ CounterEnd(CountsOf(<<>>), new) = CounterStart
    BY <1>2, CounterEmpty
<1>4. /\ DurationStart.count = 0 /\ DurationStart.sum = 0 /\ DurationStart.seen = FALSE
      /\ CounterStart.previous = 0 /\ CounterStart.first = TRUE
      /\ Nothing.count = 0 /\ Nothing.sum = 0
    BY DEF DurationStart, CounterStart, Nothing
<1>5. ~ new => Behind(0, 0, DurationStart, c, Nothing, new) /\ CounterBehind(0, CounterStart, c, Nothing, new)
    BY <1>4 DEF Behind, CounterBehind
<1>6. c = Nothing => /\ Behind(0, 0, DurationStart, c, Nothing, new) /\ CounterBehind(0, CounterStart, c, Nothing, new)
                     /\ Exact(0, 0, DurationStart, c, Nothing)
    BY <1>4 DEF Behind, CounterBehind, Exact
<1> QED BY <1>1, <1>3, <1>5, <1>6 DEF Honest, Complete

(* What a process shows and what happened grow by the same event. *)
Grow(c, h, d, g) ==
    /\ d.count = c.count + 1 /\ g.count = h.count + 1
    /\ \E l \in Nat : d.sum = c.sum + l /\ g.sum = h.sum + l

(* An event is counted where it happens. *)
LEMMA EventKeepsBehind ==
    ASSUME NEW n \in Nat, NEW t \in Nat, NEW w \in DurationWalks, NEW k \in Nat, NEW v \in CounterWalks,
           NEW c \in Amounts, NEW h \in Amounts, NEW new \in BOOLEAN,
           NEW d \in Amounts, NEW g \in Amounts, Grow(c, h, d, g)
    PROVE  /\ Behind(n, t, w, c, h, new) => Behind(n, t, w, d, g, new)
           /\ CounterBehind(k, v, c, h, new) => CounterBehind(k, v, d, g, new)
           /\ Exact(n, t, w, c, h) => Exact(n, t, w, d, g)
<1>1. /\ c.count \in Nat /\ c.sum \in Nat /\ h.count \in Nat /\ h.sum \in Nat
      /\ d.count \in Nat /\ d.sum \in Nat /\ g.count \in Nat /\ g.sum \in Nat
    BY DEF Amounts
<1>2. w.count \in Nat /\ w.sum \in Nat /\ v.previous \in Nat
    BY DEF DurationWalks, CounterWalks
<1>3. PICK l \in Nat : d.count = c.count + 1 /\ g.count = h.count + 1 /\ d.sum = c.sum + l /\ g.sum = h.sum + l
    BY DEF Grow
<1>4. Behind(n, t, w, c, h, new) => Behind(n, t, w, d, g, new)
    BY <1>1, <1>2, <1>3 DEF Behind
<1>5. CounterBehind(k, v, c, h, new) => CounterBehind(k, v, d, g, new)
    BY <1>1, <1>2, <1>3 DEF CounterBehind
<1>6. Exact(n, t, w, c, h) => Exact(n, t, w, d, g)
    BY <1>1, <1>2, <1>3 DEF Exact
<1> QED BY <1>4, <1>5, <1>6

(* An honest source stays honest, a complete one complete. *)
LEMMA HonestEvent ==
    ASSUME NEW list \in Seq(Samples), NEW c \in Amounts, NEW h \in Amounts, NEW new \in BOOLEAN,
           NEW d \in Amounts, NEW g \in Amounts, Grow(c, h, d, g)
    PROVE  /\ Honest(list, c, h, new) => Honest(list, d, g, new)
           /\ Complete(list, c, h, new) => Complete(list, d, g, new)
<1> DEFINE n == Reported(list, new)
           t == Lasted(list, new)
           w == DurationEnd(list, new)
           k == Counted(CountsOf(list), new)
           v == CounterEnd(CountsOf(list), new)
<1>1. n \in Nat /\ t \in Nat /\ w \in DurationWalks /\ k \in Nat /\ v \in CounterWalks
    BY HonestTyped
<1> HIDE DEF n, t, w, k, v
<1>2. /\ Behind(n, t, w, c, h, new) => Behind(n, t, w, d, g, new)
      /\ CounterBehind(k, v, c, h, new) => CounterBehind(k, v, d, g, new)
      /\ Exact(n, t, w, c, h) => Exact(n, t, w, d, g)
    BY <1>1, EventKeepsBehind
<1> QED BY <1>2 DEF Honest, Complete, n, t, w, k, v

(* A restart loses what was not sampled, and nothing is reported twice. *)
LEMMA HonestRestart ==
    ASSUME NEW list \in Seq(Samples), NEW c \in Amounts, NEW h \in Amounts, NEW new \in BOOLEAN, Honest(list, c, h, new)
    PROVE  Honest(list, Nothing, h, new)
<1>1. c.count \in Nat /\ c.sum \in Nat /\ h.count \in Nat /\ h.sum \in Nat /\ Nothing.count = 0 /\ Nothing.sum = 0
    BY DEF Amounts, Nothing
<1> DEFINE n == Reported(list, new)
           t == Lasted(list, new)
           w == DurationEnd(list, new)
           k == Counted(CountsOf(list), new)
           v == CounterEnd(CountsOf(list), new)
<1>2. n \in Nat /\ t \in Nat /\ w.count \in Nat /\ w.sum \in Nat /\ k \in Nat /\ v.previous \in Nat
    BY HonestTyped
<1>3. Behind(n, t, w, c, h, new) /\ CounterBehind(k, v, c, h, new)
    BY DEF Honest
<1> HIDE DEF n, t, w, k, v
<1>4. Behind(n, t, w, Nothing, h, new)
  <2>1. CASE ~ w.seen /\ ~ new /\ n = 0 /\ t = 0
      BY <2>1 DEF Behind
  <2>2. CASE /\ w.count <= c.count /\ w.sum <= c.sum
             /\ n + c.count - w.count <= h.count /\ t + c.sum - w.sum <= h.sum
      BY <1>1, <1>2, <2>2, SMTT(30) DEF Behind
  <2>3. CASE n + c.count <= h.count /\ t + c.sum <= h.sum
      BY <1>1, <1>2, <2>3 DEF Behind
  <2> QED BY <1>3, <2>1, <2>2, <2>3 DEF Behind
<1>5. CounterBehind(k, v, Nothing, h, new)
  <2>1. CASE v.first /\ ~ new /\ k = 0
      BY <2>1 DEF CounterBehind
  <2>2. CASE v.previous <= c.count /\ k + c.count - v.previous <= h.count
      BY <1>1, <1>2, <2>2 DEF CounterBehind
  <2>3. CASE k + c.count <= h.count
      BY <1>1, <1>2, <2>3 DEF CounterBehind
  <2> QED BY <1>3, <2>1, <2>2, <2>3 DEF CounterBehind
<1> QED BY <1>4, <1>5 DEF Honest, n, t, w, k, v

(* A scrape reports what happened since the last one, or less. *)
LEMMA HonestScrape ==
    ASSUME NEW list \in Seq(Samples), NEW c \in Amounts, NEW h \in Amounts, NEW new \in BOOLEAN, Honest(list, c, h, new),
           NEW x \in Samples, SampleOf(x, c), x.count = c.count \/ x.count = MT!None
    PROVE  Honest(Append(list, x), c, h, new)
<1> DEFINE n == Reported(list, new)
           t == Lasted(list, new)
           w == DurationEnd(list, new)
           k == Counted(CountsOf(list), new)
           v == CounterEnd(CountsOf(list), new)
<1>1. n \in Nat /\ t \in Nat /\ w \in DurationWalks /\ k \in Nat /\ v \in CounterWalks
    BY HonestTyped
<1>2. Behind(n, t, w, c, h, new) /\ CounterBehind(k, v, c, h, new)
    BY DEF Honest
<1>3. PICK y : y = MT!durationChange(w, x, new)
    OBVIOUS
<1>4. PICK z : z = MT!counterChange(v, x.count, new)
    OBVIOUS
<1>5. CountsOf(list) \in Seq(Values) /\ CountsOf(Append(list, x)) = Append(CountsOf(list), x.count) /\ x.count \in Values
    BY CountsTyped DEF Samples
<1>6. /\ DurationEnd(Append(list, x), new) = y
      /\ Reported(Append(list, x), new) = n + y.change.count
      /\ Lasted(Append(list, x), new) = t + (IF y.change.count > 0 THEN y.change.sum ELSE 0)
    BY <1>3, SourceGrows
<1>7. /\ CounterEnd(CountsOf(Append(list, x)), new) = z
      /\ Counted(CountsOf(Append(list, x)), new) = k + z.change
    BY <1>4, <1>5, CounterGrows
<1> HIDE DEF n, t, w, k, v
<1>8. Behind(n + y.change.count, t + (IF y.change.count > 0 THEN y.change.sum ELSE 0), y, c, h, new)
    BY <1>1, <1>2, <1>3, SampleKeepsBehind
<1>9. CounterBehind(k + z.change, z, c, h, new)
    BY <1>1, <1>2, <1>4, <1>5, ValueKeepsBehind
<1> QED BY <1>6, <1>7, <1>8, <1>9 DEF Honest

(* A scrape of a process that has not restarted reports exactly that. *)
LEMMA CompleteScrape ==
    ASSUME NEW list \in Seq(Samples), NEW c \in Amounts, NEW h \in Amounts, NEW new \in BOOLEAN,
           Complete(list, c, h, new), NEW x \in Samples, SampleOf(x, c)
    PROVE  new => Complete(Append(list, x), c, h, new)
<1> DEFINE n == Reported(list, new)
           t == Lasted(list, new)
           w == DurationEnd(list, new)
<1>1. n \in Nat /\ t \in Nat /\ w \in DurationWalks
    BY HonestTyped
<1>2. Exact(n, t, w, c, h)
    BY DEF Complete
<1>3. PICK y : y = MT!durationChange(w, x, new)
    OBVIOUS
<1>4. /\ DurationEnd(Append(list, x), new) = y
      /\ Reported(Append(list, x), new) = n + y.change.count
      /\ Lasted(Append(list, x), new) = t + (IF y.change.count > 0 THEN y.change.sum ELSE 0)
    BY <1>3, SourceGrows
<1> HIDE DEF n, t, w
<1>5. new => Exact(n + y.change.count, t + (IF y.change.count > 0 THEN y.change.sum ELSE 0), y, c, h)
  <2>1. new => new = TRUE
      OBVIOUS
  <2> QED BY <1>1, <1>2, <1>3, <2>1, SampleKeepsExact
<1> QED BY <1>4, <1>5 DEF Complete

(* In every state sources are honest, and complete as long as their process
   belongs to the trial and has not restarted. *)
CountersTyped ==
    /\ counter \in [Sources -> Amounts] /\ happened \in [Sources -> Amounts]
    /\ samples \in [Sources -> Seq(Samples)] /\ Len(samples[1]) = Len(samples[2])
    /\ fresh \in BOOLEAN /\ restarts \in Nat
CountersKept ==
    /\ CountersTyped
    /\ \A s \in Sources :
          /\ Honest(samples[s], counter[s], happened[s], fresh)
          /\ fresh /\ (s = 1 => restarts = 0) => Complete(samples[s], counter[s], happened[s], fresh)

(* It begins like that. *)
LEMMA CountersInit ==
    ASSUME Init
    PROVE  CountersKept
<1>1. fresh \in BOOLEAN
  <2>1. fresh \in BOOLEAN \/ fresh \in {TRUE}
      BY Zenon DEF Init
  <2> QED BY <2>1
<1>2. /\ counter = [s \in Sources |-> IF fresh THEN Nothing ELSE Earlier]
      /\ happened = [s \in Sources |-> Nothing]
      /\ samples = [s \in Sources |-> <<>>]
      /\ restarts = 0
    BY DEF Init
<1>3. Nothing \in Amounts /\ Earlier \in Amounts
    BY DEF Nothing, Earlier, Amounts
<1>4. CountersTyped
    BY <1>1, <1>2, <1>3 DEF CountersTyped, Sources
<1>5. ASSUME NEW s \in Sources
      PROVE  /\ Honest(samples[s], counter[s], happened[s], fresh)
             /\ fresh => Complete(samples[s], counter[s], happened[s], fresh)
  <2>1. samples[s] = <<>> /\ happened[s] = Nothing /\ counter[s] \in Amounts /\ (fresh => counter[s] = Nothing)
      BY <1>2, <1>3
  <2> QED BY <1>1, <2>1, HonestInit
<1> QED BY <1>4, <1>5 DEF CountersKept

(* Events. *)
LEMMA CountersEvent ==
    ASSUME CountersKept, NEW s \in Sources, NEW l \in 1..2, Event(s, l)
    PROVE  CountersKept'
<1>1. /\ counter' = [counter EXCEPT ![s] = [count |-> @.count + 1, sum |-> @.sum + l]]
      /\ happened' = [happened EXCEPT ![s] = [count |-> @.count + 1, sum |-> @.sum + l]]
      /\ UNCHANGED <<samples, fresh, restarts>>
    BY DEF Event
<1>2. CountersTyped
    BY DEF CountersKept
<1>3. counter[s] \in Amounts /\ happened[s] \in Amounts
    BY <1>2 DEF CountersTyped
<1>4. /\ counter[s].count \in Nat /\ counter[s].sum \in Nat
      /\ happened[s].count \in Nat /\ happened[s].sum \in Nat
    BY <1>3 DEF Amounts
<1> DEFINE d == [count |-> counter[s].count + 1, sum |-> counter[s].sum + l]
           g == [count |-> happened[s].count + 1, sum |-> happened[s].sum + l]
<1>5. d \in Amounts /\ g \in Amounts
    BY <1>4 DEF Amounts
<1>6. Grow(counter[s], happened[s], d, g)
  <2>1. /\ d.count = counter[s].count + 1 /\ d.sum = counter[s].sum + l
        /\ g.count = happened[s].count + 1 /\ g.sum = happened[s].sum + l
      OBVIOUS
  <2>2. l \in Nat
      OBVIOUS
  <2> HIDE DEF d, g
  <2> QED BY <2>1, <2>2, Zenon DEF Grow
<1>7. counter' = [counter EXCEPT ![s] = d] /\ happened' = [happened EXCEPT ![s] = g]
    BY <1>1
<1> HIDE DEF d, g
<1>8. CountersTyped'
    BY <1>1, <1>2, <1>5, <1>7 DEF CountersTyped
<1>9. ASSUME NEW r \in Sources
      PROVE  /\ Honest(samples'[r], counter'[r], happened'[r], fresh')
             /\ fresh' /\ (r = 1 => restarts' = 0) => Complete(samples'[r], counter'[r], happened'[r], fresh')
  <2>1. /\ Honest(samples[r], counter[r], happened[r], fresh)
        /\ fresh /\ (r = 1 => restarts = 0) => Complete(samples[r], counter[r], happened[r], fresh)
      BY DEF CountersKept
  <2>2. CASE r # s
    <3>1. counter'[r] = counter[r] /\ happened'[r] = happened[r]
        BY <1>2, <1>7, <2>2 DEF CountersTyped
    <3> QED BY <1>1, <2>1, <3>1
  <2>3. CASE r = s
    <3>1. counter'[r] = d /\ happened'[r] = g
        BY <1>2, <1>7, <2>3 DEF CountersTyped
    <3>2. samples[s] \in Seq(Samples) /\ fresh \in BOOLEAN
        BY <1>2 DEF CountersTyped
    <3>3. /\ Honest(samples[s], counter[s], happened[s], fresh) => Honest(samples[s], d, g, fresh)
          /\ Complete(samples[s], counter[s], happened[s], fresh) => Complete(samples[s], d, g, fresh)
        BY <1>3, <1>5, <1>6, <3>2, HonestEvent
    <3> QED BY <1>1, <2>1, <2>3, <3>1, <3>3
  <2> QED BY <2>2, <2>3
<1> QED BY <1>8, <1>9 DEF CountersKept

(* Restarts. *)
LEMMA CountersRestart ==
    ASSUME CountersKept, Restart
    PROVE  CountersKept'
<1>1. /\ counter' = [counter EXCEPT ![1] = Nothing] /\ restarts' = restarts + 1
      /\ UNCHANGED <<happened, samples, fresh>>
    BY DEF Restart
<1>2. CountersTyped /\ Nothing \in Amounts
    BY DEF CountersKept, Nothing, Amounts
<1>3. CountersTyped'
  <2>1. restarts' \in Nat
      BY <1>1, <1>2 DEF CountersTyped
  <2>2. counter' \in [Sources -> Amounts]
      BY <1>1, <1>2 DEF CountersTyped
  <2> QED BY <1>1, <1>2, <2>1, <2>2 DEF CountersTyped
<1>4. restarts' # 0
    BY <1>1, <1>2 DEF CountersTyped
<1>5. ASSUME NEW r \in Sources
      PROVE  /\ Honest(samples'[r], counter'[r], happened'[r], fresh')
             /\ fresh' /\ (r = 1 => restarts' = 0) => Complete(samples'[r], counter'[r], happened'[r], fresh')
  <2>1. /\ Honest(samples[r], counter[r], happened[r], fresh)
        /\ fresh /\ (r = 1 => restarts = 0) => Complete(samples[r], counter[r], happened[r], fresh)
      BY DEF CountersKept
  <2>2. CASE r # 1
    <3>1. counter'[r] = counter[r]
        BY <1>1, <1>2, <2>2 DEF CountersTyped
    <3> QED BY <1>1, <2>1, <2>2, <3>1
  <2>3. CASE r = 1
    <3>1. counter'[r] = Nothing
        BY <1>1, <1>2, <2>3 DEF CountersTyped
    <3>2. samples[r] \in Seq(Samples) /\ fresh \in BOOLEAN /\ counter[r] \in Amounts /\ happened[r] \in Amounts
        BY <1>2 DEF CountersTyped
    <3>3. Honest(samples[r], Nothing, happened[r], fresh)
        BY <2>1, <3>2, HonestRestart
    <3> QED BY <1>1, <1>4, <2>3, <3>1, <3>3
  <2> QED BY <2>2, <2>3
<1> QED BY <1>3, <1>5 DEF CountersKept

(* A scrape reads what a process shows, or misses some of it. *)
LEMMA ScrapeSamples ==
    ASSUME NEW c \in Amounts, NEW lost \in SUBSET {"count", "sum"}, NEW x,
           x = [f \in {"count", "sum"} |-> IF f \in lost THEN MT!None ELSE c[f]]
    PROVE  x \in Samples /\ SampleOf(x, c) /\ (x.count = c.count \/ x.count = MT!None)
<1>1. c.count \in Nat /\ c.sum \in Nat /\ c = [count |-> c.count, sum |-> c.sum]
    BY DEF Amounts
<1>2. x = [count |-> x.count, sum |-> x.sum]
    OBVIOUS
<1>3. (x.count = c.count \/ x.count = MT!None) /\ (x.sum = c.sum \/ x.sum = MT!None)
    OBVIOUS
<1>4. x.count \in Values /\ x.sum \in Values
    BY <1>1, <1>3 DEF Values
<1>5. x \in Samples
    BY <1>2, <1>4 DEF Samples
<1>6. SampleOf(x, c)
  <2>1. CASE x.count = c.count /\ x.sum = c.sum
    <3>1. x = c
        BY <1>1, <1>2, <2>1, Zenon
    <3> QED BY <3>1 DEF SampleOf
  <2>2. CASE x.count = MT!None \/ x.sum = MT!None
      BY <2>2 DEF SampleOf
  <2> QED BY <1>3, <2>1, <2>2
<1> QED BY <1>3, <1>5, <1>6

(* Scrapes. *)
LEMMA CountersScrape ==
    ASSUME CountersKept, Scrape
    PROVE  CountersKept'
<1>1. PICK missing \in SUBSET {"count", "sum"} :
         samples' = [s \in Sources |-> Append(samples[s],
                        [f \in {"count", "sum"} |-> IF s = 1 /\ f \in missing THEN MT!None ELSE counter[s][f]])]
    BY DEF Scrape
<1>2. UNCHANGED <<counter, happened, fresh, restarts>>
    BY DEF Scrape
<1>3. CountersTyped
    BY DEF CountersKept
<1> DEFINE x(s) == [f \in {"count", "sum"} |-> IF s = 1 /\ f \in missing THEN MT!None ELSE counter[s][f]]
<1>4. ASSUME NEW s \in Sources
      PROVE  x(s) \in Samples /\ SampleOf(x(s), counter[s]) /\ (x(s).count = counter[s].count \/ x(s).count = MT!None)
  <2> DEFINE lost == IF s = 1 THEN missing ELSE {}
  <2>1. lost \in SUBSET {"count", "sum"} /\ \A f : f \in lost <=> s = 1 /\ f \in missing
      OBVIOUS
  <2>2. x(s) = [f \in {"count", "sum"} |-> IF f \in lost THEN MT!None ELSE counter[s][f]]
      BY <2>1
  <2>3. counter[s] \in Amounts
      BY <1>3 DEF CountersTyped
  <2> HIDE DEF lost, x
  <2> QED BY <2>1, <2>2, <2>3, ScrapeSamples
<1>5. samples' = [s \in Sources |-> Append(samples[s], x(s))]
    BY <1>1
<1> HIDE DEF x
<1>6. \A s \in Sources : samples[s] \in Seq(Samples) /\ counter[s] \in Amounts /\ happened[s] \in Amounts /\ fresh \in BOOLEAN
    BY <1>3 DEF CountersTyped
<1>7. CountersTyped'
  <2>1. \A s \in Sources : Append(samples[s], x(s)) \in Seq(Samples) /\ Len(Append(samples[s], x(s))) = Len(samples[s]) + 1
      BY <1>4, <1>6, AppendProperties
  <2>2. samples' \in [Sources -> Seq(Samples)]
      BY <1>5, <2>1
  <2>3. Len(samples'[1]) = Len(samples'[2])
      BY <1>3, <1>5, <2>1 DEF Sources, CountersTyped
  <2> QED BY <1>2, <1>3, <2>2, <2>3 DEF CountersTyped
<1>8. ASSUME NEW r \in Sources
      PROVE  /\ Honest(samples'[r], counter'[r], happened'[r], fresh')
             /\ fresh' /\ (r = 1 => restarts' = 0) => Complete(samples'[r], counter'[r], happened'[r], fresh')
  <2>1. /\ Honest(samples[r], counter[r], happened[r], fresh)
        /\ fresh /\ (r = 1 => restarts = 0) => Complete(samples[r], counter[r], happened[r], fresh)
      BY DEF CountersKept
  <2>2. samples'[r] = Append(samples[r], x(r))
      BY <1>5
  <2>3. Honest(Append(samples[r], x(r)), counter[r], happened[r], fresh)
      BY <1>4, <1>6, <2>1, HonestScrape
  <2>4. fresh /\ Complete(samples[r], counter[r], happened[r], fresh)
           => Complete(Append(samples[r], x(r)), counter[r], happened[r], fresh)
      BY <1>4, <1>6, CompleteScrape
  <2> QED BY <1>2, <2>1, <2>2, <2>3, <2>4
<1> QED BY <1>7, <1>8 DEF CountersKept

(* Every step. *)
LEMMA CountersNext ==
    ASSUME CountersKept, [Next]_vars
    PROVE  CountersKept'
<1>1. CASE UNCHANGED counting
    BY <1>1 DEF counting, CountersKept, CountersTyped
<1>2. ASSUME NEW s \in Sources, NEW l \in 1..2, Event(s, l) PROVE CountersKept'
    BY <1>2, CountersEvent
<1>3. UNCHANGED counting \/ (\E s \in Sources, l \in 1..2 : Event(s, l)) \/ Restart \/ Scrape
    BY DEF Next, vars, AddScheduledStage, AddOrderedStage, AddStage, AddPool
<1> QED BY <1>1, <1>2, <1>3, CountersRestart, CountersScrape

(* Reports that stay behind are no more than what happened. *)
LEMMA BehindReports ==
    ASSUME NEW n \in Nat, NEW t \in Nat, NEW w \in DurationWalks, NEW k \in Nat, NEW v \in CounterWalks,
           NEW c \in Amounts, NEW h \in Amounts, NEW new \in BOOLEAN
    PROVE  /\ Behind(n, t, w, c, h, new) => n <= h.count /\ t <= h.sum
           /\ CounterBehind(k, v, c, h, new) => k <= h.count
<1>1. c.count \in Nat /\ c.sum \in Nat /\ h.count \in Nat /\ h.sum \in Nat
    BY DEF Amounts
<1>2. w.count \in Nat /\ w.sum \in Nat /\ v.previous \in Nat
    BY DEF DurationWalks, CounterWalks
<1>3. Behind(n, t, w, c, h, new) => n <= h.count /\ t <= h.sum
    BY <1>1, <1>2 DEF Behind
<1>4. CounterBehind(k, v, c, h, new) => k <= h.count
    BY <1>1, <1>2 DEF CounterBehind
<1> QED BY <1>3, <1>4

(* Honest sources report no more than what happened. *)
LEMMA HonestReports ==
    ASSUME NEW list \in Seq(Samples), NEW c \in Amounts, NEW h \in Amounts, NEW new \in BOOLEAN, Honest(list, c, h, new)
    PROVE  /\ Reported(list, new) <= h.count /\ Lasted(list, new) <= h.sum
           /\ Counted(CountsOf(list), new) <= h.count
<1> DEFINE n == Reported(list, new)
           t == Lasted(list, new)
           w == DurationEnd(list, new)
           k == Counted(CountsOf(list), new)
           v == CounterEnd(CountsOf(list), new)
<1>1. n \in Nat /\ t \in Nat /\ w \in DurationWalks /\ k \in Nat /\ v \in CounterWalks
    BY HonestTyped
<1>2. Behind(n, t, w, c, h, new) /\ CounterBehind(k, v, c, h, new)
    BY DEF Honest
<1> HIDE DEF n, t, w, k, v
<1>3. n <= h.count /\ t <= h.sum /\ k <= h.count
    BY <1>1, <1>2, BehindReports
<1> QED BY <1>3 DEF n, t, k

(* Complete ones report all of it once their last sample is up to date. *)
LEMMA CompleteReports ==
    ASSUME NEW list \in Seq(Samples), NEW c \in Amounts, NEW h \in Amounts, NEW new, Complete(list, c, h, new),
           NEW n, n = Len(list), n # 0, MT!None \notin {list[n].count, list[n].sum}, list[n] = c
    PROVE  Reported(list, new) = h.count /\ Lasted(list, new) = h.sum
<1>1. c.count \in Nat /\ c.sum \in Nat /\ h.count \in Nat /\ h.sum \in Nat
    BY DEF Amounts
<1>2. n \in 1..n
    BY LenProperties
<1> DEFINE w == DurationEnd(list, new)
           p == DurationWalk(list, new)[n - 1]
<1>3. w = MT!durationChange(p, list[n], new)
    BY <1>2, DurationWalkIs DEF DurationEnd
<1> HIDE DEF w, p
<1>4. w.count = c.count /\ w.sum = c.sum
  <2>1. \E d : w = [count |-> c.count, sum |-> c.sum, seen |-> TRUE, change |-> d]
      BY <1>3, Zenon DEF MT!durationChange
  <2> QED BY <2>1
<1> DEFINE a == Reported(list, new)
           b == Lasted(list, new)
<1>5. a \in Nat /\ b \in Nat
    BY HonestTyped
<1>6. a + c.count - w.count = h.count /\ b + c.sum - w.sum = h.sum
    BY DEF Complete, Exact, w
<1> HIDE DEF a, b
<1>7. a = h.count /\ b = h.sum
    BY <1>1, <1>4, <1>5, <1>6
<1> QED BY <1>7 DEF a, b

(* So the dataset invents nothing. *)
LEMMA CountersTrue ==
    ASSUME CountersKept
    PROVE  CountersNeverInvent
<1> DEFINE n == Len(samples[1])
           a == [s \in 1..2 |-> Reported(samples[s], fresh)]
           b == [s \in 1..2 |-> Lasted(samples[s], fresh)]
           summaries == [s \in Sources |-> MT!durationSummary(samples[s], fresh)]
           merged == MT!mergeControlSummaries("scheduler.cycle_duration", summaries)
           series == MT!cumulativeCounterSeries([s \in Sources |-> CountsOf(samples[s])], fresh)
           D(s) == MT!durationCounterSeries(<<samples[s]>>, fresh)
<1>1. CountersTyped
    BY DEF CountersKept
<1>2. \A s \in Sources : samples[s] \in Seq(Samples) /\ counter[s] \in Amounts /\ happened[s] \in Amounts /\ fresh \in BOOLEAN
    BY <1>1 DEF CountersTyped
<1>3. \A s \in Sources : happened[s].count \in Nat /\ happened[s].sum \in Nat
    BY <1>2 DEF Amounts
<1>4. \A s \in Sources : Reported(samples[s], fresh) \in Nat /\ Lasted(samples[s], fresh) \in Nat
                         /\ Counted(CountsOf(samples[s]), fresh) \in Nat
    BY <1>2, HonestTyped
<1>5. \A s \in Sources : /\ Reported(samples[s], fresh) <= happened[s].count /\ Lasted(samples[s], fresh) <= happened[s].sum
                         /\ Counted(CountsOf(samples[s]), fresh) <= happened[s].count
    BY <1>2, HonestReports DEF CountersKept
<1>6. \A s \in Sources : D(s).count = Reported(samples[s], fresh) /\ D(s).total = Lasted(samples[s], fresh)
    BY <1>2, SeriesIs DEF Reported, Lasted
<1> SUFFICES ASSUME decision = "counters", n > 0
             PROVE  /\ MT!validateControlSummary("scheduler.cycle_duration", merged)
                    /\ merged.status = "available" => /\ merged.count <= happened[1].count + happened[2].count
                                                      /\ merged.sum <= happened[1].sum + happened[2].sum
                    /\ \A s \in Sources :
                          /\ D(s).count <= happened[s].count /\ D(s).total <= happened[s].sum
                          /\ fresh /\ (s = 1 => restarts = 0) /\ MT!None \notin {samples[s][n].count, samples[s][n].sum}
                               /\ samples[s][n] = counter[s]
                             => D(s).count = happened[s].count /\ D(s).total = happened[s].sum
                    /\ series[n] <= happened[1].count + happened[2].count
                    /\ \A t \in 2..n : series[t - 1] <= series[t]
    BY DEF CountersNeverInvent, CountsOf
<1>7. n \in Nat \ {0} /\ 1 \in Sources /\ 2 \in Sources /\ Len(samples[1]) = n /\ Len(samples[2]) = n
  <2>1. 1 \in Sources /\ 2 \in Sources
      BY DEF Sources
  <2>2. n \in Nat
      BY <1>2, <2>1, LenProperties
  <2> QED BY <1>1, <2>1, <2>2 DEF CountersTyped
<1>8. /\ series[n] = Counted(CountsOf(samples[1]), fresh) + Counted(CountsOf(samples[2]), fresh)
      /\ \A t \in 2..n : series[t - 1] <= series[t]
  <2>1. samples \in [Sources -> Seq(Samples)]
      BY <1>1 DEF CountersTyped
  <2> HIDE DEF n, series
  <2>2. series = MT!cumulativeCounterSeries([s \in Sources |-> CountsOf(samples[s])], fresh)
      BY Zenon DEF series
  <2> QED BY <1>7, <2>1, <2>2, SeriesOfCounter
<1>9. series[n] <= happened[1].count + happened[2].count
  <2>1. /\ Counted(CountsOf(samples[1]), fresh) \in Nat /\ Counted(CountsOf(samples[2]), fresh) \in Nat
        /\ Counted(CountsOf(samples[1]), fresh) <= happened[1].count
        /\ Counted(CountsOf(samples[2]), fresh) <= happened[2].count
        /\ happened[1].count \in Nat /\ happened[2].count \in Nat
      BY <1>3, <1>4, <1>5, <1>7
  <2> QED BY <1>8, <2>1
<1>10. /\ MT!validateControlSummary("scheduler.cycle_duration", merged)
       /\ merged.status = "available" => /\ merged.count \in Nat /\ merged.count <= a[1] + a[2]
                                         /\ merged.sum \in Nat /\ merged.sum <= b[1] + b[2]
  <2>1. a \in [1..2 -> Nat] /\ b \in [1..2 -> Nat]
      BY <1>4 DEF Sources
  <2>2. \A s \in 1..2 : Summary(summaries[s], a[s], b[s])
      BY <1>2, SummaryIs DEF Sources
  <2>3. DOMAIN summaries = 1..2
      BY DEF Sources
  <2> HIDE DEF a, b, summaries
  <2> QED BY <2>1, <2>2, <2>3, MergedIs
<1>11. merged.status = "available" => /\ merged.count <= happened[1].count + happened[2].count
                                      /\ merged.sum <= happened[1].sum + happened[2].sum
  <2> SUFFICES ASSUME merged.status = "available"
               PROVE  /\ merged.count <= happened[1].count + happened[2].count
                      /\ merged.sum <= happened[1].sum + happened[2].sum
      OBVIOUS
  <2>1. /\ a[1] \in Nat /\ a[2] \in Nat /\ b[1] \in Nat /\ b[2] \in Nat
        /\ a[1] <= happened[1].count /\ a[2] <= happened[2].count /\ b[1] <= happened[1].sum /\ b[2] <= happened[2].sum
        /\ happened[1].count \in Nat /\ happened[2].count \in Nat /\ happened[1].sum \in Nat /\ happened[2].sum \in Nat
      BY <1>3, <1>4, <1>5, <1>7
  <2>2. merged.count <= a[1] + a[2] /\ merged.sum <= b[1] + b[2]
      BY <1>10
  <2>3. merged.count \in Nat /\ merged.sum \in Nat
      BY <1>10
  <2> HIDE DEF merged, a, b, n
  <2> QED BY <2>1, <2>2, <2>3
<1>12. ASSUME NEW s \in Sources, Complete(samples[s], counter[s], happened[s], fresh),
              MT!None \notin {samples[s][n].count, samples[s][n].sum}, samples[s][n] = counter[s]
       PROVE  D(s).count = happened[s].count /\ D(s).total = happened[s].sum
  <2>1. n = Len(samples[s]) /\ n # 0
      BY <1>7 DEF Sources
  <2> HIDE DEF n, D
  <2>2. Reported(samples[s], fresh) = happened[s].count /\ Lasted(samples[s], fresh) = happened[s].sum
      BY <1>2, <1>12, <2>1, CompleteReports
  <2> QED BY <1>6, <2>2
<1>13. ASSUME NEW s \in Sources
       PROVE  /\ D(s).count <= happened[s].count /\ D(s).total <= happened[s].sum
              /\ fresh /\ (s = 1 => restarts = 0) /\ MT!None \notin {samples[s][n].count, samples[s][n].sum}
                   /\ samples[s][n] = counter[s]
                 => D(s).count = happened[s].count /\ D(s).total = happened[s].sum
  <2>1. D(s).count <= happened[s].count /\ D(s).total <= happened[s].sum
      BY <1>5, <1>6
  <2>2. fresh /\ (s = 1 => restarts = 0) => Complete(samples[s], counter[s], happened[s], fresh)
      BY DEF CountersKept
  <2> HIDE DEF n, D
  <2> QED BY <1>12, <2>1, <2>2
<1> HIDE DEF n, D, merged, series
<1> QED BY <1>8, <1>9, <1>10, <1>11, <1>13

(* The dataset reports nothing that did not happen, for any number of
   scrapes, events, restarts and missing values; and once the last scrape of
   a process that has not restarted is up to date, exactly what happened
   (durationCounterSeries, cumulativeCounterSeries, mergeControlSummaries). *)
THEOREM CountersNeverLie ==
    Spec => []CountersNeverInvent
<1>1. Init => CountersKept
    BY CountersInit
<1>2. CountersKept /\ [Next]_vars => CountersKept'
    BY CountersNext
<1>3. CountersKept => CountersNeverInvent
    BY CountersTrue
<1> QED BY <1>1, <1>2, <1>3, PTL DEF Spec
=============================================================================
