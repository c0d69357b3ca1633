------------------------- MODULE PipelinePlanProofs -------------------------
(***************************************************************************)
(* The two decisions of the pipeline coordinator follow their rules for    *)
(* every pipeline.  What a loop computes is proved without induction: of   *)
(* the steps after which it would be wrong there were a first one.         *)
(***************************************************************************)
EXTENDS PipelinePlan, FiniteSetTheorems, SequenceTheorems, TLAPS

(* A set of naturals that is not empty has a least element. *)
LEMMA LeastOf ==
    ASSUME NEW S \in SUBSET Nat, S # {}
    PROVE  \E x \in S : \A y \in S : x <= y
<1> DEFINE R == OpToRel(<, Nat)
<1>1. IsWellFoundedOn(R, Nat)
    BY NatLessThanWellFounded
<1> HIDE DEF R
<1>2. PICK x \in S : \A y \in S : ~ (<<y, x>> \in R)
    BY <1>1, WFMin
<1>3. \A y \in S : ~ (y < x)
    BY <1>2 DEF R, OpToRel
<1> QED
    BY <1>3

(* A bounded one has a greatest element. *)
LEMMA GreatestOf ==
    ASSUME NEW N \in Nat, NEW S \in SUBSET (1..N), S # {}
    PROVE  \E x \in S : \A y \in S : y <= x
<1>1. PICK d \in {N - x : x \in S} : \A e \in {N - x : x \in S} : d <= e
  <2>1. {N - x : x \in S} \in SUBSET Nat
      OBVIOUS
  <2>2. PICK z : z \in S
      OBVIOUS
  <2>3. N - z \in {N - x : x \in S}
      BY <2>2
  <2> QED
      BY <2>1, <2>3, LeastOf
<1>2. PICK x \in S : d = N - x
    BY <1>1
<1>3. \A y \in S : N - x <= N - y
    BY <1>1, <1>2
<1> QED
    BY <1>3
-----------------------------------------------------------------------------
(* The loop of pipelineCleanupOrder.                                       *)

(* What the loop has appended after k of n steps. *)
Appends(n, S, f, k) ==
    IF k = 0 THEN <<>> ELSE IF n + 1 - k \in S THEN Append(f[k - 1], n + 1 - k) ELSE f[k - 1]

(* The sequence w lists the set A from its greatest element down. *)
Lists(w, A) ==
    /\ w \in Seq(Nat)
    /\ \A p \in 1..Len(w) : w[p] \in A
    /\ \A x \in A : \E p \in 1..Len(w) : w[p] = x
    /\ \A p, q \in 1..Len(w) : p < q => w[p] > w[q]

(* Every number of steps is one the loop can take. *)
LEMMA LoopRuns ==
    ASSUME NEW n \in Nat, NEW S
    PROVE  \E f : f = [k \in 0..n |-> Appends(n, S, f, k)]
<1> DEFINE Runs(m) == \E f : f = [k \in 0..m |-> Appends(n, S, f, k)]
           bad == {m \in Nat : ~Runs(m)}
<1> SUFFICES ASSUME n \in bad PROVE FALSE
    OBVIOUS
<1>1. PICK m \in bad : \A y \in bad : m <= y
  <2> HIDE DEF Runs
  <2> QED
      BY LeastOf
<1>2. CASE m = 0
  <2> DEFINE f == [k \in 0..0 |-> <<>>]
  <2>1. f = [k \in 0..0 |-> Appends(n, S, f, k)]
      BY DEF Appends
  <2> QED
      BY <1>1, <1>2, <2>1
<1>3. CASE m # 0
  <2>1. m - 1 \in Nat /\ m \in Nat /\ m - 1 \notin bad
      BY <1>1, <1>3
  <2>2. PICK f : f = [k \in 0..(m - 1) |-> Appends(n, S, f, k)]
      BY <2>1
  <2> DEFINE g == [k \in 0..m |-> IF k = m THEN Appends(n, S, f, m) ELSE f[k]]
  <2>3. \A k \in 0..(m - 1) : f[k] = Appends(n, S, f, k)
      BY <2>2
  <2>4. \A k \in 0..m : Appends(n, S, g, k) = Appends(n, S, f, k)
    <3> SUFFICES ASSUME NEW k \in 0..m PROVE Appends(n, S, g, k) = Appends(n, S, f, k)
        OBVIOUS
    <3>1. k # 0 => g[k - 1] = f[k - 1]
        BY <2>1
    <3> QED
        BY <3>1 DEF Appends
  <2>5. \A k \in 0..m : g[k] = Appends(n, S, g, k)
      BY <2>1, <2>3, <2>4
  <2>6. g = [k \in 0..m |-> Appends(n, S, g, k)]
      BY <2>5
  <2> HIDE DEF g
  <2> QED
      BY <1>1, <2>6
<1> QED
    BY <1>2, <1>3

(* One more element at the end of a list. *)
LEMMA ListsAppend ==
    ASSUME NEW w, NEW A, Lists(w, A), NEW x \in Nat, \A y \in A : x < y
    PROVE  Lists(Append(w, x), A \union {x})
<1> DEFINE v == Append(w, x)
<1>1. /\ v \in Seq(Nat) /\ Len(v) = Len(w) + 1 /\ v[Len(w) + 1] = x /\ Len(w) \in Nat
      /\ \A p \in 1..Len(w) : v[p] = w[p]
    BY AppendProperties, LenProperties DEF Lists
<1> HIDE DEF v
<1>2. \A p \in 1..Len(v) : p \in 1..Len(w) \/ p = Len(w) + 1
    BY <1>1
<1>3. \A p \in 1..Len(w) : p \in 1..Len(v) /\ p # Len(w) + 1
    BY <1>1
<1>4. \A p \in 1..Len(v) : v[p] \in A \union {x}
    BY <1>1, <1>2 DEF Lists
<1>5. \A y \in A \union {x} : \E p \in 1..Len(v) : v[p] = y
  <2>1. Len(w) + 1 \in 1..Len(v)
      BY <1>1
  <2> QED
      BY <1>1, <1>3, <2>1 DEF Lists
<1>6. ASSUME NEW p \in 1..Len(v), NEW q \in 1..Len(v), p < q
      PROVE  v[p] > v[q]
  <2>1. p \in 1..Len(w)
      BY <1>1, <1>6
  <2>2. v[p] = w[p] /\ w[p] \in A /\ w[p] \in Nat
      BY <1>1, <2>1, ElementOfSeq DEF Lists
  <2>3. CASE q \in 1..Len(w)
      BY <1>1, <1>6, <2>1, <2>2, <2>3 DEF Lists
  <2>4. CASE q = Len(w) + 1
      BY <1>1, <2>2, <2>4
  <2> QED
      BY <1>2, <2>3, <2>4
<1>7. Lists(v, A \union {x})
    BY <1>1, <1>4, <1>5, <1>6 DEF Lists
<1> QED
    BY <1>7 DEF v

(* The loop lists the stages of S. *)
LEMMA LastFirstLists ==
    ASSUME NEW kind, NEW n \in Nat, Len(kind) = n, NEW S \in SUBSET (1..n)
    PROVE  Lists(LastFirst(kind, S), S)
<1>1. PICK f : LastFirst(kind, S) = f[n] /\ f = CHOOSE g : g = [k \in 0..n |->
            IF k = 0 THEN <<>> ELSE IF n + 1 - k \in S THEN Append(g[k - 1], n + 1 - k) ELSE g[k - 1]]
    BY ZenonT(30) DEF LastFirst
<1>2. f = CHOOSE g : g = [k \in 0..n |-> Appends(n, S, g, k)]
    BY <1>1, Zenon DEF Appends
<1>3. f = [k \in 0..n |-> Appends(n, S, f, k)]
    BY <1>2, LoopRuns, Zenon
<1> DEFINE Done(k) == {i \in S : i > n - k}
           bad == {k \in 0..n : ~Lists(f[k], Done(k))}
<1>0. \A i \in S : i \in Nat /\ 1 <= i /\ i <= n
    OBVIOUS
<1>4. ASSUME bad # {} PROVE FALSE
  <2>1. PICK k \in bad : \A y \in bad : k <= y
    <3>1. bad \in SUBSET Nat
        OBVIOUS
    <3> HIDE DEF bad
    <3> QED
        BY <1>4, <3>1, LeastOf
  <2>2. f[k] = Appends(n, S, f, k) /\ k \in 0..n
      BY <1>3, <2>1
  <2>3. CASE k = 0
    <3>0. \A i \in S : ~(i > n - k)
        BY <1>0, <2>3
    <3>1. f[k] = <<>> /\ Done(k) = {}
        BY <2>2, <2>3, <3>0 DEF Appends
    <3>2. Lists(<<>>, {})
        BY EmptySeq DEF Lists
    <3> QED
        BY <2>1, <3>1, <3>2
  <2>4. CASE k # 0
    <3>0. k - 1 \in 0..n /\ ~(k <= k - 1)
        BY <2>2, <2>4
    <3>1. k - 1 \in 0..n /\ k - 1 \notin bad
      <4> HIDE DEF bad
      <4> QED
        BY <2>1, <3>0
    <3>2. Lists(f[k - 1], Done(k - 1))
        BY <3>1
    <3> DEFINE x == n + 1 - k
    <3>3. x \in 1..n /\ \A y \in Done(k - 1) : x < y
        BY <2>2, <2>4
    <3>4. CASE x \in S
      <4>0. x > n - k /\ \A i \in S : i > n - k <=> i > n - (k - 1) \/ i = x
          BY <1>0, <2>2, <2>4
      <4>1. Done(k) = Done(k - 1) \union {x}
        <5> HIDE DEF x
        <5> QED
          BY <3>4, <4>0
      <4>2. f[k] = Append(f[k - 1], x)
          BY <2>2, <2>4, <3>4 DEF Appends
      <4>3. Lists(f[k], Done(k))
        <5> HIDE DEF Done, x
        <5> QED
          BY <3>2, <3>3, <4>1, <4>2, ListsAppend
      <4> QED
          BY <2>1, <4>3
    <3>5. CASE x \notin S
      <4>0. \A i \in S : i > n - k <=> i > n - (k - 1)
          BY <1>0, <2>2, <2>4, <3>5
      <4>1. Done(k) = Done(k - 1)
          BY <4>0
      <4>2. f[k] = f[k - 1]
          BY <2>2, <2>4, <3>5 DEF Appends
      <4> QED
          BY <2>1, <3>2, <4>1, <4>2
    <3> QED
        BY <3>4, <3>5
  <2> QED
      BY <2>3, <2>4
<1>5. Lists(f[n], Done(n)) /\ Done(n) = S
  <2>1. n \in 0..n /\ \A i \in S : i > n - n
      BY <1>0
  <2> QED
      BY <1>4, <2>1
<1> QED
    BY <1>1, <1>5

-----------------------------------------------------------------------------
(* The order of the cleanups.                                              *)

Deploys(kind) == {d \in 1..Len(kind) : kind[d] = "deploy"}

(* Without an application the rule is the reverse order. *)
LEMMA RuleWithoutDeploys ==
    ASSUME NEW kind, Deploys(kind) = {}, NEW j, NEW i
    PROVE  CleanedBefore(kind, j, i) <=> j > i
BY DEF CleanedBefore, Deploys

Layer(kind, top, s) == IF kind[s] = "network" THEN 2 ELSE IF s > top THEN 1 ELSE 3

(* With one the layers around the last application come first. *)
LEMMA RuleWithDeploys ==
    ASSUME NEW kind, Len(kind) \in Nat, NEW top \in Deploys(kind), \A e \in Deploys(kind) : e <= top, NEW j, NEW i
    PROVE  CleanedBefore(kind, j, i) <=> \/ Layer(kind, top, j) < Layer(kind, top, i)
                                         \/ Layer(kind, top, j) = Layer(kind, top, i) /\ j > i
<1>0. Deploys(kind) \subseteq Nat
    BY DEF Deploys
<1>1. top = CHOOSE d \in Deploys(kind) : \A e \in Deploys(kind) : d >= e
  <2>1. \A d \in Deploys(kind) : (\A e \in Deploys(kind) : d >= e) <=> d = top
      BY <1>0
  <2> QED
      BY <2>1
<1>2. top = CHOOSE d \in {d \in 1..Len(kind) : kind[d] = "deploy"} :
                \A e \in {x \in 1..Len(kind) : kind[x] = "deploy"} : d >= e
    BY <1>1 DEF Deploys
<1>3. {d \in 1..Len(kind) : kind[d] = "deploy"} # {}
    BY DEF Deploys
<1> HIDE DEF Deploys
<1> QED
    BY <1>2, <1>3 DEF CleanedBefore, Layer

(* The rule orders the stages strictly. *)
LEMMA RuleIsStrict ==
    ASSUME NEW kind \in Seq(Kinds), NEW j \in 1..Len(kind), NEW i \in 1..Len(kind)
    PROVE  /\ ~ (CleanedBefore(kind, j, i) /\ CleanedBefore(kind, i, j))
           /\ j # i => CleanedBefore(kind, j, i) \/ CleanedBefore(kind, i, j)
<1>1. Len(kind) \in Nat /\ j \in Nat /\ i \in Nat
    BY LenProperties
<1>2. CASE Deploys(kind) = {}
    BY <1>1, <1>2, RuleWithoutDeploys
<1>3. CASE Deploys(kind) # {}
  <2>1. PICK top \in Deploys(kind) : \A e \in Deploys(kind) : e <= top
    <3>1. Deploys(kind) \in SUBSET (1..Len(kind))
        BY DEF Deploys
    <3> QED
        BY <1>1, <1>3, <3>1, GreatestOf
  <2>2. Layer(kind, top, j) \in Nat /\ Layer(kind, top, i) \in Nat
      BY DEF Layer
  <2> QED
      BY <1>1, <2>1, <2>2, RuleWithDeploys
<1> QED
    BY <1>2, <1>3

(* The sequence c is a, of length m, followed by b, of length n. *)
Joins(c, a, m, b, n) ==
    /\ c \in Seq(Nat) /\ Len(c) = m + n /\ m \in Nat /\ n \in Nat
    /\ \A p \in 1..m : c[p] = a[p]
    /\ \A p \in 1..n : c[m + p] = b[p]

(* Where the elements of two sequences end up when they are joined, *)
LEMMA JoinedTwo ==
    ASSUME NEW a \in Seq(Nat), NEW b \in Seq(Nat), NEW c, c = a \o b, NEW m, Len(a) = m, NEW n, Len(b) = n
    PROVE  Joins(c, a, m, b, n)
<1>1. m \in Nat /\ n \in Nat
    BY LenProperties
<1>2. /\ c \in Seq(Nat) /\ Len(c) = m + n
      /\ \A p \in 1..(m + n) : c[p] = IF p <= m THEN a[p] ELSE b[p - m]
    BY ConcatProperties
<1>3. \A p \in 1..m : p \in 1..(m + n) /\ p <= m
    BY <1>1
<1>4. \A p \in 1..n : m + p \in 1..(m + n) /\ ~(m + p <= m) /\ m + p - m = p
    BY <1>1
<1>5. \A p \in 1..m : c[p] = a[p]
    BY <1>2, <1>3, Zenon
<1>6. ASSUME NEW p \in 1..n PROVE c[m + p] = b[p]
  <2>1. PICK q : q = m + p
      OBVIOUS
  <2>2. q \in 1..(m + n) /\ ~(q <= m) /\ q - m = p
      BY <1>4, <2>1
  <2>3. c[q] = b[q - m]
      BY <1>2, <2>2, Zenon
  <2> QED
      BY <2>1, <2>2, <2>3, Zenon
<1> QED
    BY <1>1, <1>2, <1>5, <1>6, Zenon DEF Joins

(* The sequence o is w, of length n, with v, of length m, inserted before at. *)
Inserts(o, w, n, v, m, at) ==
    /\ Len(o) = n + m /\ n \in Nat /\ m \in Nat /\ o \in Seq(Nat)
    /\ \A p \in 1..(at - 1) : o[p] = w[p]
    /\ \A p \in 1..m : o[at - 1 + p] = v[p]
    /\ \A p \in at..n : o[m + p] = w[p]

(* and where those of a sequence that a second one is inserted into do. *)
LEMMA Joined ==
    ASSUME NEW w \in Seq(Nat), NEW v \in Seq(Nat), NEW at \in 1..Len(w), NEW o,
           o = SubSeq(w, 1, at - 1) \o v \o SubSeq(w, at, Len(w)), NEW n, n = Len(w), NEW m, m = Len(v)
    PROVE  Inserts(o, w, n, v, m, at)
<1>1. n \in Nat /\ m \in Nat /\ at \in Nat /\ 1 <= at /\ at <= n
    BY LenProperties
<1>2. PICK a, b : a = SubSeq(w, 1, at - 1) /\ b = SubSeq(w, at, n)
    OBVIOUS
<1>3. /\ a \in Seq(Nat) /\ Len(a) = at - 1 /\ \A p \in 1..(at - 1) : a[p] = w[p]
      /\ b \in Seq(Nat) /\ Len(b) = n - at + 1 /\ \A p \in 1..Len(b) : b[p] = w[at + p - 1]
  <2>1. \A p \in 1..(at - 1) : p \in 1..n
      BY <1>1
  <2>2. \A p \in at..n : w[p] \in Nat
    <3>1. \A p \in at..n : p \in 1..Len(w)
        BY <1>1
    <3> QED
        BY <3>1, ElementOfSeq
  <2>3. /\ a \in Seq(Nat) /\ Len(a) = at - 1 /\ \A p \in 1..(at - 1) : a[p] = w[1 + p - 1]
    <3>1. /\ a \in Seq(Nat) /\ Len(a) = IF 1 <= at - 1 THEN (at - 1) - 1 + 1 ELSE 0
          /\ \A p \in 1..((at - 1) - 1 + 1) : a[p] = w[1 + p - 1]
        BY <1>1, <1>2, <2>1, SubSeqProperties
    <3>2. (at - 1) - 1 + 1 = at - 1 /\ (~(1 <= at - 1) => at - 1 = 0)
        BY <1>1
    <3> QED
        BY <3>1, <3>2
  <2>4. /\ b \in Seq(Nat) /\ Len(b) = n - at + 1 /\ \A p \in 1..(n - at + 1) : b[p] = w[at + p - 1]
    <3>1. at \in Int /\ n \in Int /\ at <= n
        BY <1>1
    <3> QED
        BY <1>2, <2>2, <3>1, SubSeqProperties
  <2>5. \A p \in 1..(at - 1) : 1 + p - 1 = p
      BY <1>1
  <2> QED
      BY <2>3, <2>4, <2>5
<1>4. PICK c : c = a \o v
    OBVIOUS
<1>5. o = c \o b
    BY <1>2, <1>4
<1>6. /\ c \in Seq(Nat) /\ Len(c) = at - 1 + m
      /\ \A p \in 1..(at - 1) : c[p] = a[p]
      /\ \A p \in 1..m : c[at - 1 + p] = v[p]
  <2>1. Joins(c, a, at - 1, v, m)
      BY <1>3, <1>4, JoinedTwo, Zenon
  <2> QED
      BY <2>1 DEF Joins
<1>7. PICK k, l : k = at - 1 + m /\ l = n - at + 1
    OBVIOUS
<1>8. /\ o \in Seq(Nat) /\ Len(o) = k + l
      /\ \A p \in 1..k : o[p] = c[p]
      /\ \A p \in 1..l : o[k + p] = b[p]
  <2>1. Joins(o, c, k, b, l)
      BY <1>3, <1>5, <1>6, <1>7, JoinedTwo, Zenon
  <2> QED
      BY <2>1 DEF Joins
<1>9. \A p \in 1..(at - 1) : p \in 1..k
    BY <1>1, <1>7
<1>10. \A p \in 1..m : at - 1 + p \in 1..k
    BY <1>1, <1>7
<1>11. \A p \in at..n : p - at + 1 \in 1..l /\ k + (p - at + 1) = m + p /\ at + (p - at + 1) - 1 = p
    BY <1>1, <1>7
<1>12. ASSUME NEW p \in at..n PROVE o[m + p] = w[p]
  <2>1. o[k + (p - at + 1)] = b[p - at + 1]
      BY <1>8, <1>11, Zenon
  <2>2. b[p - at + 1] = w[at + (p - at + 1) - 1]
      BY <1>3, <1>7, <1>11, Zenon
  <2> QED
      BY <1>11, <2>1, <2>2, Zenon
<1>13. k + l = n + m
    BY <1>1, <1>7
<1>14. \A p \in 1..(at - 1) : o[p] = w[p]
    BY <1>3, <1>6, <1>8, <1>9, Zenon
<1>15. \A p \in 1..m : o[at - 1 + p] = v[p]
    BY <1>6, <1>8, <1>10, Zenon
<1> QED
    BY <1>1, <1>8, <1>12, <1>13, <1>14, <1>15, Zenon DEF Inserts

(* The order o visits every stage and keeps to the rule. *)
FollowsRule(kind, o) ==
    /\ o \in Seq(Nat)
    /\ \A p \in 1..Len(o) : o[p] \in 1..Len(kind)
    /\ \A s \in 1..Len(kind) : \E p \in 1..Len(o) : o[p] = s
    /\ \A p, q \in 1..Len(o) : p < q => CleanedBefore(kind, o[p], o[q])

(* Without an application the stages are visited backwards. *)
LEMMA BackwardsFollowsRule ==
    ASSUME NEW kind \in Seq(Kinds), Deploys(kind) = {}
    PROVE  FollowsRule(kind, Backwards(kind))
<1>1. PICK n : n = Len(kind)
    OBVIOUS
<1>2. n \in Nat
    BY <1>1, LenProperties
<1>3. PICK o : o = [i \in 1..n |-> n + 1 - i]
    OBVIOUS
<1>4. /\ \A p \in 1..n : o[p] = n + 1 - p /\ o[p] \in 1..n
      /\ \A s \in 1..n : n + 1 - s \in 1..n /\ o[n + 1 - s] = s
    BY <1>2, <1>3
<1>5. o \in Seq(Nat) /\ Len(o) = n
    BY <1>2, <1>3, <1>4
<1>6. \A p, q \in 1..n : p < q => o[p] > o[q]
    BY <1>2, <1>4
<1>7. \A p, q \in 1..n : p < q => CleanedBefore(kind, o[p], o[q])
    BY <1>6, RuleWithoutDeploys
<1>8. FollowsRule(kind, o)
    BY <1>1, <1>4, <1>5, <1>7 DEF FollowsRule
<1> QED
    BY <1>1, <1>3, <1>8 DEF Backwards

(* With one the network stages are visited in front of the last application. *)
LEMMA InsertionFollowsRule ==
    ASSUME NEW kind \in Seq(Kinds), NEW w, NEW v,
           Lists(w, {i \in 1..Len(kind) : kind[i] # "network"}),
           Lists(v, {i \in 1..Len(kind) : kind[i] = "network"}),
           NEW at \in 1..Len(w), kind[w[at]] = "deploy",
           \A q \in 1..Len(w) : kind[w[q]] = "deploy" => at <= q
    PROVE  FollowsRule(kind, SubSeq(w, 1, at - 1) \o v \o SubSeq(w, at, Len(w)))
<1>1. PICK l, n, m, o : /\ l = Len(kind) /\ n = Len(w) /\ m = Len(v)
                        /\ o = SubSeq(w, 1, at - 1) \o v \o SubSeq(w, at, Len(w))
    OBVIOUS
<1>2. w \in Seq(Nat) /\ v \in Seq(Nat) /\ l \in Nat
    BY <1>1, LenProperties DEF Lists
<1>3. /\ Len(o) = n + m /\ n \in Nat /\ m \in Nat /\ o \in Seq(Nat)
      /\ \A p \in 1..(at - 1) : o[p] = w[p]
      /\ \A p \in 1..m : o[at - 1 + p] = v[p]
      /\ \A p \in at..n : o[m + p] = w[p]
  <2>1. Inserts(o, w, n, v, m, at)
      BY <1>1, <1>2, Joined, Zenon
  <2> QED
      BY <2>1 DEF Inserts
<1>4. at \in Nat /\ 1 <= at /\ at <= n
    BY <1>1, <1>3
<1>5. /\ \A p \in 1..n : w[p] \in 1..l /\ w[p] \in Nat /\ kind[w[p]] # "network"
      /\ \A p \in 1..m : v[p] \in 1..l /\ v[p] \in Nat /\ kind[v[p]] = "network"
      /\ \A s \in 1..l : kind[s] # "network" => \E p \in 1..n : w[p] = s
      /\ \A s \in 1..l : kind[s] = "network" => \E p \in 1..m : v[p] = s
      /\ \A p, q \in 1..n : p < q => w[p] > w[q]
      /\ \A p, q \in 1..m : p < q => v[p] > v[q]
    BY <1>1 DEF Lists
<1>6. PICK top : top = w[at]
    OBVIOUS
<1>7. top \in Deploys(kind) /\ (\A e \in Deploys(kind) : e <= top) /\ top \in Nat
  <2>1. top \in Deploys(kind) /\ top \in Nat
      BY <1>1, <1>4, <1>5, <1>6 DEF Deploys
  <2>2. ASSUME NEW e \in Deploys(kind) PROVE e <= top
    <3>1. e \in 1..l /\ kind[e] = "deploy"
        BY <1>1, <2>2 DEF Deploys
    <3>2. PICK p \in 1..n : w[p] = e
        BY <1>5, <3>1
    <3>3. at <= p
        BY <1>1, <3>1, <3>2
    <3> QED
        BY <1>4, <1>5, <1>6, <3>2, <3>3
  <2> QED
      BY <2>1, <2>2
<1>8. /\ \A p \in 1..n : p < at => Layer(kind, top, w[p]) = 1
      /\ \A p \in 1..n : at <= p => Layer(kind, top, w[p]) = 3
      /\ \A p \in 1..m : Layer(kind, top, v[p]) = 2
  <2>1. \A p \in 1..n : p < at => w[p] > top
      BY <1>4, <1>5, <1>6
  <2>2. \A p \in 1..n : at <= p => ~(w[p] > top)
      BY <1>4, <1>5, <1>6
  <2> QED
      BY <1>5, <2>1, <2>2 DEF Layer
<1>9. \A p \in 1..(n + m) : \/ p \in 1..(at - 1) /\ p \in 1..n /\ p < at
                            \/ p - (at - 1) \in 1..m /\ p = at - 1 + (p - (at - 1)) /\ at <= p
                            \/ p - m \in at..n /\ p = m + (p - m) /\ p - m \in 1..n /\ p >= at + m
    BY <1>3, <1>4
<1> DEFINE In(p, s, k) == o[p] = s /\ s \in 1..l /\ s \in Nat /\ Layer(kind, top, s) = k
<1>10. ASSUME NEW p \in 1..(n + m)
       PROVE  \/ p \in 1..n /\ p < at /\ In(p, w[p], 1)
              \/ p - (at - 1) \in 1..m /\ at <= p /\ p <= at - 1 + m /\ In(p, v[p - (at - 1)], 2)
              \/ p - m \in 1..n /\ at + m <= p /\ In(p, w[p - m], 3)
  <2>1. CASE p \in 1..(at - 1) /\ p \in 1..n /\ p < at
      BY <1>3, <1>5, <1>8, <2>1
  <2>2. CASE p - (at - 1) \in 1..m /\ p = at - 1 + (p - (at - 1)) /\ at <= p
    <3>1. PICK x : x = p - (at - 1)
        OBVIOUS
    <3>2. o[p] = v[x] /\ x \in 1..m
        BY <1>3, <2>2, <3>1, Zenon
    <3>3. p <= at - 1 + m
        BY <1>3, <1>4, <2>2
    <3> QED
        BY <1>5, <1>8, <2>2, <3>1, <3>2, <3>3, Zenon
  <2>3. CASE p - m \in at..n /\ p = m + (p - m) /\ p - m \in 1..n /\ p >= at + m
    <3>1. PICK x : x = p - m
        OBVIOUS
    <3>2. o[p] = w[x] /\ x \in 1..n
        BY <1>3, <2>3, <3>1, Zenon
    <3>3. at <= x /\ at + m <= p
        BY <1>3, <1>4, <2>3, <3>1
    <3> QED
        BY <1>5, <1>8, <2>3, <3>1, <3>2, <3>3, Zenon
  <2> QED
      BY <1>9, <2>1, <2>2, <2>3
<1>11. ASSUME NEW p \in 1..(n + m), NEW q \in 1..(n + m), p < q
       PROVE  CleanedBefore(kind, o[p], o[q])
  <2> SUFFICES \/ Layer(kind, top, o[p]) < Layer(kind, top, o[q])
               \/ Layer(kind, top, o[p]) = Layer(kind, top, o[q]) /\ o[p] > o[q]
      BY <1>1, <1>2, <1>7, RuleWithDeploys
  <2>1. CASE p \in 1..n /\ p < at /\ In(p, w[p], 1)
    <3>1. CASE q \in 1..n /\ q < at /\ In(q, w[q], 1)
        BY <1>5, <1>11, <2>1, <3>1
    <3>2. CASE q - (at - 1) \in 1..m /\ at <= q /\ q <= at - 1 + m /\ In(q, v[q - (at - 1)], 2)
        BY <2>1, <3>2
    <3>3. CASE q - m \in 1..n /\ at + m <= q /\ In(q, w[q - m], 3)
        BY <2>1, <3>3
    <3> QED
        BY <1>10, <3>1, <3>2, <3>3
  <2>2. CASE p - (at - 1) \in 1..m /\ at <= p /\ p <= at - 1 + m /\ In(p, v[p - (at - 1)], 2)
    <3>1. ~(q < at)
        BY <1>3, <1>4, <1>11, <2>2
    <3>2. CASE q - (at - 1) \in 1..m /\ at <= q /\ q <= at - 1 + m /\ In(q, v[q - (at - 1)], 2)
      <4>1. p - (at - 1) < q - (at - 1)
          BY <1>4, <1>11
      <4>2. v[p - (at - 1)] > v[q - (at - 1)]
          BY <1>5, <2>2, <3>2, <4>1, Zenon
      <4> QED
          BY <2>2, <3>2, <4>2
    <3>3. CASE q - m \in 1..n /\ at + m <= q /\ In(q, w[q - m], 3)
        BY <2>2, <3>3
    <3> QED
        BY <1>10, <3>1, <3>2, <3>3
  <2>3. CASE p - m \in 1..n /\ at + m <= p /\ In(p, w[p - m], 3)
    <3>1. ~(q < at) /\ ~(q <= at - 1 + m)
        BY <1>3, <1>4, <1>11, <2>3, SMTT(30)
    <3>2. CASE q - m \in 1..n /\ at + m <= q /\ In(q, w[q - m], 3)
      <4>1. p - m < q - m
          BY <1>3, <1>11
      <4>2. w[p - m] > w[q - m]
          BY <1>5, <2>3, <3>2, <4>1, Zenon
      <4> QED
          BY <2>3, <3>2, <4>2
    <3> QED
        BY <1>10, <3>1, <3>2
  <2> QED
      BY <1>10, <2>1, <2>2, <2>3
<1>12. ASSUME NEW s \in 1..l PROVE \E p \in 1..(n + m) : o[p] = s
  <2>1. CASE kind[s] = "network"
    <3>1. PICK p \in 1..m : v[p] = s
        BY <1>5, <2>1
    <3>2. at - 1 + p \in 1..(n + m) /\ o[at - 1 + p] = s
        BY <1>3, <1>4, <3>1
    <3> QED
        BY <3>2
  <2>2. CASE kind[s] # "network"
    <3>1. PICK p \in 1..n : w[p] = s
        BY <1>5, <2>2
    <3>2. CASE p < at
      <4>1. p \in 1..(at - 1) /\ p \in 1..(n + m)
          BY <1>3, <1>4, <3>2
      <4> QED
          BY <1>3, <3>1, <4>1
    <3>3. CASE at <= p
      <4>1. p \in at..n /\ m + p \in 1..(n + m)
          BY <1>3, <1>4, <3>3
      <4> QED
          BY <1>3, <3>1, <4>1
    <3> QED
        BY <1>4, <3>2, <3>3
  <2> QED
      BY <2>1, <2>2
<1>13. \A p \in 1..(n + m) : o[p] \in 1..l
    BY <1>10
<1>14. FollowsRule(kind, o)
    BY <1>1, <1>3, <1>11, <1>12, <1>13 DEF FollowsRule
<1> QED
    BY <1>1, <1>14

(* The order pipelineCleanupOrder computes follows its rule, *)
LEMMA OrderFollowsRule ==
    ASSUME NEW kind \in Seq(Kinds)
    PROVE  FollowsRule(kind, pipelineCleanupOrder(kind))
<1> DEFINE network == {i \in 1..Len(kind) : kind[i] = "network"}
           other == {i \in 1..Len(kind) : kind[i] # "network"}
<1>1. PICK w, v : w = LastFirst(kind, other) /\ v = LastFirst(kind, network)
    OBVIOUS
<1>2. Len(kind) \in Nat
    BY LenProperties
<1>3. Lists(w, other) /\ Lists(v, network)
    BY <1>1, <1>2, LastFirstLists
<1>4. PICK n : n = Len(w) /\ n \in Nat
    BY <1>3, LenProperties DEF Lists
<1>5. PICK deploys : deploys = {p \in 1..n : kind[w[p]] = "deploy"}
    OBVIOUS
<1>6. \A s \in Deploys(kind) : \E p \in 1..n : w[p] = s
    BY <1>3, <1>4 DEF Lists, Deploys
<1>7. CASE deploys = {}
  <2>1. pipelineCleanupOrder(kind) = Backwards(kind)
      BY <1>1, <1>4, <1>5, <1>7 DEF pipelineCleanupOrder
  <2>2. Deploys(kind) = {}
      BY <1>5, <1>6, <1>7 DEF Deploys
  <2> QED
      BY <2>1, <2>2, BackwardsFollowsRule
<1>8. CASE deploys # {}
  <2>1. PICK at : at = CHOOSE p \in deploys : \A q \in deploys : p <= q
      OBVIOUS
  <2>2. at \in deploys /\ \A q \in deploys : at <= q
    <3>1. deploys \in SUBSET Nat
        BY <1>5
    <3>2. \E p \in deploys : \A q \in deploys : p <= q
        BY <1>8, <3>1, LeastOf
    <3> QED
        BY <2>1, <3>2
  <2>3. pipelineCleanupOrder(kind) = SubSeq(w, 1, at - 1) \o v \o SubSeq(w, at, Len(w))
      BY <1>1, <1>4, <1>5, <1>8, <2>1 DEF pipelineCleanupOrder
  <2>4. at \in 1..Len(w) /\ kind[w[at]] = "deploy" /\ \A q \in 1..Len(w) : kind[w[q]] = "deploy" => at <= q
      BY <1>4, <1>5, <2>2
  <2>5. FollowsRule(kind, SubSeq(w, 1, at - 1) \o v \o SubSeq(w, at, Len(w)))
      BY <1>3, <2>4, InsertionFollowsRule
  <2> QED
      BY <2>3, <2>5
<1> QED
    BY <1>7, <1>8

(* it visits every stage exactly once, and every stage after those that    *)
(* the rule wants to be cleaned up earlier: for every pipeline.            *)
THEOREM CleanupOrderIsRight ==
    ASSUME NEW kind \in Seq(Kinds), NEW order, order = pipelineCleanupOrder(kind)
    PROVE  /\ order \in Seq(Nat) /\ Len(order) = Len(kind)
           /\ {order[p] : p \in 1..Len(order)} = 1..Len(kind)
           /\ \A p, q \in 1..Len(order) : p < q => CleanedBefore(kind, order[p], order[q])
<1>1. FollowsRule(kind, order)
    BY OrderFollowsRule
<1>2. PICK m, n : m = Len(order) /\ n = Len(kind)
    OBVIOUS
<1>3. m \in Nat /\ n \in Nat /\ order \in Seq(Nat)
    BY <1>1, <1>2, LenProperties DEF FollowsRule
<1>4. /\ \A p \in 1..m : order[p] \in 1..n
      /\ \A s \in 1..n : \E p \in 1..m : order[p] = s
      /\ \A p, q \in 1..m : p < q => CleanedBefore(kind, order[p], order[q])
    BY <1>1, <1>2 DEF FollowsRule
<1>5. \A p, q \in 1..m : p # q => order[p] # order[q]
  <2>1. \A p, q \in 1..m : p < q => order[p] # order[q]
      BY <1>2, <1>4, RuleIsStrict
  <2>2. \A p, q \in 1..m : p # q => p < q \/ q < p
      BY <1>3
  <2> QED
      BY <2>1, <2>2
<1>6. m = n
  <2>1. PICK f : f = [p \in 1..m |-> order[p]]
      OBVIOUS
  <2>2. f \in Bijection(1..m, 1..n)
      BY <1>4, <1>5, <2>1 DEF Bijection, Injection, Surjection, IsInjective
  <2>3. ExistsBijection(1..m, 1..n)
      BY <2>2 DEF ExistsBijection
  <2>4. /\ IsFiniteSet(1..m) /\ Cardinality(1..m) = m /\ IsFiniteSet(1..n) /\ Cardinality(1..n) = n
      BY <1>3, FS_Interval
  <2> QED
      BY <2>3, <2>4, FS_Bijection
<1>7. {order[p] : p \in 1..m} = 1..n
    BY <1>4
<1> QED
    BY <1>2, <1>3, <1>4, <1>6, <1>7
-----------------------------------------------------------------------------
(* The stages that start.                                                  *)

(* The stages readyPipelineStages considers, and those in front of one. *)
Considered(needs, max, rows, begun) == {i \in DOMAIN rows : Startable(needs, max, rows, begun, i)}
InFront(S, i) == {j \in S : j < i}

(* Sets of positions can be counted. *)
LEMMA PositionsCount ==
    ASSUME NEW n \in Nat, NEW S \in SUBSET (1..n), NEW T \in SUBSET S
    PROVE  IsFiniteSet(S) /\ Cardinality(S) \in Nat /\ Cardinality(T) \in Nat /\ Cardinality(T) <= Cardinality(S)
<1>1. IsFiniteSet(1..n)
    BY FS_Interval
<1>2. IsFiniteSet(S)
    BY <1>1, FS_Subset
<1> QED
    BY <1>2, FS_Subset, FS_CardinalityType

(* Each stage picked may be started and has not been. *)
LEMMA ReadyIsStartable ==
    ASSUME NEW needs, NEW max, NEW rows, NEW begun, NEW ready, ready = readyPipelineStages(needs, max, rows, begun)
    PROVE  /\ ready = {i \in Considered(needs, max, rows, begun) :
                         Cardinality(ActiveStages(rows, begun))
                           + Cardinality(InFront(Considered(needs, max, rows, begun), i)) < Limit(max)}
           /\ ready \subseteq DOMAIN rows /\ ready \intersect begun = {}
           /\ \A i \in ready : InputsComplete(needs, max, rows, i) /\ rows[i] = "pending"
BY DEF readyPipelineStages, Considered, InFront, Startable

(* What runs and what is picked fit the limit of the pipeline, whatever    *)
(* the rows say.                                                           *)
THEOREM ReadyFitsTheLimit ==
    ASSUME NEW needs, NEW max \in Nat, NEW n \in Nat, NEW rows, DOMAIN rows = 1..n, NEW begun \in SUBSET (1..n),
           NEW ready, ready = readyPipelineStages(needs, max, rows, begun)
    PROVE  ready # {} => Cardinality(ActiveStages(rows, begun)) + Cardinality(ready) <= Limit(max)
<1>1. PICK S, a, l : /\ S = Considered(needs, max, rows, begun) /\ a = Cardinality(ActiveStages(rows, begun))
                     /\ l = Limit(max)
    OBVIOUS
<1>2. ready = {i \in S : a + Cardinality(InFront(S, i)) < l} /\ S \in SUBSET (1..n)
  <2>1. ready = {i \in Considered(needs, max, rows, begun) :
                    Cardinality(ActiveStages(rows, begun))
                      + Cardinality(InFront(Considered(needs, max, rows, begun), i)) < Limit(max)}
      BY DEF readyPipelineStages, Considered, InFront, Startable
  <2>2. ready = {i \in S : a + Cardinality(InFront(S, i)) < l}
      BY <1>1, <2>1, Zenon
  <2>3. S \in SUBSET (1..n)
      BY <1>1 DEF Considered
  <2> QED BY <2>2, <2>3
<1>3. a \in Nat /\ l \in Nat
  <2>1. ActiveStages(rows, begun) \in SUBSET (1..n)
      BY DEF ActiveStages
  <2> QED
      BY <1>1, <2>1, PositionsCount DEF Limit
<1> SUFFICES ASSUME ready # {} PROVE a + Cardinality(ready) <= l
    BY <1>1
<1>4. PICK m \in ready : \A j \in ready : j <= m
    BY <1>2, GreatestOf
<1>5. PICK B : B = InFront(S, m)
    OBVIOUS
<1>6. B \in SUBSET (1..n) /\ m \notin B /\ ready \in SUBSET (B \union {m}) /\ m \in 1..n /\ a + Cardinality(B) < l
  <2>1. m \in 1..n /\ ~(m < m) /\ \A j \in ready : j \in 1..n /\ (j < m \/ j = m)
      BY <1>2, <1>4
  <2> QED
      BY <1>2, <1>4, <1>5, <2>1 DEF InFront
<1>7. /\ IsFiniteSet(B) /\ Cardinality(B) \in Nat
      /\ Cardinality(B \union {m}) = Cardinality(B) + 1
      /\ Cardinality(ready) <= Cardinality(B \union {m}) /\ Cardinality(ready) \in Nat
  <2>1. IsFiniteSet(B) /\ Cardinality(B) \in Nat
      BY <1>6, PositionsCount
  <2>2. B \union {m} \in SUBSET (1..n)
      BY <1>6
  <2>3. Cardinality(ready) <= Cardinality(B \union {m}) /\ Cardinality(ready) \in Nat
      BY <1>6, <2>2, PositionsCount
  <2> QED
      BY <1>6, <2>1, <2>3, FS_AddElement
<1> QED
    BY <1>3, <1>6, <1>7

(* A stage that could start is left out only when the limit is reached by  *)
(* what runs and by the picks in front of it.                              *)
THEOREM ReadyWastesNothing ==
    ASSUME NEW needs, NEW max \in Nat, NEW n \in Nat, NEW rows, DOMAIN rows = 1..n, NEW begun \in SUBSET (1..n),
           NEW ready, ready = readyPipelineStages(needs, max, rows, begun),
           NEW i \in (1..n) \ ready, Startable(needs, max, rows, begun, i)
    PROVE  Cardinality(ActiveStages(rows, begun)) + Cardinality({j \in ready : j < i}) >= Limit(max)
<1>1. PICK S, a, l : /\ S = Considered(needs, max, rows, begun) /\ a = Cardinality(ActiveStages(rows, begun))
                     /\ l = Limit(max)
    OBVIOUS
<1>2. ready = {k \in S : a + Cardinality(InFront(S, k)) < l} /\ S \in SUBSET (1..n) /\ i \in S
  <2>1. S \in SUBSET (1..n) /\ i \in S
      BY <1>1 DEF Considered
  <2> QED
      BY <1>1, <2>1, ReadyIsStartable
<1>3. a \in Nat /\ l \in Nat
  <2>1. ActiveStages(rows, begun) \in SUBSET (1..n)
      BY DEF ActiveStages
  <2> QED
      BY <1>1, <2>1, PositionsCount DEF Limit
<1>4. PICK m \in S \ ready : \A k \in S \ ready : m <= k
  <2>1. PICK T : T = S \ ready
      OBVIOUS
  <2>2. i \in T
      BY <1>2, <2>1
  <2>3. \A k \in S : k \in Nat
      BY <1>2
  <2>4. T \in SUBSET Nat
      BY <2>1, <2>3
  <2> QED
      BY <2>1, <2>2, <2>4, LeastOf
<1>5. m <= i /\ m \in Nat /\ i \in Nat
    BY <1>2, <1>4
<1>6. InFront(S, m) \in SUBSET InFront(ready, i)
  <2> SUFFICES ASSUME NEW k \in S, k < m PROVE k \in ready /\ k < i
      BY DEF InFront
  <2>1. k \in Nat
      BY <1>2
  <2>2. ~(m <= k) /\ k < i
      BY <1>5, <2>1
  <2> QED
      BY <1>4, <2>2
<1>7. InFront(ready, i) \in SUBSET (1..n)
    BY <1>2 DEF InFront
<1>8. /\ Cardinality(InFront(S, m)) \in Nat /\ Cardinality(InFront(ready, i)) \in Nat
      /\ Cardinality(InFront(S, m)) <= Cardinality(InFront(ready, i))
    BY <1>6, <1>7, PositionsCount
<1>9. ~(a + Cardinality(InFront(S, m)) < l)
    BY <1>2, <1>4
<1>10. a + Cardinality(InFront(ready, i)) >= l
    BY <1>3, <1>8, <1>9
<1> QED
    BY <1>1, <1>10 DEF InFront

(* A sequential pipeline that has run in order so far goes on in order:    *)
(* whatever is in front of a picked stage has succeeded.                   *)
THEOREM ReadySkipsNothing ==
    ASSUME NEW needs, NEW max \in 0..1, NEW n \in Nat, NEW rows, DOMAIN rows = 1..n, NEW begun,
           \A i \in 2..n : rows[i] # "pending" => rows[i - 1] = "succeeded",
           NEW i \in readyPipelineStages(needs, max, rows, begun), NEW j \in 1..(i - 1)
    PROVE  rows[j] = "succeeded"
<1>1. i \in 1..n /\ (i > 1 => rows[i - 1] = "succeeded")
  <2>1. i \in 1..n /\ InputsComplete(needs, max, rows, i)
      BY ReadyIsStartable
  <2>2. max <= 1
      OBVIOUS
  <2> QED
      BY <2>1, <2>2 DEF InputsComplete
<1> DEFINE bad == {k \in 1..(i - 1) : rows[k] # "succeeded"}
<1> SUFFICES ASSUME bad # {} PROVE FALSE
    OBVIOUS
<1>2. PICK k \in bad : \A y \in bad : y <= k
  <2>1. i - 1 \in Nat /\ bad \in SUBSET (1..(i - 1))
      BY <1>1
  <2> HIDE DEF bad
  <2> QED
      BY <2>1, GreatestOf
<1>3. k \in 1..(i - 1) /\ rows[k] # "succeeded" /\ k \in Nat /\ i \in Nat
    BY <1>1, <1>2
<1>4. k # i - 1
    BY <1>1, <1>3
<1>5. k + 1 \in 1..(i - 1) /\ k + 1 \in 2..n /\ ~(k + 1 <= k) /\ (k + 1) - 1 = k
    BY <1>1, <1>3, <1>4
<1>6. rows[k + 1] = "succeeded"
    BY <1>2, <1>5
<1>7. rows[(k + 1) - 1] = "succeeded"
    BY <1>5, <1>6, Zenon
<1> QED
    BY <1>3, <1>5, <1>7
=============================================================================
