----------------------------- MODULE MCAdmission -----------------------------
(***************************************************************************)
(* One cluster.  Ann runs an experiment of two trials in the namespace     *)
(* shop, the first of them exclusive.  Bob deploys an application in shop, *)
(* may retry and remove it, and deploys another in the namespace blog.  An *)
(* administrator recreates or deletes the cluster.                         *)
(***************************************************************************)
EXTENDS Admission, TLC

CONSTANTS x1, x2, d1, d2, v1, b1, m1, z1, k1, store, diary, ann, bob, shop, blog

MCKind == [r \in Runs |->
    CASE r \in {x1, x2} -> "experiment"
      [] r \in {d1, d2, b1} -> "deployment"
      [] r = v1 -> "removal"
      [] r = m1 -> "recreation"
      [] r = z1 -> "deletion"]
MCResource == [r \in Runs |->
    CASE r \in {d1, d2, v1} -> store
      [] r = b1 -> diary
      [] r \in {m1, z1} -> k1
      [] OTHER -> None]
MCCluster == [r \in Runs |-> IF r \in {m1, z1} THEN None ELSE k1]
MCOwner == [r \in Runs |->
    CASE r \in {x1, x2} -> ann
      [] r \in {m1, z1} -> None
      [] OTHER -> bob]
MCHome == [d \in Deployments |-> k1]
MCSpace == [d \in Deployments |-> IF d = store THEN shop ELSE blog]
MCNamespace == [r \in Runs |->
    CASE r \in {x1, x2} -> shop
      [] r \in {m1, z1} -> None
      [] OTHER -> Space[Resource[r]]]
MCExclusive == [r \in Runs |-> r \in {x1, m1, z1}]
MCExperiments == {IF x2 \in Runs THEN <<x1, x2>> ELSE <<x1>>}

(* A run that is over and has no cleanup to retry never is a candidate
   again: its place among the due runs makes no difference to any step. *)
DueMatters == SelectSeq(due, LAMBDA r : status[r] \notin Terminal \/ r \in dirty)
AdmissionView == <<status, lease, DueMatters, dirty, trial, experiment, resource,
                   configured, requested, coordinator>>

CoordinatorSymmetry == Permutations(Coordinators)
=============================================================================
