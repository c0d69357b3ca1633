---------------------------- MODULE MCOperations ----------------------------
(* Instances of Operations for TLC.                                        *)
EXTENDS Operations, TLC

CONSTANTS provision, teardown, discover, s1, s2

MCValidation == [o \in Ops |-> IF o = teardown THEN "warnings" ELSE "valid"]
Symmetry == Permutations(Slots)
=============================================================================
