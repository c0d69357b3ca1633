--------------------------- MODULE MCPipelineRuns ---------------------------
(* Instances of PipelineRuns: pipelines of two and three stages.           *)
EXTENDS PipelineRuns, TLC

Symmetry == Permutations(Coordinators)

(* Two branches: 1 -> 2 and 3.                                             *)
BranchKind == <<"deploy", "network", "other">>
BranchNeeds == <<{}, {1}, {}>>

(* A chain with an application and shaping below its load.                 *)
ChainKind == <<"network", "deploy">>
ChainNeeds == <<{}, {1}>>
=============================================================================
