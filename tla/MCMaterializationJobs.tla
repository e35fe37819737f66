-------------------------- MODULE MCMaterializationJobs --------------------------
(* Instances of MaterializationJobs for TLC.                               *)
EXTENDS MaterializationJobs, TLC

CONSTANTS api, mcp, a, b

\* request sources are only compared
SourceSymmetry == Permutations(Sources)
=============================================================================
