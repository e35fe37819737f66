---------------------------- MODULE MCRunnerRegistry ----------------------------
(***************************************************************************)
(* Small instances of RunnerRegistry for TLC.                              *)
(***************************************************************************)
EXTENDS RunnerRegistry, TLC

CONSTANTS s1, s2, s3

Symmetric == Permutations(Servers)
================================================================================
