------------------------------ MODULE MCDrainGates ------------------------------
(* Instances of DrainGates for TLC. *)
EXTENDS DrainGates

OneShotFirst == {2, 3}      \* a one-shot run, then the two children of the batch
ThreeChildren == 2..4       \* a one-shot run, then three
Everyone == 1..NumRuns
================================================================================
