----------------------------- MODULE MCExecutionRun -----------------------------
(***************************************************************************)
(* Small instances of ExecutionRun for TLC.                                *)
(***************************************************************************)
EXTENDS ExecutionRunInv, TLC

CONSTANTS h1, h2, e1, e2, o1

\* two hosts with one drain each; the operator talks to the first
TwoHosts == (e1 :> h1) @@ (e2 :> h2) @@ (o1 :> h1)

\* one host, one drain
OneExecutor == (e1 :> h1) @@ (o1 :> h1)

\* a direct run: one step
Single == 1 :> {}

\* step 2 needs step 1
Chain == (1 :> {}) @@ (2 :> {1})

\* two independent steps
Parallel == (1 :> {}) @@ (2 :> {})
================================================================================
