------------------------------- MODULE RunRecord -------------------------------
(***************************************************************************)
(* The stored execution run (a "bundle") and the pure functions of         *)
(* src/runtime that read it and derive the next one: the dispatch plan     *)
(* (dispatcher.ts), the step and run transitions (runner.ts), the lease    *)
(* transitions (lease.ts) and the claim projection (projection.ts).        *)
(*                                                                         *)
(* A bundle keeps what these functions branch on.  Prompts, outputs,       *)
(* shared state, events and handoffs are left out, except one bit of a     *)
(* step's output: "escalated" says that it is the human-escalation output  *)
(* which makes a cancelled step resumable.  Of the lease list only the     *)
(* active entry is kept: acquireExecutionRunLease refuses a second active  *)
(* entry and nothing ever reactivates a released or expired one.           *)
(***************************************************************************)
EXTENDS Integers

CONSTANTS
    NumSteps,    \* the number of steps of the run
    DependsOn,   \* DependsOn[s]: the orders of the steps that s depends on
    NoLease      \* "the run has no active lease"

(***************************************************************************)
(* A step is named by its order.  A dependency may be missing from the     *)
(* run, in which case it is never satisfied.                               *)
(***************************************************************************)
Steps == 1..NumSteps

ASSUME RunAssumption ==
    /\ NumSteps \in Nat \ {0}
    /\ DependsOn \in [Steps -> SUBSET Nat]

RunStatuses == {"planned", "running", "succeeded", "failed", "cancelled"}
StepStatuses == {"planned", "runnable", "running", "succeeded", "failed",
                 "blocked", "cancelled"}

\* canDispatchStep
Dispatchable == {"planned", "runnable"}
\* the statuses a step can fail from
Failable == {"planned", "runnable", "running"}
\* mutableStatuses of cancelExecutionRun
Mutable == {"planned", "runnable", "running", "blocked"}
\* isTerminalExecutionRunStatus
TerminalRun == {"succeeded", "failed", "cancelled"}

--------------------------------------------------------------------------------
(***************************************************************************)
(* The dispatch plan.  failPolicy has the single value 'fail-fast'.        *)
(***************************************************************************)
Running(b) == {s \in Steps : b.step[s] = "running"}

HasTerminalFailure(b) == \E s \in Steps : b.step[s] \in {"failed", "cancelled"}

DependenciesSatisfied(b, s) ==
    \A d \in DependsOn[s] : d \in Steps /\ b.step[d] = "succeeded"

Eligible(b) ==
    {s \in Steps : /\ b.step[s] \in Dispatchable
                   /\ ~HasTerminalFailure(b)
                   /\ DependenciesSatisfied(b, s)}

\* mutant of NextRunnable: the plan forgets that a step is running
NextRunnableBeside(b, s) == s \in Eligible(b) /\ \A t \in Eligible(b) : s <= t

\* s is the plan's nextRunnableStepId
NextRunnable(b, s) ==
    /\ Running(b) = {}
    /\ s \in Eligible(b)
    /\ \A t \in Eligible(b) : s <= t

(***************************************************************************)
(* s has its turn: its dependencies have succeeded, no other step is       *)
(* running, has failed or waits for a human, and no earlier step could be  *)
(* dispatched instead.  No code computes this; NextRunnable implies it     *)
(* when s is chosen.                                                       *)
(***************************************************************************)
HasTurn(b, s) ==
    /\ DependenciesSatisfied(b, s)
    /\ \A t \in Steps \ {s} :
         /\ b.step[t] \notin {"running", "failed"}
         /\ ~b.escalated[t]
         /\ b.step[t] \in Dispatchable /\ DependenciesSatisfied(b, t) => s < t

HasNextRunnable(b) == \E s \in Steps : NextRunnable(b, s)

\* mutant of Claimable: a running step without a lease is not recovered
ClaimableRunnable(b) == b.lease = NoLease /\ HasNextRunnable(b)

\* classifyExecutionRunQueueState is 'runnable' or 'recoverable-stranded'
Claimable(b) == b.lease = NoLease /\ (HasNextRunnable(b) \/ Running(b) # {})

--------------------------------------------------------------------------------
(***************************************************************************)
(* Step and run transitions.  A "Can" operator is the negation of the      *)
(* exception the function throws.                                          *)
(***************************************************************************)
\* mutant of CanStart: any step that is not running can be started
CanStartAgain(b, s) == b.step[s] # "running"

CanStart(b, s) == b.step[s] \in Dispatchable
StartStep(b, s) == [b EXCEPT !.step[s] = "running", !.run = "running"]

\* mutant of SucceedStep: the run succeeds with its last running step
SucceedRunEarly(b, s) == [b EXCEPT !.step[s] = "succeeded", !.run = "succeeded"]

CanSucceed(b, s) == b.step[s] = "running"
SucceedStep(b, s) ==
    LET step == [b.step EXCEPT ![s] = "succeeded"]
        run  == IF \A t \in Steps : step[t] = "succeeded" THEN "succeeded"
                                                          ELSE "running"
    IN  [b EXCEPT !.step = step, !.run = run]

\* mutant of CanFail: a late error fails a step that has succeeded
CanFailLate(b, s) == b.step[s] \notin {"failed", "cancelled"}

CanFail(b, s) == b.step[s] \in Failable
FailStep(b, s) == [b EXCEPT !.step[s] = "failed", !.run = "failed"]

PauseStep(b, s) ==
    [b EXCEPT !.step[s] = "cancelled", !.escalated[s] = TRUE, !.run = "cancelled"]

CanCancel(b) == \E s \in Steps : b.step[s] \in Mutable
CancelRun(b) ==
    [b EXCEPT !.step = [s \in Steps |->
                          IF b.step[s] \in Mutable THEN "cancelled" ELSE b.step[s]],
              !.run = "cancelled"]

\* s is the first cancelled step with a human-escalation output
ResumeTarget(b, s) ==
    /\ b.step[s] = "cancelled" /\ b.escalated[s]
    /\ \A t \in Steps : b.step[t] = "cancelled" /\ b.escalated[t] => s <= t

\* mutant of ResumeRun: the resumed step keeps its human-escalation output
ResumeKeepsOutput(b, s) == [b EXCEPT !.step[s] = "runnable", !.run = "running"]

ResumeRun(b, s) ==
    [b EXCEPT !.step[s] = "runnable", !.escalated[s] = FALSE, !.run = "running"]

\* mutant of RecoverRun: recovery starts the whole run anew
RecoverAnew(b) == [b EXCEPT !.step = [s \in Steps |-> "runnable"], !.run = "running"]

RecoverRun(b) ==
    [b EXCEPT !.step = [s \in Steps |->
                          IF b.step[s] = "running" THEN "runnable" ELSE b.step[s]],
              !.run = "running"]

--------------------------------------------------------------------------------
(***************************************************************************)
(* Lease transitions.                                                      *)
(***************************************************************************)
AcquireLease(b, id, owner, expiresAt) ==
    [b EXCEPT !.lease = [id |-> id, owner |-> owner, expiresAt |-> expiresAt]]

HeartbeatLease(b, expiresAt) == [b EXCEPT !.lease.expiresAt = expiresAt]

ReleaseLease(b) == [b EXCEPT !.lease = NoLease]

\* mutant of Lapsed: the expiry time is ignored
LapsedAnyTime(b, now) == b.lease # NoLease

Lapsed(b, now) == b.lease # NoLease /\ b.lease.expiresAt <= now

ExpireLeases(b, now) == IF Lapsed(b, now) THEN [b EXCEPT !.lease = NoLease] ELSE b

HoldsLease(b, id) == b.lease # NoLease /\ b.lease.id = id
================================================================================
