------------------------------ MODULE RunLifecycle ------------------------------
(***************************************************************************)
(* What the runtime promises about a run, with no hosts, leases, revisions *)
(* or races: the life of its steps.  Every rule is about the state at the  *)
(* moment of the transition, while the runtime chooses a step from one     *)
(* read of the record and acts on it several reads later.                  *)
(***************************************************************************)
EXTENDS RunRecord

CONSTANT InitialStatuses

VARIABLES run, step, escalated

life == <<run, step, escalated>>

State == [run |-> run, step |-> step, escalated |-> escalated, lease |-> NoLease]

\* the run becomes the bundle b
Become(b) == run' = b.run /\ step' = b.step /\ escalated' = b.escalated

LifeInit ==
    /\ run = "planned"
    /\ step \in [Steps -> InitialStatuses]
    /\ escalated = [s \in Steps |-> FALSE]

\* a step is started, and its outcome recorded, only in its turn
Turn(s) == HasTurn(State, s)

Start(s)   == CanStart(State, s) /\ Turn(s) /\ Become(StartStep(State, s))
Succeed(s) == CanSucceed(State, s) /\ Turn(s) /\ Become(SucceedStep(State, s))
Fail(s)    == CanFail(State, s) /\ Turn(s) /\ Become(FailStep(State, s))
Pause(s)   == CanSucceed(State, s) /\ Turn(s) /\ Become(PauseStep(State, s))
Resume(s)  == ResumeTarget(State, s) /\ Become(ResumeRun(State, s))
Cancel     == CanCancel(State) /\ Become(CancelRun(State))
Recover    == Running(State) # {} /\ Become(RecoverRun(State))

LifeNext ==
    \/ \E s \in Steps : Start(s) \/ Succeed(s) \/ Fail(s) \/ Pause(s) \/ Resume(s)
    \/ Cancel
    \/ Recover

LifeSpec == LifeInit /\ [][LifeNext]_life
================================================================================
