----------------------------- MODULE ExecutionRunInv -----------------------------
(***************************************************************************)
(* The inductive invariant behind the safety of ExecutionRun when a write  *)
(* is an atomic compare-and-swap (CommitWindow = FALSE).                   *)
(*                                                                         *)
(* An executor chooses a step from one read and starts, completes or fails *)
(* it from later ones that never look at the other steps.  This is safe    *)
(* because of ChoiceStands: as long as a chosen step could still run, the  *)
(* choice is still right, since whatever would make it wrong (another step *)
(* starting, failing or pausing) could only be done to a step whose turn   *)
(* it was, and two steps never have their turn at once.                    *)
(***************************************************************************)
EXTENDS ExecutionRun

\* a record with the revision of the file is the file
Faithful(record) ==
    /\ record.revision <= file.revision
    /\ record.revision = file.revision => record = file

\* what each read has established about the record an actor works from
SeenGuard(a) ==
    LET b == seen[a].bundle IN
    /\ pc[a] \in {"recover", "recoverRetry"} => Running(b) # {}
    /\ pc[a] \in {"limit", "fail"} => CanFail(b, step[a])
    /\ pc[a] \in {"pause", "escalate"} => CanSucceed(b, step[a])
    /\ pc[a] = "acquireWrite" => mine[a] # NoLease
    /\ pc[a] = "adoptWrite" => b.lease # NoLease
    /\ pc[a] \in {"cancel", "cancelOwned"} => CanCancel(b)
    /\ pc[a] = "claim" => mine[a] # NoLease

PcsAndGuards ==
    /\ \A e \in Executors : pc[e] \in ExecutorPcs
    /\ \A o \in Operators : pc[o] \in OperatorPcs
    /\ \A e \in Executors : pc[e] \in Engaged => step[e] \in Steps
    /\ \A a \in Actors : SeenGuard(a)
    /\ \A e \in Executors : beat[e] # "none" => beatSeen[e].bundle.lease # NoLease

WritesAreChecked ==
    /\ file.revision > 0
    /\ \A a \in Actors : Faithful(seen[a]) /\ ~checked[a]
    /\ \A e \in Executors : Faithful(beatSeen[e]) /\ beat[e] # "checked"

\* the step could run, now or after a resume
CouldRun(b, s) == b.step[s] \in Failable \/ b.escalated[s]

ChoiceStands ==
    \A e \in Executors :
        pc[e] \in Engaged /\ CouldRun(Bundle, step[e]) => HasTurn(Bundle, step[e])

\* a step that runs or waits for a human excludes a failed one
NoFailureBeside ==
    \A s, t \in Steps : Bundle.step[s] = "running" \/ Bundle.escalated[s]
                          => Bundle.step[t] # "failed"

BundleSound == OneStepAtATime /\ RunStatusHonest /\ OnlyPausedStepsResume /\ NoFailureBeside

Typed == TypeOK /\ PcsAndGuards

IInv == Typed /\ WritesAreChecked /\ ChoiceStands /\ BundleSound
================================================================================
