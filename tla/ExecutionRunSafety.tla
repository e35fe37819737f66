--------------------------- MODULE ExecutionRunSafety ---------------------------
(***************************************************************************)
(* Safety of ExecutionRun when writeRecord is an atomic compare-and-swap,  *)
(* for any number of steps, hosts, executors and operators, any dependency *)
(* relation and any number of crashes, lapsed leases and controls.         *)
(*                                                                         *)
(* The argument has three layers.  First, pure facts about bundles: each   *)
(* transition of runner.ts keeps a sound bundle sound and every standing   *)
(* choice standing, provided the step it is applied to has its turn.       *)
(* Second, every step of the system either leaves the stored steps alone   *)
(* or applies one such transition to the current file: the revision check  *)
(* makes "what I read" and "what is stored" the same bundle.  Third, the   *)
(* two are put together into the invariant IInv and its consequences.      *)
(***************************************************************************)
EXTENDS ExecutionRunProofs

--------------------------------------------------------------------------------
(***************************************************************************)
(* Pure facts about bundles.                                               *)
(***************************************************************************)

\* BundleSound, of any bundle
Sound(b) ==
    LET some(status) == \E s \in Steps : b.step[s] = status IN
    /\ \A s, t \in Steps : b.step[s] = "running" /\ b.step[t] = "running" => s = t
    /\ b.run = "succeeded" <=> \A s \in Steps : b.step[s] = "succeeded"
    /\ b.run = "failed" => some("failed")
    /\ some("failed") => b.run \in {"failed", "cancelled"}
    /\ some("running") => b.run = "running"
    /\ b.run = "cancelled" => some("cancelled")
    /\ \A s \in Steps : b.escalated[s] => b.step[s] = "cancelled"
    /\ \A s, t \in Steps : b.step[s] = "running" \/ b.escalated[s] => b.step[t] # "failed"

\* ChoiceStands, of any bundle and step
Stands(b, s) == CouldRun(b, s) => HasTurn(b, s)

LEMMA SoundIsBundleSound == BundleSound <=> Sound(Bundle)
BY DEF BundleSound, Sound, OneStepAtATime, RunStatusHonest, OnlyPausedStepsResume,
       NoFailureBeside

\* Dependencies look at which steps have succeeded and at nothing else.
LEMMA SameDependencies ==
    ASSUME NEW b, NEW c, NEW s \in Steps,
           \A d \in Steps : b.step[d] = "succeeded" <=> c.step[d] = "succeeded"
    PROVE  DependenciesSatisfied(b, s) <=> DependenciesSatisfied(c, s)
BY DEF DependenciesSatisfied

\* Two steps that could run never both have their turn.
LEMMA OneTurn ==
    ASSUME NEW b \in Bundles, Sound(b), NEW s \in Steps, NEW t \in Steps, s # t,
           CouldRun(b, s), HasTurn(b, s), CouldRun(b, t), HasTurn(b, t)
    PROVE  FALSE
<1>1. b.step[s] # "running" /\ b.step[t] # "running" BY DEF HasTurn
<1>2. ~b.escalated[s] /\ ~b.escalated[t] BY DEF HasTurn
<1>3. b.step[s] \in Dispatchable /\ b.step[t] \in Dispatchable
  BY <1>1, <1>2 DEF CouldRun, Failable, Dispatchable
<1>4. s < t /\ t < s BY <1>3 DEF HasTurn
<1> QED BY <1>4, RunAssumption DEF Steps

\* The dispatch plan's next step has its turn.
LEMMA NextHasTurn ==
    ASSUME NEW b \in Bundles, Sound(b), NEW s \in Steps, NextRunnable(b, s)
    PROVE  HasTurn(b, s)
<1>1. DependenciesSatisfied(b, s) BY DEF NextRunnable, Eligible
<1>2. ~HasTerminalFailure(b) /\ Running(b) = {} BY DEF NextRunnable, Eligible
<1>3. ASSUME NEW t \in Steps \ {s}
      PROVE  /\ b.step[t] \notin {"running", "failed"}
             /\ ~b.escalated[t]
             /\ b.step[t] \in Dispatchable /\ DependenciesSatisfied(b, t) => s < t
  <2>1. b.step[t] \notin {"running", "failed", "cancelled"}
    BY <1>2 DEF HasTerminalFailure, Running
  <2>2. ~b.escalated[t] BY <2>1 DEF Sound
  <2>3. ASSUME b.step[t] \in Dispatchable, DependenciesSatisfied(b, t) PROVE s < t
    <3>1. t \in Eligible(b) BY <1>2, <2>3 DEF Eligible
    <3>2. s <= t BY <3>1 DEF NextRunnable
    <3> QED BY <3>2, RunAssumption DEF Steps
  <2> QED BY <2>1, <2>2, <2>3
<1> QED BY <1>1, <1>3 DEF HasTurn

\* startExecutionRunStep on the step whose turn it is.
LEMMA StartIsSafe ==
    ASSUME NEW b \in Bundles, Sound(b), NEW s \in Steps, CanStart(b, s), HasTurn(b, s)
    PROVE  /\ Sound(StartStep(b, s))
           /\ \A t \in Steps : Stands(b, t) => Stands(StartStep(b, s), t)
<1> DEFINE c == StartStep(b, s)
<1>1. /\ c.step = [b.step EXCEPT ![s] = "running"] /\ c.run = "running"
      /\ c.escalated = b.escalated
  BY DEF StartStep, Bundles
<1>2. b.step \in [Steps -> StepStatuses] BY DEF Bundles
<1>3. b.step[s] \in {"planned", "runnable"} BY DEF CanStart, Dispatchable
<1>4. /\ c.step[s] = "running"
      /\ \A t \in Steps \ {s} : c.step[t] = b.step[t] /\ b.step[t] \notin {"running", "failed"}
                                /\ ~b.escalated[t]
  BY <1>1, <1>2 DEF HasTurn
<1>5. ~b.escalated[s] BY <1>3 DEF Sound
<1> HIDE DEF c
<1>6. Sound(c) BY <1>1, <1>3, <1>4, <1>5 DEF Sound
<1>7. ASSUME NEW t \in Steps, Stands(b, t) PROVE Stands(c, t)
  <2>1. \A d \in Steps : b.step[d] = "succeeded" <=> c.step[d] = "succeeded"
    BY <1>3, <1>4
  <2>2. CASE t = s
    <3>1. DependenciesSatisfied(c, s) BY <2>1, SameDependencies DEF HasTurn
    <3>2. \A k \in Steps : DependenciesSatisfied(b, k) <=> DependenciesSatisfied(c, k)
      BY <2>1, SameDependencies
    <3>3. HasTurn(c, s) BY <1>1, <1>4, <3>1, <3>2 DEF HasTurn
    <3> QED BY <2>2, <3>3 DEF Stands
  <2>3. CASE t # s
    <3>1. CouldRun(c, t) => CouldRun(b, t) BY <1>1, <1>4, <2>3 DEF CouldRun
    <3>2. CouldRun(b, s) BY <1>3 DEF CouldRun, Failable
    <3>3. ~CouldRun(b, t) BY <1>7, <2>3, <3>2, OneTurn DEF Stands
    <3> QED BY <3>1, <3>3 DEF Stands
  <2> QED BY <2>2, <2>3
<1> QED BY <1>6, <1>7 DEF c

(***************************************************************************)
(* A transition that takes s out of the steps that could run leaves every  *)
(* choice standing: no other step could run beside s.                      *)
(***************************************************************************)
LEMMA LeavingIsSafe ==
    ASSUME NEW b \in Bundles, Sound(b), NEW s \in Steps, CouldRun(b, s), HasTurn(b, s),
           NEW c, ~CouldRun(c, s),
           \A t \in Steps \ {s} : c.step[t] = b.step[t] /\ c.escalated[t] = b.escalated[t]
    PROVE  \A t \in Steps : Stands(b, t) => Stands(c, t)
<1> SUFFICES ASSUME NEW t \in Steps, Stands(b, t) PROVE Stands(c, t)
  OBVIOUS
<1>1. CASE t = s BY <1>1 DEF Stands
<1>2. CASE t # s
  <2>1. CouldRun(c, t) => CouldRun(b, t) BY <1>2 DEF CouldRun
  <2>2. ~CouldRun(b, t) BY <1>2, OneTurn DEF Stands
  <2> QED BY <2>1, <2>2 DEF Stands
<1> QED BY <1>1, <1>2

\* succeedExecutionRunStep on the running step whose turn it is.
LEMMA SucceedIsSafe ==
    ASSUME NEW b \in Bundles, Sound(b), NEW s \in Steps, CanSucceed(b, s), HasTurn(b, s)
    PROVE  /\ Sound(SucceedStep(b, s))
           /\ \A t \in Steps : Stands(b, t) => Stands(SucceedStep(b, s), t)
<1> DEFINE c == SucceedStep(b, s)
<1>1. /\ c.step = [b.step EXCEPT ![s] = "succeeded"] /\ c.escalated = b.escalated
      /\ c.run = IF \A t \in Steps : c.step[t] = "succeeded" THEN "succeeded" ELSE "running"
  BY DEF SucceedStep, Bundles
<1>2. b.step \in [Steps -> StepStatuses] BY DEF Bundles
<1>3. b.step[s] = "running" /\ ~b.escalated[s] BY DEF CanSucceed, Sound
<1>4. /\ c.step[s] = "succeeded"
      /\ \A t \in Steps \ {s} : c.step[t] = b.step[t] /\ b.step[t] \notin {"running", "failed"}
                                /\ ~b.escalated[t]
  BY <1>1, <1>2 DEF HasTurn
<1> HIDE DEF c
<1>5. Sound(c) BY <1>1, <1>3, <1>4 DEF Sound
<1>6. ~CouldRun(c, s) BY <1>1, <1>3, <1>4 DEF CouldRun, Failable
<1>7. CouldRun(b, s) BY <1>3 DEF CouldRun, Failable
<1>8. \A t \in Steps \ {s} : c.step[t] = b.step[t] /\ c.escalated[t] = b.escalated[t]
  BY <1>1, <1>4
<1>9. \A t \in Steps : Stands(b, t) => Stands(c, t)
  BY <1>6, <1>7, <1>8, LeavingIsSafe
<1> QED BY <1>5, <1>9 DEF c

\* failExecutionRunStep on the step whose turn it is.
LEMMA FailIsSafe ==
    ASSUME NEW b \in Bundles, Sound(b), NEW s \in Steps, CanFail(b, s), HasTurn(b, s)
    PROVE  /\ Sound(FailStep(b, s))
           /\ \A t \in Steps : Stands(b, t) => Stands(FailStep(b, s), t)
<1> DEFINE c == FailStep(b, s)
<1>1. /\ c.step = [b.step EXCEPT ![s] = "failed"] /\ c.escalated = b.escalated
      /\ c.run = "failed"
  BY DEF FailStep, Bundles
<1>2. b.step \in [Steps -> StepStatuses] BY DEF Bundles
<1>3. b.step[s] \in {"planned", "runnable", "running"} /\ ~b.escalated[s]
  BY DEF CanFail, Failable, Sound
<1>4. /\ c.step[s] = "failed"
      /\ \A t \in Steps \ {s} : c.step[t] = b.step[t] /\ b.step[t] \notin {"running", "failed"}
                                /\ ~b.escalated[t]
  BY <1>1, <1>2 DEF HasTurn
<1> HIDE DEF c
<1>5. Sound(c) BY <1>1, <1>3, <1>4 DEF Sound
<1>6. ~CouldRun(c, s) BY <1>1, <1>3, <1>4 DEF CouldRun, Failable
<1>7. CouldRun(b, s) BY <1>3 DEF CouldRun, Failable
<1>8. \A t \in Steps : Stands(b, t) => Stands(c, t)
  BY <1>1, <1>4, <1>6, <1>7, LeavingIsSafe
<1> QED BY <1>5, <1>8 DEF c

\* pauseExecutionRunForHuman on the running step whose turn it is: the step could
\* run again after a resume, and still has its turn.
LEMMA PauseIsSafe ==
    ASSUME NEW b \in Bundles, Sound(b), NEW s \in Steps, CanSucceed(b, s), HasTurn(b, s)
    PROVE  /\ Sound(PauseStep(b, s))
           /\ \A t \in Steps : Stands(b, t) => Stands(PauseStep(b, s), t)
<1> DEFINE c == PauseStep(b, s)
<1>1. /\ c.step = [b.step EXCEPT ![s] = "cancelled"] /\ c.run = "cancelled"
      /\ c.escalated = [b.escalated EXCEPT ![s] = TRUE]
  BY DEF PauseStep, Bundles
<1>2. b.step \in [Steps -> StepStatuses] /\ b.escalated \in [Steps -> BOOLEAN]
  BY DEF Bundles
<1>3. b.step[s] = "running" BY DEF CanSucceed
<1>4. /\ c.step[s] = "cancelled" /\ c.escalated[s] = TRUE
      /\ \A t \in Steps \ {s} : /\ c.step[t] = b.step[t]
                                /\ b.step[t] \notin {"running", "failed"}
                                /\ c.escalated[t] = b.escalated[t] /\ ~b.escalated[t]
  BY <1>1, <1>2 DEF HasTurn
<1> HIDE DEF c
<1>5. Sound(c) BY <1>1, <1>3, <1>4 DEF Sound
<1>6. ASSUME NEW t \in Steps, Stands(b, t) PROVE Stands(c, t)
  <2>1. CASE t = s
    <3>1. \A d \in Steps : b.step[d] = "succeeded" <=> c.step[d] = "succeeded"
      BY <1>3, <1>4
    <3>2. \A k \in Steps : DependenciesSatisfied(b, k) <=> DependenciesSatisfied(c, k)
      BY <3>1, SameDependencies
    <3>3. HasTurn(c, s) BY <1>4, <3>2 DEF HasTurn
    <3> QED BY <2>1, <3>3 DEF Stands
  <2>2. CASE t # s
    <3>1. CouldRun(c, t) => CouldRun(b, t) BY <1>4, <2>2 DEF CouldRun
    <3>2. CouldRun(b, s) BY <1>3 DEF CouldRun, Failable
    <3>3. ~CouldRun(b, t) BY <1>6, <2>2, <3>2, OneTurn DEF Stands
    <3> QED BY <3>1, <3>3 DEF Stands
  <2> QED BY <2>1, <2>2
<1> QED BY <1>5, <1>6 DEF c

\* cancelExecutionRun, whatever is under way.
LEMMA CancelIsSafe ==
    ASSUME NEW b \in Bundles, Sound(b), CanCancel(b)
    PROVE  /\ Sound(CancelRun(b))
           /\ \A t \in Steps : Stands(b, t) => Stands(CancelRun(b), t)
<1> DEFINE c == CancelRun(b)
<1>1. /\ c.escalated = b.escalated /\ c.run = "cancelled"
      /\ \A t \in Steps : c.step[t] = IF b.step[t] \in Mutable THEN "cancelled" ELSE b.step[t]
  BY DEF CancelRun, Bundles
<1> HIDE DEF c
<1>2. \E t \in Steps : c.step[t] = "cancelled" BY <1>1 DEF CanCancel
<1>3. \A t \in Steps : c.step[t] \notin Failable
  BY <1>1 DEF Mutable, Failable
<1>4. \A t \in Steps : /\ c.step[t] = "failed" => b.step[t] = "failed"
                       /\ c.step[t] # "running"
                       /\ c.step[t] = "succeeded" <=> b.step[t] = "succeeded"
                       /\ b.step[t] = "cancelled" => c.step[t] = "cancelled"
  BY <1>1 DEF Mutable
<1>5. Sound(c) BY <1>1, <1>2, <1>4 DEF Sound
<1>6. ASSUME NEW t \in Steps, Stands(b, t), CouldRun(c, t) PROVE HasTurn(c, t)
  <2>1. b.escalated[t] BY <1>1, <1>3, <1>6 DEF CouldRun
  <2>2. HasTurn(b, t) BY <1>6, <2>1 DEF Stands, CouldRun
  <2>3. DependenciesSatisfied(c, t) BY <1>4, <2>2, SameDependencies DEF HasTurn
  <2>4. \A k \in Steps : c.step[k] \notin Dispatchable BY <1>3 DEF Failable, Dispatchable
  <2> QED BY <1>1, <1>4, <2>2, <2>3, <2>4 DEF HasTurn
<1> QED BY <1>5, <1>6 DEF c, Stands

\* resumeExecutionRunAfterHumanEscalation on a paused step.
LEMMA ResumeIsSafe ==
    ASSUME NEW b \in Bundles, Sound(b), NEW s \in Steps, ResumeTarget(b, s)
    PROVE  /\ Sound(ResumeRun(b, s))
           /\ \A t \in Steps : Stands(b, t) => Stands(ResumeRun(b, s), t)
<1> DEFINE c == ResumeRun(b, s)
<1>1. /\ c.step = [b.step EXCEPT ![s] = "runnable"] /\ c.run = "running"
      /\ c.escalated = [b.escalated EXCEPT ![s] = FALSE]
  BY DEF ResumeRun, Bundles
<1>2. b.step \in [Steps -> StepStatuses] /\ b.escalated \in [Steps -> BOOLEAN]
  BY DEF Bundles
<1>3. b.step[s] = "cancelled" /\ b.escalated[s] BY DEF ResumeTarget
<1>4. /\ c.step[s] = "runnable" /\ c.escalated[s] = FALSE
      /\ \A t \in Steps \ {s} : c.step[t] = b.step[t] /\ c.escalated[t] = b.escalated[t]
  BY <1>1, <1>2
<1> HIDE DEF c
<1>5. Sound(c) BY <1>1, <1>3, <1>4 DEF Sound
<1>6. ASSUME NEW t \in Steps, Stands(b, t), CouldRun(c, t) PROVE HasTurn(c, t)
  <2>1. CouldRun(b, t) BY <1>3, <1>4, <1>6 DEF CouldRun
  <2>2. HasTurn(b, t) BY <1>6, <2>1 DEF Stands
  <2>3. t = s BY <1>3, <2>2 DEF HasTurn
  <2>4. \A k \in Steps : DependenciesSatisfied(b, k) <=> DependenciesSatisfied(c, k)
    <3>1. \A d \in Steps : b.step[d] = "succeeded" <=> c.step[d] = "succeeded"
      BY <1>3, <1>4
    <3> QED BY <3>1, SameDependencies
  <2> QED BY <1>4, <2>2, <2>3, <2>4 DEF HasTurn
<1> QED BY <1>5, <1>6 DEF c, Stands

\* recoverStrandedRunningExecutionRun, even while the step is still executing.
LEMMA RecoverIsSafe ==
    ASSUME NEW b \in Bundles, Sound(b), Running(b) # {}
    PROVE  /\ Sound(RecoverRun(b))
           /\ \A t \in Steps : Stands(b, t) => Stands(RecoverRun(b), t)
<1> DEFINE c == RecoverRun(b)
<1>1. /\ c.escalated = b.escalated /\ c.run = "running"
      /\ \A t \in Steps : c.step[t] = IF b.step[t] = "running" THEN "runnable" ELSE b.step[t]
  BY DEF RecoverRun, Bundles
<1>2. PICK s \in Steps : b.step[s] = "running" BY DEF Running
<1> HIDE DEF c
<1>3. c.step[s] = "runnable" BY <1>1, <1>2
<1>4. \A t \in Steps : c.step[t] # "failed"
  BY <1>1, <1>2 DEF Sound
<1>5. \A t \in Steps : b.escalated[t] => c.step[t] = "cancelled"
  BY <1>1 DEF Sound
<1>6. Sound(c) BY <1>1, <1>3, <1>4, <1>5 DEF Sound
<1>7. ASSUME NEW t \in Steps, Stands(b, t), CouldRun(c, t) PROVE HasTurn(c, t)
  <2>1. CouldRun(b, t) BY <1>1, <1>7 DEF CouldRun, Failable
  <2>2. HasTurn(b, t) BY <1>7, <2>1 DEF Stands
  <2>3. \A k \in Steps \ {t} : c.step[k] = b.step[k] BY <1>1, <2>2 DEF HasTurn
  <2>4. \A k \in Steps : DependenciesSatisfied(b, k) <=> DependenciesSatisfied(c, k)
    <3>1. \A d \in Steps : b.step[d] = "succeeded" <=> c.step[d] = "succeeded"
      BY <1>1
    <3> QED BY <3>1, SameDependencies
  <2> QED BY <1>1, <2>2, <2>3, <2>4 DEF HasTurn
<1> QED BY <1>6, <1>7 DEF c, Stands

--------------------------------------------------------------------------------
(***************************************************************************)
(* What a step of the system does to the stored steps.                     *)
(***************************************************************************)

\* An executor records the start or an outcome of the step it has chosen ...
WorkOn(s) ==
    \/ CanStart(Bundle, s) /\ Bundle' = StartStep(Bundle, s)
    \/ CanSucceed(Bundle, s) /\ Bundle' = SucceedStep(Bundle, s)
    \/ CanFail(Bundle, s) /\ Bundle' = FailStep(Bundle, s)
    \/ CanSucceed(Bundle, s) /\ Bundle' = PauseStep(Bundle, s)

\* ... or an operator or a recovery changes them, or only the lease changes.
Intervene ==
    \/ CanCancel(Bundle) /\ Bundle' = CancelRun(Bundle)
    \/ \E s \in Steps : ResumeTarget(Bundle, s) /\ Bundle' = ResumeRun(Bundle, s)
    \/ Running(Bundle) # {} /\ Bundle' = RecoverRun(Bundle)

SameLife ==
    Bundle'.run = Bundle.run /\ Bundle'.step = Bundle.step
    /\ Bundle'.escalated = Bundle.escalated

LifeChange ==
    \/ SameLife
    \/ \E e \in Executors : pc[e] \in Engaged /\ WorkOn(step[e])
    \/ Intervene

\* an executor is engaged on the step it was engaged on, or on the one it now chooses
Choices ==
    \A e \in Executors : pc'[e] \in Engaged =>
        \/ pc[e] \in Engaged /\ step'[e] = step[e]
        \/ file' = file /\ step'[e] \in Steps /\ NextRunnable(Bundle, step'[e])

\* A step of one actor keeps WritesAreChecked if the file only moves forward and the
\* actor works from nothing newer.
LEMMA CheckedStep ==
    ASSUME Typed, WritesAreChecked, NEW a \in Actors, OthersKeep(a),
           file' = file \/ (file' \in Records /\ file'.revision = file.revision + 1),
           Faithful(seen[a])' , \A x \in Actors : ~checked'[x],
           UNCHANGED <<beat, beatSeen>>
    PROVE  WritesAreChecked'
<1>1. file.revision \in Nat /\ \A x \in Actors : seen[x].revision \in Nat
  BY DEF Typed, TypeOK, Records
<1>2. \A e \in Executors : beatSeen[e].revision \in Nat
  BY DEF Typed, TypeOK, Records
<1>3. file'.revision > 0 BY <1>1 DEF WritesAreChecked
<1>4. ASSUME NEW x \in Actors PROVE Faithful(seen[x])'
  <2>1. CASE x = a BY <2>1
  <2>2. CASE x # a
    <3>1. seen'[x] = seen[x] /\ Faithful(seen[x]) BY <2>2 DEF OthersKeep, WritesAreChecked
    <3> QED BY <1>1, <3>1 DEF Faithful
  <2> QED BY <2>1, <2>2
<1>5. ASSUME NEW e \in Executors PROVE Faithful(beatSeen[e])' /\ beat'[e] # "checked"
  BY <1>2, <1>1 DEF Faithful, WritesAreChecked
<1> QED BY <1>3, <1>4, <1>5 DEF WritesAreChecked

LEMMA BlankFaithful ==
    ASSUME NEW f \in Nat, f > 0
    PROVE  Blank.revision <= f /\ Blank.revision # f
BY DEF Blank

\* A read leaves the file alone and makes the actor's record current.
LEMMA ReadEffect ==
    ASSUME Typed, WritesAreChecked, NEW a \in Actors, NEW l \in Pcs, Read(a, l),
           mine' = mine \/ \E m \in LeaseIds : mine' = [mine EXCEPT ![a] = m],
           step' = step \/ \E s \in Steps : step' = [step EXCEPT ![a] = s],
           UNCHANGED <<file, checked, beat, beatSeen>>
    PROVE  WritesAreChecked' /\ SameLife /\ OthersKeep(a) /\ pc'[a] = l
<1>1. OthersKeep(a) /\ pc'[a] = l BY ReadTypes DEF Typed
<1>2. seen'[a] = file \/ seen'[a] = Blank BY DEF Typed, TypeOK, Read, Continue
<1>3. file.revision \in Nat /\ file.revision > 0
  BY DEF Typed, TypeOK, Records, WritesAreChecked
<1>4. Faithful(seen[a])' BY <1>2, <1>3, BlankFaithful DEF Faithful
<1>5. \A x \in Actors : ~checked'[x] BY DEF WritesAreChecked
<1>6. WritesAreChecked' BY <1>1, <1>4, <1>5, CheckedStep
<1> QED BY <1>1, <1>6 DEF SameLife, Bundle

LEMMA DoneEffect ==
    ASSUME Typed, WritesAreChecked, NEW a \in Actors, Done(a),
           UNCHANGED <<file, checked, beat, beatSeen>>
    PROVE  WritesAreChecked' /\ SameLife /\ Choices
<1>1. "idle" \in Pcs /\ "idle" \notin Engaged BY DEF Pcs, ExecutorPcs, Engaged
<1>2. OthersKeep(a) /\ pc'[a] = "idle" /\ seen'[a] = Blank
  BY <1>1, MoveTypes, BlankType DEF Typed
<1>3. file.revision \in Nat /\ file.revision > 0
  BY DEF Typed, TypeOK, Records, WritesAreChecked
<1>4. Faithful(seen[a])' BY <1>2, <1>3, BlankFaithful DEF Faithful
<1>5. \A x \in Actors : ~checked'[x] BY DEF WritesAreChecked
<1>6. WritesAreChecked' BY <1>2, <1>4, <1>5, CheckedStep
<1>7. Choices BY <1>1, <1>2 DEF Choices, OthersKeep, Actors
<1> QED BY <1>6, <1>7 DEF SameLife, Bundle

\* What a compare-and-swap stores is derived from the file as it is.
LEMMA WriteEffect ==
    ASSUME Typed, WritesAreChecked, ~CommitWindow,
           NEW a \in Actors, NEW b \in Bundles, NEW ok \in SUBSET Pcs, NEW bad \in Pcs,
           Write(a, b, ok, bad), UNCHANGED <<beat, beatSeen>>,
           a \in Executors => pc[a] \in Engaged \/ (ok \cup {bad}) \cap Engaged = {}
    PROVE  /\ WritesAreChecked' /\ Choices
           /\ SameLife \/ (seen[a].bundle = Bundle /\ Bundle' = b)
<1> USE DEF Bundle
<1>1. TypeOK BY DEF Typed
<1>2. OthersKeep(a) /\ file' \in Records BY <1>1, WriteTypes
<1>3. file \in Records /\ seen[a] \in Records /\ file.revision \in Nat /\ file.revision > 0
  BY <1>1 DEF TypeOK, Records, WritesAreChecked
<1>4. ~checked[a] /\ Faithful(seen[a]) /\ \A x \in Actors : ~checked[x]
  BY DEF WritesAreChecked
<1>5. CASE file.revision = seen[a].revision /\ \E l \in ok : Land(a, b, l)
  <2>1. PICK l \in ok : Land(a, b, l) BY <1>5
  <2>2. file' = [revision |-> file.revision + 1, bundle |-> b]
    BY <1>5, <2>1 DEF Land
  <2>3. \A x \in Actors : ~checked'[x] BY <1>1, <1>4, <2>1 DEF Land, TypeOK
  <2>4. seen[a] = file BY <1>4, <1>5 DEF Faithful
  <2>5. seen'[a] = file' \/ seen'[a] = Blank
    BY <1>1, <1>5, <2>1, <2>2 DEF Land, Done, Continue, TypeOK
  <2>6. Faithful(seen[a])' BY <1>3, <2>2, <2>5, BlankFaithful DEF Faithful
  <2>7. WritesAreChecked' BY <1>2, <2>2, <2>3, <2>6, CheckedStep
  <2>8. pc'[a] = l /\ (l # "idle" => step' = step)
    BY <1>1, <2>1 DEF Land, Done, Continue, TypeOK
  <2>9. Choices
    <3>1. "idle" \notin Engaged BY DEF Engaged
    <3> QED BY <1>2, <2>8, <3>1 DEF Choices, OthersKeep, Actors
  <2> QED BY <2>2, <2>4, <2>7, <2>9
<1>6. CASE UNCHANGED <<file, checked>> /\ Goto(a, bad)
  <2>1. seen'[a] = seen[a] \/ seen'[a] = Blank
    BY <1>1, <1>6 DEF Goto, Done, Continue, TypeOK
  <2>2. Faithful(seen[a])' BY <1>3, <1>4, <1>6, <2>1, BlankFaithful DEF Faithful
  <2>3. WritesAreChecked' BY <1>2, <1>4, <1>6, <2>2, CheckedStep
  <2>4. pc'[a] = bad /\ (bad # "idle" => step' = step)
    BY <1>1, <1>6 DEF Goto, Done, Continue, TypeOK
  <2>5. Choices
    <3>1. "idle" \notin Engaged BY DEF Engaged
    <3> QED BY <1>2, <2>4, <3>1 DEF Choices, OthersKeep, Actors
  <2> QED BY <1>6, <2>3, <2>5 DEF SameLife
<1> QED BY <1>4, <1>5, <1>6 DEF Write

Effect == WritesAreChecked' /\ LifeChange /\ Choices

\* Two ways of using the lemmas above.
LEMMA ReadIsEffect ==
    ASSUME Typed, WritesAreChecked, NEW a \in Actors, NEW l \in Pcs, Read(a, l),
           mine' = mine \/ \E m \in LeaseIds : mine' = [mine EXCEPT ![a] = m],
           step' = step, UNCHANGED <<file, checked, beat, beatSeen>>,
           a \in Executors /\ l \in Engaged => pc[a] \in Engaged
    PROVE  Effect
<1>1. WritesAreChecked' /\ SameLife /\ OthersKeep(a) /\ pc'[a] = l BY ReadEffect
<1>2. Choices BY <1>1 DEF Choices, OthersKeep, Actors
<1> QED BY <1>1, <1>2 DEF Effect, LifeChange

LEMMA CatchIsEffect ==
    ASSUME Typed, WritesAreChecked, NEW e \in Executors, Goto(e, "catch"),
           pc[e] \in Engaged, UNCHANGED <<file, checked, beat, beatSeen>>
    PROVE  Effect
<1>1. e \in Actors /\ "catch" \in Pcs /\ seen[e] \in Records
  BY DEF Actors, Pcs, ExecutorPcs, Typed, TypeOK
<1>2. Continue(e, "catch", seen[e]) /\ UNCHANGED <<mine, step>> BY DEF Goto
<1>3. OthersKeep(e) /\ pc'[e] = "catch"
      /\ seen'[e] = (IF "catch" \in Rereads THEN Blank ELSE seen[e])
  BY <1>1, <1>2, MoveTypes DEF Typed
<1>4. file.revision \in Nat /\ file.revision > 0
  BY DEF Typed, TypeOK, Records, WritesAreChecked
<1>5. Faithful(seen[e])' BY <1>3, <1>4, BlankFaithful DEF Faithful, Rereads
<1>6. \A x \in Actors : ~checked'[x] BY DEF WritesAreChecked
<1>7. WritesAreChecked' BY <1>1, <1>3, <1>5, <1>6, CheckedStep
<1>8. Choices BY <1>2, <1>3 DEF Choices, OthersKeep, Actors
<1> QED BY <1>7, <1>8 DEF Effect, LifeChange, SameLife, Bundle

\* The drain pass changes leases, or recovers a stranded step of the file as it is.
LEMMA DrainEffect ==
    ASSUME Typed, WritesAreChecked, ~CommitWindow, NEW e \in Executors, Drain(e)
    PROVE  Effect
<1> USE DEF Pcs, ExecutorPcs, Engaged
<1>1. e \in Actors BY DEF Actors
<1>2. seen[e].bundle \in Bundles /\ Bundle \in Bundles /\ clock \in Nat
  BY <1>1 DEF Typed, TypeOK, Records, Bundle
<1>3. SeenGuard(e) BY <1>1 DEF Typed, PcsAndGuards
<1>4. CASE SweepRun(e)
  <2>1. PICK l \in {"expire", "inspect"} : Read(e, l) BY <1>4 DEF SweepRun
  <2>2. l \in Pcs /\ l \notin Engaged OBVIOUS
  <2> QED BY <1>1, <1>4, <2>1, <2>2, ReadIsEffect DEF SweepRun
<1>5. CASE ExpireLease(e)
  <2> DEFINE c == ExpireLeases(seen[e].bundle, clock)
  <2>1. c \in Bundles BY <1>2 DEF ExpireLeases, Bundles
  <2>2. Write(e, c, {"inspect"}, "idle") /\ UNCHANGED <<beat, beatSeen>>
    BY <1>5 DEF ExpireLease
  <2>3. c.run = seen[e].bundle.run /\ c.step = seen[e].bundle.step
        /\ c.escalated = seen[e].bundle.escalated
    BY <1>2 DEF ExpireLeases, Bundles
  <2> HIDE DEF c
  <2>4. /\ WritesAreChecked' /\ Choices
        /\ SameLife \/ (seen[e].bundle = Bundle /\ Bundle' = c)
    BY <1>1, <2>1, <2>2, WriteEffect
  <2> QED BY <2>3, <2>4 DEF Effect, LifeChange, SameLife
<1>6. CASE InspectRun(e)
  <2>1. CASE Done(e) BY <1>1, <1>6, <2>1, DoneEffect DEF InspectRun, Effect, LifeChange
  <2>2. CASE /\ \E l \in {"execute", "recover"} : Read(e, l)
             /\ mine' = mine \/ \E m \in LeaseIds : mine' = [mine EXCEPT ![e] = m]
             /\ UNCHANGED step
    BY <1>1, <1>6, <2>2, ReadIsEffect DEF InspectRun
  <2>3. Bundle.lease # NoLease => Bundle.lease.id \in LeaseIds
    BY <1>2 DEF Bundles, Leases
  <2> QED BY <1>6, <2>1, <2>2, <2>3 DEF InspectRun
<1>7. CASE RecoverStranded(e)
  <2> DEFINE c == RecoverRun(seen[e].bundle)
  <2>1. c \in Bundles BY <1>2, RunTransitionTypes
  <2>2. PICK l \in {"reread", "idle"} : Write(e, c, {"execute"}, l)
    BY <1>7 DEF RecoverStranded
  <2>3. l \in Pcs /\ ({"execute"} \cup {l}) \cap Engaged = {} BY <2>2
  <2>4. UNCHANGED <<beat, beatSeen>> /\ Running(seen[e].bundle) # {}
    BY <1>3, <1>7 DEF RecoverStranded, SeenGuard
  <2> HIDE DEF c, Engaged
  <2>5. /\ WritesAreChecked' /\ Choices
        /\ SameLife \/ (seen[e].bundle = Bundle /\ Bundle' = c)
    BY <1>1, <2>1, <2>2, <2>3, <2>4, WriteEffect
  <2> QED BY <2>4, <2>5 DEF Effect, LifeChange, Intervene, c
<1>8. CASE RereadStranded(e)
  <2>1. CASE Done(e)
    BY <1>1, <1>8, <2>1, DoneEffect DEF RereadStranded, Effect, LifeChange
  <2>2. CASE Read(e, "recoverRetry") /\ UNCHANGED <<mine, step>>
    BY <1>1, <1>8, <2>2, ReadIsEffect DEF RereadStranded
  <2> QED BY <1>8, <2>1, <2>2 DEF RereadStranded
<1> QED BY <1>4, <1>5, <1>6, <1>7, <1>8 DEF Drain

\* An executor chooses a step from the file as it is, and starts, completes, fails or
\* pauses no other.
LEMMA ExecuteEffect ==
    ASSUME Typed, WritesAreChecked, ~CommitWindow, NEW e \in Executors, Execute(e)
    PROVE  Effect
<1> USE DEF Pcs, ExecutorPcs, Engaged
<1> DEFINE b == seen[e].bundle
           s == step[e]
<1>1. e \in Actors BY DEF Actors
<1>2. b \in Bundles /\ Bundle \in Bundles /\ clock \in Nat /\ HostOf[e] \in Hosts
  BY <1>1, ExecutionAssumption DEF Typed, TypeOK, Records, Bundle
<1>3. SeenGuard(e) /\ (pc[e] \in Engaged => s \in Steps)
  BY <1>1 DEF Typed, PcsAndGuards
<1>4. ASSUME NEW c \in Bundles, NEW ok \in SUBSET Pcs, NEW bad \in Pcs,
             Write(e, c, ok, bad), pc[e] \in Engaged, UNCHANGED <<beat, beatSeen>>
      PROVE  /\ WritesAreChecked' /\ Choices
             /\ SameLife \/ (b = Bundle /\ Bundle' = c)
  <2> HIDE DEF Engaged, Pcs
  <2> QED BY <1>1, <1>4, WriteEffect
<1>5. ASSUME NEW c \in Bundles, NEW ok \in SUBSET Pcs, NEW bad \in Pcs,
             Write(e, c, ok, bad), pc[e] \in Engaged, UNCHANGED <<beat, beatSeen>>,
             c.run = b.run, c.step = b.step, c.escalated = b.escalated
      PROVE  Effect
  BY <1>4, <1>5 DEF Effect, LifeChange, SameLife
<1>6. ASSUME NEW c \in Bundles, NEW ok \in SUBSET Pcs, NEW bad \in Pcs,
             Write(e, c, ok, bad), pc[e] \in Engaged, UNCHANGED <<beat, beatSeen>>,
             \/ CanStart(b, s) /\ c = StartStep(b, s)
             \/ CanSucceed(b, s) /\ c = SucceedStep(b, s)
             \/ CanFail(b, s) /\ c = FailStep(b, s)
             \/ CanSucceed(b, s) /\ c = PauseStep(b, s)
      PROVE  Effect
  <2>1. SameLife \/ (b = Bundle /\ Bundle' = c) BY <1>4, <1>6
  <2>2. SameLife \/ WorkOn(s) BY <1>6, <2>1 DEF WorkOn
  <2> QED BY <1>4, <1>6, <2>2 DEF Effect, LifeChange
<1>7. CASE ChooseStep(e)
  <2>1. CASE Done(e) BY <1>1, <1>7, <2>1, DoneEffect DEF ChooseStep, Effect, LifeChange
  <2>2. ASSUME NEW t \in Steps, NEW l \in {"limit", "acquire", "adopt"},
               NextRunnable(Bundle, t),
               step' = [step EXCEPT ![e] = t], Read(e, l), UNCHANGED mine
        PROVE  Effect
    <3>1. l \in Pcs BY <2>2
    <3>2. WritesAreChecked' /\ SameLife /\ OthersKeep(e) /\ pc'[e] = l
      BY <1>1, <1>7, <2>2, <3>1, ReadEffect DEF ChooseStep
    <3>3. step'[e] = t /\ file' = file BY <1>7, <2>2 DEF Typed, TypeOK, ChooseStep
    <3>4. Choices BY <2>2, <3>2, <3>3 DEF Choices, OthersKeep, Actors
    <3> QED BY <3>2, <3>4 DEF Effect, LifeChange
  <2> QED BY <1>7, <2>1, <2>2 DEF ChooseStep
<1>8. CASE FailOnLimit(e)
  <2>1. FailStep(b, s) \in Bundles /\ CanFail(b, s)
    BY <1>2, <1>3, <1>8, StepTransitionTypes DEF FailOnLimit, SeenGuard
  <2> QED BY <1>6, <1>8, <2>1 DEF FailOnLimit
<1>9. CASE RequestLease(e)
  <2>1. CASE Done(e) BY <1>1, <1>9, <2>1, DoneEffect DEF RequestLease, Effect, LifeChange
  <2>2. CASE ~Done(e)
    <3>1. <<e, file.revision>> \in LeaseIds
      BY <1>1 DEF LeaseIds, Typed, TypeOK, Records
    <3> QED BY <1>1, <1>9, <2>2, <3>1, ReadIsEffect DEF RequestLease
  <2> QED BY <2>1, <2>2
<1>10. CASE TakeLease(e)
  <2>1. PICK t \in {clock, clock + 1} :
          Write(e, AcquireLease(b, mine[e], HostOf[e], t), {"start"}, "idle")
    BY <1>10 DEF TakeLease
  <2> DEFINE c == AcquireLease(b, mine[e], HostOf[e], t)
  <2>2. mine[e] \in LeaseIds
    BY <1>1, <1>3, <1>10 DEF TakeLease, SeenGuard, Typed, TypeOK
  <2>3. c \in Bundles BY <1>2, <2>2 DEF AcquireLease, Bundles, Leases
  <2>4. c.run = b.run /\ c.step = b.step /\ c.escalated = b.escalated
    BY <1>2 DEF AcquireLease, Bundles
  <2> QED BY <1>5, <1>10, <2>1, <2>3, <2>4 DEF TakeLease
<1>11. CASE RenewLease(e)
  <2>1. CASE Done(e) BY <1>1, <1>11, <2>1, DoneEffect DEF RenewLease, Effect, LifeChange
  <2>2. CASE Read(e, "adoptWrite") /\ UNCHANGED <<mine, step>>
    BY <1>1, <1>11, <2>2, ReadIsEffect DEF RenewLease
  <2> QED BY <1>11, <2>1, <2>2 DEF RenewLease
<1>12. CASE AdoptLease(e)
  <2>1. PICK t \in {clock, clock + 1} :
          Write(e, HeartbeatLease(b, t), {"start"}, "idle")
    BY <1>12 DEF AdoptLease
  <2> DEFINE c == HeartbeatLease(b, t)
  <2>2. b.lease # NoLease BY <1>3, <1>12 DEF AdoptLease, SeenGuard
  <2>3. c \in Bundles BY <1>2, <2>2 DEF HeartbeatLease, Bundles, Leases
  <2>4. c.run = b.run /\ c.step = b.step /\ c.escalated = b.escalated
    BY <1>2 DEF HeartbeatLease, Bundles
  <2> QED BY <1>5, <1>12, <2>1, <2>3, <2>4 DEF AdoptLease
<1>13. CASE BeginStep(e)
  <2>1. CASE Goto(e, "catch") /\ UNCHANGED <<file, checked>>
    BY <1>13, <2>1, CatchIsEffect DEF BeginStep
  <2>2. CASE CanStart(b, s) /\ Write(e, StartStep(b, s),
                                     {"executing", "pause", "escalate"}, "catch")
    <3>1. StartStep(b, s) \in Bundles
      BY <1>2, <1>3, <1>13, StepTransitionTypes DEF BeginStep
    <3> QED BY <1>6, <1>13, <2>2, <3>1 DEF BeginStep
  <2> QED BY <1>13, <2>1, <2>2 DEF BeginStep
<1>14. CASE PauseForHuman(e)
  <2>1. PauseStep(b, s) \in Bundles /\ CanSucceed(b, s)
    BY <1>2, <1>3, <1>14, StepTransitionTypes DEF PauseForHuman, SeenGuard
  <2> QED BY <1>6, <1>14, <2>1 DEF PauseForHuman
<1>15. CASE FailForHuman(e)
  <2>1. FailStep(b, s) \in Bundles /\ CanFail(b, s)
    BY <1>2, <1>3, <1>15, StepTransitionTypes
       DEF FailForHuman, SeenGuard, CanSucceed, CanFail, Failable
  <2> QED BY <1>6, <1>15, <2>1 DEF FailForHuman
<1>16. CASE StepReturns(e)
  <2>1. PICK l \in {"release", "complete", "missing"} : Read(e, l)
    BY <1>16 DEF StepReturns
  <2> QED BY <1>1, <1>16, <2>1, ReadIsEffect DEF StepReturns
<1>17. CASE StepThrows(e) BY <1>17, CatchIsEffect DEF StepThrows
<1>18. CASE CompleteStep(e)
  <2>1. CASE Goto(e, "catch") /\ UNCHANGED <<file, checked>>
    BY <1>18, <2>1, CatchIsEffect DEF CompleteStep
  <2>2. CASE CanSucceed(b, s) /\ Write(e, SucceedStep(b, s), {"release"}, "catch")
    <3>1. SucceedStep(b, s) \in Bundles
      BY <1>2, <1>3, <1>18, StepTransitionTypes DEF CompleteStep
    <3> QED BY <1>6, <1>18, <2>2, <3>1 DEF CompleteStep
  <2> QED BY <1>18, <2>1, <2>2 DEF CompleteStep
<1>19. CASE FailIncomplete(e)
  <2>1. CASE Goto(e, "catch") /\ UNCHANGED <<file, checked>>
    BY <1>19, <2>1, CatchIsEffect DEF FailIncomplete
  <2>2. CASE CanFail(b, s) /\ Write(e, FailStep(b, s), {"release"}, "catch")
    <3>1. FailStep(b, s) \in Bundles
      BY <1>2, <1>3, <1>19, StepTransitionTypes DEF FailIncomplete
    <3> QED BY <1>6, <1>19, <2>2, <3>1 DEF FailIncomplete
  <2> QED BY <1>19, <2>1, <2>2 DEF FailIncomplete
<1>20. CASE CatchError(e)
  <2>1. PICK l \in {"release", "fail"} : Read(e, l) BY <1>20 DEF CatchError
  <2> QED BY <1>1, <1>20, <2>1, ReadIsEffect DEF CatchError
<1>21. CASE FailCaught(e)
  <2>1. FailStep(b, s) \in Bundles /\ CanFail(b, s)
    BY <1>2, <1>3, <1>21, StepTransitionTypes DEF FailCaught, SeenGuard
  <2> QED BY <1>6, <1>21, <2>1 DEF FailCaught
<1>22. CASE FinallyRelease(e)
  <2>1. CASE Done(e)
    BY <1>1, <1>22, <2>1, DoneEffect DEF FinallyRelease, Effect, LifeChange
  <2>2. CASE Read(e, "releaseWrite") /\ UNCHANGED <<mine, step>>
    BY <1>1, <1>22, <2>2, ReadIsEffect DEF FinallyRelease
  <2> QED BY <1>22, <2>1, <2>2 DEF FinallyRelease
<1>23. CASE GiveUpLease(e)
  <2>1. ReleaseLease(b) \in Bundles BY <1>2 DEF ReleaseLease, Bundles
  <2>2. /\ ReleaseLease(b).run = b.run /\ ReleaseLease(b).step = b.step
        /\ ReleaseLease(b).escalated = b.escalated
    BY <1>2 DEF ReleaseLease, Bundles
  <2> QED BY <1>5, <1>23, <2>1, <2>2 DEF GiveUpLease
<1>24. CASE ActivityNotRecorded(e)
  BY <1>1, <1>24, DoneEffect DEF ActivityNotRecorded, Effect, LifeChange
<1> QED
  BY <1>7, <1>8, <1>9, <1>10, <1>11, <1>12, <1>13, <1>14, <1>15, <1>16, <1>17, <1>18,
     <1>19, <1>20, <1>21, <1>22, <1>23, <1>24 DEF Execute

\* A heartbeat changes nothing but the lease.
LEMMA HeartbeatEffect ==
    ASSUME Typed, WritesAreChecked, ~CommitWindow, NEW e \in Executors, Heartbeat(e)
    PROVE  Effect
<1>1. /\ file \in Records /\ file.revision \in Nat /\ file.revision > 0
      /\ Bundle \in Bundles /\ beatSeen[e] \in Records
      /\ beat \in [Executors -> {"none", "read", "checked"}]
      /\ beatSeen \in [Executors -> Records]
      /\ \A a \in Actors : seen[a].revision \in Nat
      /\ \A x \in Executors : beatSeen[x].revision \in Nat
  BY DEF Typed, TypeOK, Records, Bundle, WritesAreChecked
<1>2. UNCHANGED <<clock, pc, seen, checked, step, mine>>
  BY DEF Heartbeat, BeatRead, BeatWrite
<1>3. Choices BY <1>2 DEF Choices
<1>4. ASSUME file' = file \/ (file' \in Records /\ file'.revision = file.revision + 1),
             Faithful(beatSeen[e])', beat'[e] # "checked",
             \A x \in Executors \ {e} : beat'[x] = beat[x] /\ beatSeen'[x] = beatSeen[x]
      PROVE  WritesAreChecked'
  <2>1. file'.revision > 0 BY <1>1, <1>4
  <2>2. ASSUME NEW a \in Actors PROVE Faithful(seen[a])' /\ ~checked'[a]
    <3>1. Faithful(seen[a]) /\ ~checked[a] BY DEF WritesAreChecked
    <3> QED BY <1>1, <1>2, <1>4, <3>1 DEF Faithful
  <2>3. ASSUME NEW x \in Executors PROVE Faithful(beatSeen[x])' /\ beat'[x] # "checked"
    <3>1. Faithful(beatSeen[x]) /\ beat[x] # "checked" BY DEF WritesAreChecked
    <3> QED BY <1>1, <1>4, <3>1 DEF Faithful
  <2> QED BY <2>1, <2>2, <2>3 DEF WritesAreChecked
<1>5. CASE BeatRead(e)
  <2>1. beat' = [beat EXCEPT ![e] = "read"] /\ beatSeen' = [beatSeen EXCEPT ![e] = file]
        /\ file' = file
    BY <1>5 DEF BeatRead
  <2>2. Faithful(beatSeen[e])' BY <1>1, <2>1 DEF Faithful
  <2>3. WritesAreChecked' BY <1>1, <1>4, <2>1, <2>2
  <2> QED BY <1>3, <2>1, <2>3 DEF Effect, LifeChange, SameLife, Bundle
<1>6. CASE BeatWrite(e)
  <2>1. BeatEnds(e) /\ (file' = file \/ (file.revision = beatSeen[e].revision /\ BeatLands(e)))
    BY <1>6 DEF BeatWrite, BeatLands, WritesAreChecked
  <2>2. beat' = [beat EXCEPT ![e] = "none"] /\ beatSeen' = [beatSeen EXCEPT ![e] = Blank]
    BY <2>1 DEF BeatEnds
  <2>3. CASE file' = file
    <3>1. Faithful(beatSeen[e])' BY <1>1, <2>2, <2>3, BlankFaithful DEF Faithful
    <3>2. WritesAreChecked' BY <1>1, <1>4, <2>2, <2>3, <3>1
    <3> QED BY <1>3, <2>3, <3>2 DEF Effect, LifeChange, SameLife, Bundle
  <2>4. CASE file.revision = beatSeen[e].revision /\ BeatLands(e)
    <3>1. beatSeen[e] = file BY <2>4 DEF WritesAreChecked, Faithful
    <3>2. PICK t \in {clock, clock + 1} :
            file' = [revision |-> file.revision + 1, bundle |-> HeartbeatLease(Bundle, t)]
      BY <2>4, <3>1 DEF BeatLands, Bundle
    <3>3. file' \in Records BY <1>6, TypedHeartbeat DEF Heartbeat, Typed, TypeOK
    <3>4. Faithful(beatSeen[e])'
      BY <1>1, <2>2, <3>2, BlankFaithful DEF Faithful
    <3>5. WritesAreChecked' BY <1>1, <1>4, <2>2, <3>2, <3>3, <3>4
    <3>6. SameLife BY <1>1, <3>2 DEF SameLife, HeartbeatLease, Bundles, Bundle
    <3> QED BY <1>3, <3>5, <3>6 DEF Effect, LifeChange
  <2> QED BY <2>1, <2>3, <2>4
<1> QED BY <1>5, <1>6 DEF Heartbeat

\* The operator controls cancel or resume the run as it is, or change its lease.
LEMMA OperateEffect ==
    ASSUME Typed, WritesAreChecked, ~CommitWindow, NEW o \in Operators, Operate(o)
    PROVE  Effect
<1> USE DEF Pcs, OperatorPcs
<1> DEFINE b == seen[o].bundle
<1>1. o \in Actors /\ o \notin Executors BY ExecutionAssumption DEF Actors
<1>2. b \in Bundles /\ Bundle \in Bundles /\ clock \in Nat /\ HostOf[o] \in Hosts
      /\ file.revision \in Nat
  BY <1>1, ExecutionAssumption DEF Typed, TypeOK, Records, Bundle
<1>3. SeenGuard(o) BY <1>1 DEF Typed, PcsAndGuards
<1>4. ASSUME NEW l \in OperatorPcs, Control(o, l),
             mine' = mine \/ \E m \in LeaseIds : mine' = [mine EXCEPT ![o] = m]
      PROVE  Effect
  BY <1>1, <1>4, ReadIsEffect DEF Control
<1>5. CASE \/ CancelUnleased(o) \/ ResumeHumanEscalation(o)
           \/ RepairStaleHeartbeat(o) \/ NoteRun(o)
  BY <1>4, <1>5 DEF CancelUnleased, ResumeHumanEscalation, RepairStaleHeartbeat, NoteRun
<1>6. CASE CancelLeased(o)
  <2>1. Bundle.lease.id \in LeaseIds BY <1>2, <1>6 DEF CancelLeased, Bundles, Leases
  <2> QED BY <1>4, <1>6, <2>1 DEF CancelLeased
<1>7. CASE SchedulerClaim(o)
  <2>1. <<o, file.revision>> \in LeaseIds BY <1>1, <1>2 DEF LeaseIds
  <2> QED BY <1>4, <1>7, <2>1 DEF SchedulerClaim
<1>8. ASSUME NEW c \in Bundles, NEW l \in {"idle", "cancelRelease"},
             Write(o, c, {l}, "idle"), UNCHANGED <<beat, beatSeen>>
      PROVE  /\ WritesAreChecked' /\ Choices
             /\ SameLife \/ (b = Bundle /\ Bundle' = c)
  <2>1. {l} \in SUBSET Pcs /\ "idle" \in Pcs OBVIOUS
  <2> HIDE DEF Pcs
  <2> QED BY <1>1, <1>8, <2>1, WriteEffect
<1>9. ASSUME NEW c \in Bundles, Write(o, c, {"idle"}, "idle"),
             UNCHANGED <<beat, beatSeen>>,
             c.run = b.run, c.step = b.step, c.escalated = b.escalated
      PROVE  Effect
  BY <1>8, <1>9 DEF Effect, LifeChange, SameLife
<1>10. CASE ControlWrite(o)
  <2>1. UNCHANGED <<clock, beat, beatSeen>> BY <1>10 DEF ControlWrite
  <2>2. CASE /\ CanCancel(b)
             /\ \E l \in {"idle", "cancelRelease"} : Write(o, CancelRun(b), {l}, "idle")
    <3>1. CancelRun(b) \in Bundles BY <1>2, RunTransitionTypes
    <3>2. SameLife \/ Intervene BY <1>8, <2>1, <2>2, <3>1 DEF Intervene
    <3> QED BY <1>8, <2>1, <2>2, <3>1, <3>2 DEF Effect, LifeChange
  <2>3. CASE Write(o, ReleaseLease(b), {"idle"}, "idle")
    <3>1. /\ ReleaseLease(b) \in Bundles
          /\ ReleaseLease(b).run = b.run /\ ReleaseLease(b).step = b.step
          /\ ReleaseLease(b).escalated = b.escalated
      BY <1>2 DEF ReleaseLease, Bundles
    <3> QED BY <1>9, <2>1, <2>3, <3>1
  <2>4. ASSUME NEW s \in Steps, ResumeTarget(b, s),
               Write(o, ResumeRun(b, s), {"idle"}, "idle")
        PROVE  Effect
    <3>1. ResumeRun(b, s) \in Bundles BY <1>2, StepTransitionTypes
    <3>2. SameLife \/ Intervene BY <1>8, <2>1, <2>4, <3>1 DEF Intervene
    <3> QED BY <1>8, <2>1, <2>4, <3>1, <3>2 DEF Effect, LifeChange
  <2>5. ASSUME NEW t \in {clock, clock + 1}, pc[o] = "claim",
               Write(o, AcquireLease(b, mine[o], HostOf[o], t), {"idle"}, "idle")
        PROVE  Effect
    <3> DEFINE c == AcquireLease(b, mine[o], HostOf[o], t)
    <3>1. mine[o] \in LeaseIds BY <1>1, <1>3, <2>5 DEF SeenGuard, Typed, TypeOK
    <3>2. c \in Bundles BY <1>2, <3>1 DEF AcquireLease, Bundles, Leases
    <3>3. c.run = b.run /\ c.step = b.step /\ c.escalated = b.escalated
      BY <1>2 DEF AcquireLease, Bundles
    <3> QED BY <1>9, <2>1, <2>5, <3>2, <3>3
  <2>6. CASE Write(o, ExpireLeases(b, clock), {"idle"}, "idle")
    <3>1. /\ ExpireLeases(b, clock) \in Bundles
          /\ ExpireLeases(b, clock).run = b.run /\ ExpireLeases(b, clock).step = b.step
          /\ ExpireLeases(b, clock).escalated = b.escalated
      BY <1>2 DEF ExpireLeases, Bundles
    <3> QED BY <1>9, <2>1, <2>6, <3>1
  <2>7. CASE Write(o, b, {"idle"}, "idle") BY <1>2, <1>9, <2>1, <2>7
  <2> QED BY <1>3, <1>10, <2>2, <2>3, <2>4, <2>5, <2>6, <2>7 DEF ControlWrite, SeenGuard
<1>11. CASE CancelRelease(o)
  <2>1. CASE Done(o)
    BY <1>1, <1>11, <2>1, DoneEffect DEF CancelRelease, Effect, LifeChange
  <2>2. CASE Read(o, "cancelReleaseWrite") /\ UNCHANGED <<mine, step>>
    BY <1>1, <1>11, <2>2, ReadIsEffect DEF CancelRelease
  <2> QED BY <1>11, <2>1, <2>2 DEF CancelRelease
<1> QED BY <1>5, <1>6, <1>7, <1>10, <1>11 DEF Operate

\* Time, crashes and restarts touch no stored step and lose work only.
LEMMA EnvironmentEffect ==
    ASSUME Typed, WritesAreChecked, LeaseLapses \/ \E h \in Hosts : Crash(h) \/ Restart(h)
    PROVE  Effect
<1>1. "down" \notin Engaged /\ "idle" \notin Engaged BY DEF Engaged
<1>2. file.revision \in Nat /\ file.revision > 0 /\ file' = file
  BY DEF Typed, TypeOK, Records, WritesAreChecked, LeaseLapses, Crash, Restart
<1>3. SameLife BY <1>2 DEF SameLife, Bundle
<1>4. CASE LeaseLapses
  BY <1>3, <1>4 DEF Effect, LifeChange, LeaseLapses, WritesAreChecked, Faithful, Choices
<1>5. ASSUME NEW h \in Hosts, Crash(h) PROVE Effect
  <2>1. WritesAreChecked'
    BY <1>2, <1>5, BlankFaithful DEF Crash, WritesAreChecked, Faithful
  <2>2. Choices BY <1>1, <1>5 DEF Crash, Choices, Actors
  <2> QED BY <1>3, <2>1, <2>2 DEF Effect, LifeChange
<1>6. ASSUME NEW h \in Hosts, Restart(h) PROVE Effect
  <2>1. WritesAreChecked' BY <1>6 DEF Restart, WritesAreChecked, Faithful
  <2>2. Choices BY <1>1, <1>6 DEF Restart, Choices, Actors
  <2> QED BY <1>3, <2>1, <2>2 DEF Effect, LifeChange
<1> QED BY <1>4, <1>5, <1>6

\* Every step of the system, in terms of the file it happens to.
LEMMA NextEffect ==
    ASSUME Typed, WritesAreChecked, ~CommitWindow, [Next]_vars
    PROVE  Effect
<1>1. CASE \E e \in Executors : Drain(e) \/ Execute(e) \/ Heartbeat(e)
  BY <1>1, DrainEffect, ExecuteEffect, HeartbeatEffect
<1>2. CASE \E o \in Operators : Operate(o) BY <1>2, OperateEffect
<1>3. CASE LeaseLapses \/ \E h \in Hosts : Crash(h) \/ Restart(h)
  BY <1>3, EnvironmentEffect
<1>4. CASE UNCHANGED vars
  BY <1>4 DEF vars, Effect, LifeChange, SameLife, Bundle, Choices, WritesAreChecked, Faithful
<1> QED BY <1>1, <1>2, <1>3, <1>4 DEF Next

--------------------------------------------------------------------------------
(***************************************************************************)
(* The invariant and what follows from it.                                 *)
(***************************************************************************)

\* An executor that is engaged on a step that could run has the turn.
LEMMA EngagedHasTurn ==
    ASSUME IInv, NEW e \in Executors, pc[e] \in Engaged, WorkOn(step[e])
    PROVE  step[e] \in Steps /\ HasTurn(Bundle, step[e])
<1>1. step[e] \in Steps BY DEF IInv, Typed, PcsAndGuards
<1>2. CouldRun(Bundle, step[e])
  BY DEF WorkOn, CanStart, CanSucceed, CanFail, CouldRun, Failable, Dispatchable
<1> QED BY <1>1, <1>2 DEF IInv, ChoiceStands

\* The bundle stays sound and every choice standing.
LEMMA LifeChangeIsSafe ==
    ASSUME IInv, LifeChange
    PROVE  Sound(Bundle') /\ \A t \in Steps : Stands(Bundle, t) => Stands(Bundle', t)
<1>1. Bundle \in Bundles BY DEF IInv, Typed, TypeOK, Records, Bundle
<1>2. Sound(Bundle) BY SoundIsBundleSound DEF IInv
<1>3. CASE SameLife
  <2>1. Sound(Bundle') BY <1>2, <1>3 DEF SameLife, Sound
  <2>2. ASSUME NEW t \in Steps, Stands(Bundle, t) PROVE Stands(Bundle', t)
    <3>1. \A k \in Steps : DependenciesSatisfied(Bundle, k)
                             <=> DependenciesSatisfied(Bundle', k)
      BY <1>3, SameDependencies DEF SameLife
    <3> QED BY <1>3, <2>2, <3>1 DEF SameLife, Stands, CouldRun, HasTurn
  <2> QED BY <2>1, <2>2
<1>4. ASSUME NEW e \in Executors, pc[e] \in Engaged, WorkOn(step[e])
      PROVE  Sound(Bundle') /\ \A t \in Steps : Stands(Bundle, t) => Stands(Bundle', t)
  <2>1. step[e] \in Steps /\ HasTurn(Bundle, step[e]) BY <1>4, EngagedHasTurn
  <2> QED BY <1>1, <1>2, <1>4, <2>1, StartIsSafe, SucceedIsSafe, FailIsSafe, PauseIsSafe
          DEF WorkOn
<1>5. CASE Intervene
  BY <1>1, <1>2, <1>5, CancelIsSafe, ResumeIsSafe, RecoverIsSafe DEF Intervene
<1> QED BY <1>3, <1>4, <1>5 DEF LifeChange

LEMMA InvInit == Init => IInv
<1> SUFFICES ASSUME Init PROVE IInv OBVIOUS
<1>1. Typed BY TypedInit
<1>2. PICK initial \in [Steps -> InitialStatuses] :
        file = [revision |-> 1, bundle |-> [Blank.bundle EXCEPT !.step = initial]]
  BY DEF Init
<1>3. WritesAreChecked
  <2>1. file.revision = 1 /\ Blank.revision = 0 BY <1>2 DEF Blank
  <2> QED BY <2>1 DEF Init, WritesAreChecked, Faithful
<1>4. ChoiceStands BY DEF Init, ChoiceStands, Engaged, Actors
<1>5. /\ Bundle.run = "planned"
      /\ \A s \in Steps : ~Bundle.escalated[s]
                          /\ Bundle.step[s] \in {"planned", "runnable", "blocked"}
  BY <1>2, ExecutionAssumption DEF Blank, Bundle
<1>6. 1 \in Steps BY RunAssumption DEF Steps
<1>7. Sound(Bundle) BY <1>5, <1>6 DEF Sound
<1> QED BY <1>1, <1>3, <1>4, <1>7, SoundIsBundleSound DEF IInv

LEMMA InvNext == ~CommitWindow /\ IInv /\ [Next]_vars => IInv'
<1> SUFFICES ASSUME ~CommitWindow, IInv, [Next]_vars PROVE IInv' OBVIOUS
<1>1. Typed' BY TypedNext DEF IInv
<1>2. WritesAreChecked' /\ LifeChange /\ Choices BY NextEffect DEF IInv, Effect
<1>3. Sound(Bundle') /\ \A t \in Steps : Stands(Bundle, t) => Stands(Bundle', t)
  BY <1>2, LifeChangeIsSafe
<1>4. BundleSound'
  BY <1>3 DEF BundleSound, Sound, OneStepAtATime, RunStatusHonest,
              OnlyPausedStepsResume, NoFailureBeside
<1>5. ASSUME NEW e \in Executors, pc'[e] \in Engaged PROVE Stands(Bundle', step'[e])
  <2>1. CASE pc[e] \in Engaged /\ step'[e] = step[e]
    <3>1. step[e] \in Steps BY <2>1 DEF IInv, Typed, PcsAndGuards
    <3>2. Stands(Bundle, step[e]) BY <2>1 DEF IInv, ChoiceStands, Stands
    <3> QED BY <1>3, <2>1, <3>1, <3>2
  <2>2. CASE file' = file /\ step'[e] \in Steps /\ NextRunnable(Bundle, step'[e])
    <3>1. Bundle \in Bundles /\ Sound(Bundle)
      BY SoundIsBundleSound DEF IInv, Typed, TypeOK, Records, Bundle
    <3>2. HasTurn(Bundle, step'[e]) BY <2>2, <3>1, NextHasTurn
    <3>3. Stands(Bundle, step'[e]) BY <3>2 DEF Stands
    <3> QED BY <1>3, <2>2, <3>3
  <2> QED BY <1>2, <1>5, <2>1, <2>2 DEF Choices
<1>6. ChoiceStands' BY <1>5 DEF ChoiceStands, Stands
<1> QED BY <1>1, <1>2, <1>4, <1>6 DEF IInv

\* IInv is an invariant of every system whose writes are compare-and-swaps.
THEOREM InvHolds == ASSUME ~CommitWindow PROVE Spec => []IInv
<1>1. IInv /\ [Next]_vars => IInv' BY InvNext
<1> QED BY <1>1, InvInit, PTL DEF Spec

\* At most one step of a run is marked running, whatever number of hosts drain it,
\* however stale the inspection they chose from and whichever leases have lapsed.
THEOREM OneStepAtATimeHolds == ASSUME ~CommitWindow PROVE Spec => []OneStepAtATime
<1>1. IInv => OneStepAtATime BY DEF IInv, BundleSound
<1> QED BY <1>1, InvHolds, PTL

\* A step that executeStoredExecutionRunOnce chose from an inspection that has become
\* stale is, as long as it could run at all, still the step whose turn it is.
THEOREM ChoiceStandsHolds == ASSUME ~CommitWindow PROVE Spec => []ChoiceStands
<1>1. IInv => ChoiceStands BY DEF IInv
<1> QED BY <1>1, InvHolds, PTL

\* The stored run status never contradicts the stored step statuses.
THEOREM RunStatusHonestHolds == ASSUME ~CommitWindow PROVE Spec => []RunStatusHonest
<1>1. IInv => RunStatusHonest BY DEF IInv, BundleSound
<1> QED BY <1>1, InvHolds, PTL

\* A step that runs, or that waits for a human and could be resumed, never stands beside
\* a failed one: failExecutionRunStep and the pause look at their own step only.
THEOREM NoFailureBesideHolds == ASSUME ~CommitWindow PROVE Spec => []NoFailureBeside
<1>1. IInv => NoFailureBeside BY DEF IInv, BundleSound
<1> QED BY <1>1, InvHolds, PTL

\* What one change may do to a step that is cancelled for good or has an outcome.
LEMMA FinalStepsStay ==
    ASSUME IInv, LifeChange, NEW s \in Steps
    PROVE  /\ Bundle.step[s] = "cancelled" /\ ~Bundle.escalated[s]
                => Bundle'.step[s] = "cancelled" /\ ~Bundle'.escalated[s]
           /\ Bundle.step[s] \in {"succeeded", "failed"}
                => Bundle'.step[s] = Bundle.step[s]
<1>1. Bundle \in Bundles BY DEF IInv, Typed, TypeOK, Records, Bundle
<1>2. /\ Bundle.step \in [Steps -> StepStatuses]
      /\ Bundle.escalated \in [Steps -> BOOLEAN]
  BY <1>1 DEF Bundles
<1>3. CASE SameLife BY <1>3 DEF SameLife
<1>4. ASSUME NEW e \in Executors, pc[e] \in Engaged, WorkOn(step[e])
      PROVE  s # step[e] => Bundle'.step[s] = Bundle.step[s]
                            /\ Bundle'.escalated[s] = Bundle.escalated[s]
  <2> DEFINE t == step[e]
  <2>1. CASE Bundle' = StartStep(Bundle, t) BY <1>1, <2>1 DEF StartStep, Bundles
  <2>2. CASE Bundle' = SucceedStep(Bundle, t) BY <1>1, <2>2 DEF SucceedStep, Bundles
  <2>3. CASE Bundle' = FailStep(Bundle, t) BY <1>1, <2>3 DEF FailStep, Bundles
  <2>4. CASE Bundle' = PauseStep(Bundle, t) BY <1>1, <2>4 DEF PauseStep, Bundles
  <2> QED BY <1>4, <2>1, <2>2, <2>3, <2>4 DEF WorkOn
<1>5. ASSUME NEW e \in Executors, pc[e] \in Engaged, WorkOn(step[e])
      PROVE  Bundle.step[step[e]] \in {"planned", "runnable", "running"}
  BY <1>5 DEF WorkOn, CanStart, CanSucceed, CanFail, Failable, Dispatchable
<1>6. CASE CanCancel(Bundle) /\ Bundle' = CancelRun(Bundle)
  BY <1>1, <1>2, <1>6 DEF CancelRun, Mutable, Bundles
<1>7. ASSUME NEW t \in Steps, ResumeTarget(Bundle, t), Bundle' = ResumeRun(Bundle, t)
      PROVE  /\ s # t => Bundle'.step[s] = Bundle.step[s]
                         /\ Bundle'.escalated[s] = Bundle.escalated[s]
             /\ Bundle.step[t] = "cancelled" /\ Bundle.escalated[t]
  BY <1>1, <1>2, <1>7 DEF ResumeRun, ResumeTarget, Bundles
<1>8. CASE Running(Bundle) # {} /\ Bundle' = RecoverRun(Bundle)
  BY <1>1, <1>2, <1>8 DEF RecoverRun, Bundles
<1> QED BY <1>3, <1>4, <1>5, <1>6, <1>7, <1>8 DEF LifeChange, Intervene

\* A step an operator has cancelled stays cancelled, even if its work completes,
\* fails, is recovered or renews its lease afterwards.
THEOREM CancelWinsHolds == ASSUME ~CommitWindow PROVE Spec => CancelWins
<1>1. IInv /\ [Next]_vars =>
        [\A s \in Steps : Bundle.step[s] = "cancelled" /\ ~Bundle.escalated[s]
                            => Bundle'.step[s] = "cancelled" /\ ~Bundle'.escalated[s]]_vars
  BY NextEffect, FinalStepsStay DEF IInv, Effect
<1> QED BY <1>1, InvHolds, PTL DEF Spec, CancelWins

\* A step that has succeeded or failed keeps that outcome.
THEOREM OutcomesAreFinalHolds == ASSUME ~CommitWindow PROVE Spec => OutcomesAreFinal
<1>1. IInv /\ [Next]_vars =>
        [\A s \in Steps : Bundle.step[s] \in {"succeeded", "failed"}
                            => Bundle'.step[s] = Bundle.step[s]]_vars
  BY NextEffect, FinalStepsStay DEF IInv, Effect
<1> QED BY <1>1, InvHolds, PTL DEF Spec, OutcomesAreFinal

--------------------------------------------------------------------------------
(***************************************************************************)
(* The implementation of RunLifecycle.                                     *)
(***************************************************************************)

\* RunLifecycle's instance of RunRecord is RunRecord.
LEMMA SameRecord ==
    ASSUME NEW b, NEW s
    PROVE  /\ Lifecycle!Steps = Steps
           /\ Lifecycle!HasTurn(b, s) <=> HasTurn(b, s)
           /\ Lifecycle!CanStart(b, s) <=> CanStart(b, s)
           /\ Lifecycle!CanSucceed(b, s) <=> CanSucceed(b, s)
           /\ Lifecycle!CanFail(b, s) <=> CanFail(b, s)
           /\ Lifecycle!CanCancel(b) <=> CanCancel(b)
           /\ Lifecycle!ResumeTarget(b, s) <=> ResumeTarget(b, s)
           /\ Lifecycle!Running(b) = Running(b)
           /\ Lifecycle!StartStep(b, s) = StartStep(b, s)
           /\ Lifecycle!SucceedStep(b, s) = SucceedStep(b, s)
           /\ Lifecycle!FailStep(b, s) = FailStep(b, s)
           /\ Lifecycle!PauseStep(b, s) = PauseStep(b, s)
           /\ Lifecycle!ResumeRun(b, s) = ResumeRun(b, s)
           /\ Lifecycle!CancelRun(b) = CancelRun(b)
           /\ Lifecycle!RecoverRun(b) = RecoverRun(b)
<1>1. Lifecycle!Steps = Steps BY DEF Lifecycle!Steps, Steps
<1>2. Lifecycle!Dispatchable = Dispatchable /\ Lifecycle!Failable = Failable
      /\ Lifecycle!Mutable = Mutable
  BY DEF Lifecycle!Dispatchable, Dispatchable, Lifecycle!Failable, Failable,
         Lifecycle!Mutable, Mutable
<1>3. \A k : Lifecycle!DependenciesSatisfied(b, k) <=> DependenciesSatisfied(b, k)
  BY <1>1 DEF Lifecycle!DependenciesSatisfied, DependenciesSatisfied
<1>4. Lifecycle!HasTurn(b, s) <=> HasTurn(b, s)
  BY <1>1, <1>2, <1>3 DEF Lifecycle!HasTurn, HasTurn
<1>5. /\ Lifecycle!CanStart(b, s) <=> CanStart(b, s)
      /\ Lifecycle!CanSucceed(b, s) <=> CanSucceed(b, s)
      /\ Lifecycle!CanFail(b, s) <=> CanFail(b, s)
      /\ Lifecycle!CanCancel(b) <=> CanCancel(b)
  BY <1>1, <1>2 DEF Lifecycle!CanStart, CanStart, Lifecycle!CanSucceed, CanSucceed,
                    Lifecycle!CanFail, CanFail, Lifecycle!CanCancel, CanCancel
<1>6. Lifecycle!ResumeTarget(b, s) <=> ResumeTarget(b, s)
  BY <1>1 DEF Lifecycle!ResumeTarget, ResumeTarget
<1>7. Lifecycle!Running(b) = Running(b) BY <1>1 DEF Lifecycle!Running, Running
<1>8. /\ Lifecycle!StartStep(b, s) = StartStep(b, s)
      /\ Lifecycle!FailStep(b, s) = FailStep(b, s)
      /\ Lifecycle!PauseStep(b, s) = PauseStep(b, s)
      /\ Lifecycle!ResumeRun(b, s) = ResumeRun(b, s)
  BY DEF Lifecycle!StartStep, StartStep, Lifecycle!FailStep, FailStep,
         Lifecycle!PauseStep, PauseStep, Lifecycle!ResumeRun, ResumeRun
<1>9. Lifecycle!SucceedStep(b, s) = SucceedStep(b, s)
  BY <1>1 DEF Lifecycle!SucceedStep, SucceedStep
<1>10. Lifecycle!CancelRun(b) = CancelRun(b)
  BY <1>1, <1>2 DEF Lifecycle!CancelRun, CancelRun
<1>11. Lifecycle!RecoverRun(b) = RecoverRun(b)
  BY <1>1 DEF Lifecycle!RecoverRun, RecoverRun
<1> QED BY <1>1, <1>4, <1>5, <1>6, <1>7, <1>8, <1>9, <1>10, <1>11

\* Guards and transitions of RunRecord ignore the lease, which State leaves out.
LEMMA StateLikeBundle ==
    ASSUME NEW s \in Steps
    PROVE  LET S == Lifecycle!State IN
           /\ HasTurn(Bundle, s) => Lifecycle!Turn(s)
           /\ CanStart(Bundle, s) <=> CanStart(S, s)
           /\ CanSucceed(Bundle, s) <=> CanSucceed(S, s)
           /\ CanFail(Bundle, s) <=> CanFail(S, s)
           /\ ResumeTarget(Bundle, s) <=> ResumeTarget(S, s)
           /\ CanCancel(Bundle) <=> CanCancel(S)
           /\ Running(Bundle) = Running(S)
<1> DEFINE S == Lifecycle!State
<1>1. S.step = Bundle.step /\ S.escalated = Bundle.escalated
  BY DEF Lifecycle!State, Bundle
<1>2. \A k \in Steps : DependenciesSatisfied(Bundle, k) <=> DependenciesSatisfied(S, k)
  BY <1>1 DEF DependenciesSatisfied
<1> HIDE DEF S
<1>3. HasTurn(Bundle, s) => HasTurn(S, s) BY <1>1, <1>2 DEF HasTurn
<1>4. /\ CanStart(Bundle, s) <=> CanStart(S, s)
      /\ CanSucceed(Bundle, s) <=> CanSucceed(S, s)
      /\ CanFail(Bundle, s) <=> CanFail(S, s)
      /\ ResumeTarget(Bundle, s) <=> ResumeTarget(S, s)
      /\ CanCancel(Bundle) <=> CanCancel(S)
      /\ Running(Bundle) = Running(S)
  BY <1>1 DEF CanStart, CanSucceed, CanFail, ResumeTarget, CanCancel, Running
<1> QED BY <1>3, <1>4, SameRecord DEF S, Lifecycle!Turn

\* The transitions themselves.
LEMMA BecomeLikeBundle ==
    ASSUME Bundle \in Bundles, NEW s \in Steps
    PROVE  LET S == Lifecycle!State IN
           /\ Bundle' = StartStep(Bundle, s) => Lifecycle!Become(StartStep(S, s))
           /\ Bundle' = SucceedStep(Bundle, s) => Lifecycle!Become(SucceedStep(S, s))
           /\ Bundle' = FailStep(Bundle, s) => Lifecycle!Become(FailStep(S, s))
           /\ Bundle' = PauseStep(Bundle, s) => Lifecycle!Become(PauseStep(S, s))
           /\ Bundle' = ResumeRun(Bundle, s) => Lifecycle!Become(ResumeRun(S, s))
           /\ Bundle' = CancelRun(Bundle) => Lifecycle!Become(CancelRun(S))
           /\ Bundle' = RecoverRun(Bundle) => Lifecycle!Become(RecoverRun(S))
<1> DEFINE S == Lifecycle!State
<1>1. S = [run |-> Bundle.run, step |-> Bundle.step, escalated |-> Bundle.escalated,
           lease |-> NoLease]
  BY DEF Lifecycle!State, Bundle
<1> HIDE DEF S
<1> USE <1>1 DEF Lifecycle!Become, Bundles, Bundle
<1>2. Bundle' = StartStep(Bundle, s) => Lifecycle!Become(StartStep(S, s))
  BY DEF StartStep
<1>3. Bundle' = SucceedStep(Bundle, s) => Lifecycle!Become(SucceedStep(S, s))
  BY DEF SucceedStep
<1>4. Bundle' = FailStep(Bundle, s) => Lifecycle!Become(FailStep(S, s))
  BY DEF FailStep
<1>5. Bundle' = PauseStep(Bundle, s) => Lifecycle!Become(PauseStep(S, s))
  BY DEF PauseStep
<1>6. Bundle' = ResumeRun(Bundle, s) => Lifecycle!Become(ResumeRun(S, s))
  BY DEF ResumeRun
<1>7. Bundle' = CancelRun(Bundle) => Lifecycle!Become(CancelRun(S))
  BY DEF CancelRun
<1>8. Bundle' = RecoverRun(Bundle) => Lifecycle!Become(RecoverRun(S))
  BY DEF RecoverRun
<1> QED BY <1>2, <1>3, <1>4, <1>5, <1>6, <1>7, <1>8 DEF S

LEMMA LifeChangeRefines ==
    ASSUME IInv, LifeChange PROVE [Lifecycle!LifeNext]_(Lifecycle!life)
<1>1. Bundle \in Bundles BY DEF IInv, Typed, TypeOK, Records, Bundle
<1>2. CASE SameLife BY <1>2 DEF SameLife, Lifecycle!life, Bundle
<1>3. ASSUME NEW e \in Executors, pc[e] \in Engaged, WorkOn(step[e])
      PROVE  Lifecycle!LifeNext
  <2> DEFINE s == step[e]
  <2>1. s \in Steps /\ Lifecycle!Turn(s) BY <1>3, EngagedHasTurn, StateLikeBundle
  <2> HIDE DEF s
  <2>2. WorkOn(s) BY <1>3 DEF s
  <2>3. CASE CanStart(Bundle, s) /\ Bundle' = StartStep(Bundle, s)
    <3>1. Lifecycle!Start(s)
      BY <1>1, <2>1, <2>3, StateLikeBundle, BecomeLikeBundle, SameRecord
         DEF Lifecycle!Start
    <3> QED BY <2>1, <3>1, SameRecord DEF Lifecycle!LifeNext
  <2>4. CASE CanSucceed(Bundle, s) /\ Bundle' = SucceedStep(Bundle, s)
    <3>1. Lifecycle!Succeed(s)
      BY <1>1, <2>1, <2>4, StateLikeBundle, BecomeLikeBundle, SameRecord
         DEF Lifecycle!Succeed
    <3> QED BY <2>1, <3>1, SameRecord DEF Lifecycle!LifeNext
  <2>5. CASE CanFail(Bundle, s) /\ Bundle' = FailStep(Bundle, s)
    <3>1. Lifecycle!Fail(s)
      BY <1>1, <2>1, <2>5, StateLikeBundle, BecomeLikeBundle, SameRecord
         DEF Lifecycle!Fail
    <3> QED BY <2>1, <3>1, SameRecord DEF Lifecycle!LifeNext
  <2>6. CASE CanSucceed(Bundle, s) /\ Bundle' = PauseStep(Bundle, s)
    <3>1. Lifecycle!Pause(s)
      BY <1>1, <2>1, <2>6, StateLikeBundle, BecomeLikeBundle, SameRecord
         DEF Lifecycle!Pause
    <3> QED BY <2>1, <3>1, SameRecord DEF Lifecycle!LifeNext
  <2> QED BY <2>2, <2>3, <2>4, <2>5, <2>6 DEF WorkOn
<1>4. CASE CanCancel(Bundle) /\ Bundle' = CancelRun(Bundle)
  <2>1. 1 \in Steps BY RunAssumption DEF Steps
  <2>2. Lifecycle!Cancel
    BY <1>1, <1>4, <2>1, StateLikeBundle, BecomeLikeBundle, SameRecord
         DEF Lifecycle!Cancel
  <2> QED BY <2>2 DEF Lifecycle!LifeNext
<1>5. ASSUME NEW s \in Steps, ResumeTarget(Bundle, s), Bundle' = ResumeRun(Bundle, s)
      PROVE  Lifecycle!LifeNext
  <2>1. Lifecycle!Resume(s)
    BY <1>1, <1>5, StateLikeBundle, BecomeLikeBundle, SameRecord
         DEF Lifecycle!Resume
  <2> QED BY <2>1, SameRecord DEF Lifecycle!LifeNext
<1>6. CASE Running(Bundle) # {} /\ Bundle' = RecoverRun(Bundle)
  <2>1. 1 \in Steps BY RunAssumption DEF Steps
  <2>2. Lifecycle!Recover
    BY <1>1, <1>6, <2>1, StateLikeBundle, BecomeLikeBundle, SameRecord
         DEF Lifecycle!Recover
  <2> QED BY <2>2 DEF Lifecycle!LifeNext
<1> QED BY <1>2, <1>3, <1>4, <1>5, <1>6 DEF LifeChange, Intervene

LEMMA InitRefines == Init => Lifecycle!LifeInit
<1> SUFFICES ASSUME Init PROVE Lifecycle!LifeInit OBVIOUS
<1>1. PICK initial \in [Steps -> InitialStatuses] :
        file = [revision |-> 1, bundle |-> [Blank.bundle EXCEPT !.step = initial]]
  BY DEF Init
<1> QED BY <1>1, SameRecord DEF Lifecycle!LifeInit, Blank

\* Hosts, leases, heartbeats, crashes and operators together implement the life of a
\* run: every stored change is a start, outcome, pause or resume of the step whose turn
\* it is, a cancellation or a recovery of the run as stored at that moment.
THEOREM LifecycleImplemented == ASSUME ~CommitWindow PROVE Spec => ImplementsLifecycle
<1>1. IInv /\ [Next]_vars => [Lifecycle!LifeNext]_(Lifecycle!life)
  BY NextEffect, LifeChangeRefines DEF IInv, Effect
<1> QED
  BY <1>1, InitRefines, InvHolds, PTL DEF Spec, ImplementsLifecycle, Lifecycle!LifeSpec
================================================================================
