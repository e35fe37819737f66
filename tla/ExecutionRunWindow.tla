--------------------------- MODULE ExecutionRunWindow ---------------------------
(***************************************************************************)
(* What stays true of a stored run when the revision check and the rename  *)
(* of writeRecord are separate steps (CommitWindow = TRUE).                *)
(*                                                                         *)
(* Two writers can then pass the check of the same revision, the second to *)
(* rename undoes the first, and a late rename can bring back a record of   *)
(* long ago: cancellations and outcomes are lost.  What is not lost is the *)
(* coherence of each single record, because a writer derives what it       *)
(* stores from one record it has read and tests the step in that same      *)
(* record first.  So the invariant is about every record anybody holds,    *)
(* and no relation between two of them is needed.                          *)
(***************************************************************************)
EXTENDS ExecutionRunProofs

\* SuccessIsComplete and OnlyPausedStepsResume, of any bundle
Coherent(b) ==
    /\ b.run = "succeeded" <=> \A s \in Steps : b.step[s] = "succeeded"
    /\ \A s \in Steps : b.escalated[s] => b.step[s] = "cancelled"

\* the file and every record an actor or a heartbeat works from is coherent
CoherentRecords ==
    /\ Coherent(Bundle)
    /\ \A a \in Actors : Coherent(seen[a].bundle)
    /\ \A e \in Executors : Coherent(beatSeen[e].bundle)

--------------------------------------------------------------------------------
\* Each transition of runner.ts keeps a bundle coherent, under the condition its
\* caller has tested.
LEMMA TransitionsKeepCoherence ==
    ASSUME NEW b \in Bundles, Coherent(b), NEW s \in Steps
    PROVE  /\ CanStart(b, s) => Coherent(StartStep(b, s))
           /\ CanSucceed(b, s) => Coherent(SucceedStep(b, s))
           /\ CanFail(b, s) => Coherent(FailStep(b, s))
           /\ CanSucceed(b, s) => Coherent(PauseStep(b, s))
           /\ ResumeTarget(b, s) => Coherent(ResumeRun(b, s))
<1> USE DEF Coherent, Bundles
<1>1. CanStart(b, s) => Coherent(StartStep(b, s))
  BY DEF CanStart, Dispatchable, StartStep
<1>2. CanSucceed(b, s) => Coherent(SucceedStep(b, s))
  BY DEF CanSucceed, SucceedStep
<1>3. CanFail(b, s) => Coherent(FailStep(b, s))
  BY DEF CanFail, Failable, FailStep
<1>4. CanSucceed(b, s) => Coherent(PauseStep(b, s))
  BY DEF CanSucceed, PauseStep
<1>5. ResumeTarget(b, s) => Coherent(ResumeRun(b, s))
  BY DEF ResumeTarget, ResumeRun
<1> QED BY <1>1, <1>2, <1>3, <1>4, <1>5

LEMMA RunChangesKeepCoherence ==
    ASSUME NEW b \in Bundles, Coherent(b)
    PROVE  /\ CanCancel(b) => Coherent(CancelRun(b))
           /\ Running(b) # {} => Coherent(RecoverRun(b))
<1> USE DEF Coherent, Bundles
<1>1. CanCancel(b) => Coherent(CancelRun(b)) BY DEF CanCancel, CancelRun, Mutable
<1>2. Running(b) # {} => Coherent(RecoverRun(b)) BY DEF Running, RecoverRun
<1> QED BY <1>1, <1>2

\* The lease transitions of lease.ts look at no step.
LEMMA LeasesKeepCoherence ==
    ASSUME NEW b \in Bundles, Coherent(b), NEW id, NEW h, NEW t
    PROVE  /\ Coherent(AcquireLease(b, id, h, t))
           /\ Coherent(HeartbeatLease(b, t))
           /\ Coherent(ReleaseLease(b))
           /\ Coherent(ExpireLeases(b, t))
BY DEF Coherent, Bundles, AcquireLease, HeartbeatLease, ReleaseLease, ExpireLeases

LEMMA BlankCoherent == Coherent(Blank.bundle)
<1>1. 1 \in Steps BY RunAssumption DEF Steps
<1> QED BY <1>1 DEF Blank, Coherent

--------------------------------------------------------------------------------
\* a step of actor a stores and remembers coherent records only
StaysCoherent(a) ==
    /\ \A x \in Actors \ {a} : seen'[x] = seen[x]
    /\ seen'[a] \in {Blank, seen[a], file, file'}
    /\ file' = file \/ Coherent(file'.bundle)
    /\ UNCHANGED beatSeen

LEMMA CoherentStep ==
    ASSUME CoherentRecords, NEW a \in Actors, StaysCoherent(a)
    PROVE  CoherentRecords'
<1>1. Coherent(file'.bundle) BY DEF CoherentRecords, StaysCoherent, Bundle
<1>2. ASSUME NEW x \in Actors PROVE Coherent(seen'[x].bundle)
  <2>1. CASE x = a
    BY <1>1, <2>1, BlankCoherent DEF CoherentRecords, StaysCoherent, Bundle
  <2>2. CASE x # a BY <2>2 DEF CoherentRecords, StaysCoherent
  <2> QED BY <2>1, <2>2
<1>3. \A e \in Executors : Coherent(beatSeen'[e].bundle)
  BY DEF CoherentRecords, StaysCoherent
<1> QED BY <1>1, <1>2, <1>3 DEF CoherentRecords, Bundle, Coherent

\* A write stores what it was given or nothing, whatever was renamed meanwhile.
LEMMA CoherentWrite ==
    ASSUME Typed, CoherentRecords, NEW a \in Actors, NEW b \in Bundles, Coherent(b),
           NEW ok \in SUBSET Pcs, NEW bad \in Pcs,
           Write(a, b, ok, bad), UNCHANGED beatSeen
    PROVE  CoherentRecords'
<1>1. /\ OthersKeep(a)
      /\ \/ \E l \in ok : Landed(a, b, l)
         \/ Refused(a, bad)
         \/ UNCHANGED <<file, pc, seen, mine, step>>
  BY WriteTypes DEF Typed
<1>2. seen'[a] \in {Blank, seen[a], file'} /\ (file' = file \/ file'.bundle = b)
  BY <1>1 DEF Landed, Refused
<1>3. StaysCoherent(a) BY <1>1, <1>2 DEF StaysCoherent, OthersKeep
<1> QED BY <1>3, CoherentStep

LEMMA CoherentMove ==
    ASSUME Typed, CoherentRecords, NEW a \in Actors, UNCHANGED <<file, beatSeen>>,
           Done(a) \/ \E l : Read(a, l) \/ Goto(a, l)
    PROVE  CoherentRecords'
<1>1. StaysCoherent(a)
  BY DEF StaysCoherent, Done, Read, Goto, Continue, Typed, TypeOK
<1> QED BY <1>1, CoherentStep

--------------------------------------------------------------------------------
LEMMA CoherentDrain ==
    ASSUME Typed, CoherentRecords, NEW e \in Executors, Drain(e)
    PROVE  CoherentRecords'
<1> USE DEF Pcs, ExecutorPcs
<1> DEFINE b == seen[e].bundle
<1>1. e \in Actors BY DEF Actors
<1>2. b \in Bundles /\ Coherent(b) /\ clock \in Nat /\ SeenGuard(e)
  BY <1>1 DEF Typed, TypeOK, PcsAndGuards, Records, CoherentRecords
<1>3. CASE SweepRun(e) BY <1>1, <1>3, CoherentMove DEF SweepRun
<1>4. CASE ExpireLease(e)
  <2>1. ExpireLeases(b, clock) \in Bundles BY <1>2 DEF ExpireLeases, Bundles
  <2>2. Coherent(ExpireLeases(b, clock)) BY <1>2, LeasesKeepCoherence
  <2> QED BY <1>1, <1>4, <2>1, <2>2, CoherentWrite DEF ExpireLease
<1>5. CASE InspectRun(e) BY <1>1, <1>5, CoherentMove DEF InspectRun
<1>6. CASE RecoverStranded(e)
  <2>1. RecoverRun(b) \in Bundles
    BY <1>2, RunTransitionTypes
  <2>2. Coherent(RecoverRun(b))
    BY <1>2, <1>6, RunChangesKeepCoherence DEF RecoverStranded, SeenGuard
  <2>3. PICK l \in {"reread", "idle"} : Write(e, RecoverRun(b), {"execute"}, l)
    BY <1>6 DEF RecoverStranded
  <2> QED BY <1>1, <1>6, <2>1, <2>2, <2>3, CoherentWrite DEF RecoverStranded
<1>7. CASE RereadStranded(e) BY <1>1, <1>7, CoherentMove DEF RereadStranded
<1> QED BY <1>3, <1>4, <1>5, <1>6, <1>7 DEF Drain

\* Every outcome an executor stores is one the record it works from allows.
LEMMA CoherentExecute ==
    ASSUME Typed, CoherentRecords, NEW e \in Executors, Execute(e)
    PROVE  CoherentRecords'
<1> USE DEF Pcs, ExecutorPcs
<1> DEFINE b == seen[e].bundle
           s == step[e]
<1>1. e \in Actors BY DEF Actors
<1>2. /\ b \in Bundles /\ Coherent(b) /\ clock \in Nat /\ SeenGuard(e)
      /\ HostOf[e] \in Hosts
      /\ pc[e] \in Engaged => s \in Steps
  BY <1>1, ExecutionAssumption
     DEF Typed, TypeOK, PcsAndGuards, Records, CoherentRecords
<1>3. ASSUME ChooseStep(e) \/ RequestLease(e) \/ RenewLease(e) \/ ActivityNotRecorded(e)
             \/ StepReturns(e) \/ StepThrows(e) \/ CatchError(e) \/ FinallyRelease(e)
      PROVE  CoherentRecords'
  BY <1>1, <1>3, CoherentMove
     DEF ChooseStep, RequestLease, RenewLease, ActivityNotRecorded, StepReturns,
         StepThrows, CatchError, FinallyRelease
<1>4. ASSUME NEW c \in Bundles, NEW ok \in SUBSET Pcs, NEW bad \in Pcs,
             Write(e, c, ok, bad), UNCHANGED beatSeen, s \in Steps,
             \/ CanStart(b, s) /\ c = StartStep(b, s)
             \/ CanSucceed(b, s) /\ c = SucceedStep(b, s)
             \/ CanFail(b, s) /\ c = FailStep(b, s)
             \/ CanSucceed(b, s) /\ c = PauseStep(b, s)
      PROVE  CoherentRecords'
  <2>1. Coherent(c) BY <1>2, <1>4, TransitionsKeepCoherence
  <2> HIDE DEF Pcs
  <2> QED BY <1>1, <1>4, <2>1, CoherentWrite
<1>5. pc[e] \in Engaged =>
        {StartStep(b, s), SucceedStep(b, s), FailStep(b, s), PauseStep(b, s)}
          \subseteq Bundles
  BY <1>2, StepTransitionTypes
<1>6. CASE FailOnLimit(e)
  BY <1>2, <1>4, <1>5, <1>6 DEF FailOnLimit, SeenGuard, Engaged
<1>7. CASE TakeLease(e)
  <2>1. PICK t \in {clock, clock + 1} :
          Write(e, AcquireLease(b, mine[e], HostOf[e], t), {"start"}, "idle")
    BY <1>7 DEF TakeLease
  <2>2. mine[e] \in LeaseIds
    BY <1>1, <1>2, <1>7 DEF TakeLease, SeenGuard, Typed, TypeOK
  <2>3. AcquireLease(b, mine[e], HostOf[e], t) \in Bundles
    BY <1>2, <2>2 DEF AcquireLease, Bundles, Leases
  <2>4. Coherent(AcquireLease(b, mine[e], HostOf[e], t)) BY <1>2, LeasesKeepCoherence
  <2> QED BY <1>1, <1>7, <2>1, <2>3, <2>4, CoherentWrite DEF TakeLease
<1>8. CASE AdoptLease(e)
  <2>1. PICK t \in {clock, clock + 1} :
          Write(e, HeartbeatLease(b, t), {"start"}, "idle")
    BY <1>8 DEF AdoptLease
  <2>2. HeartbeatLease(b, t) \in Bundles
    BY <1>2, <1>8 DEF AdoptLease, SeenGuard, HeartbeatLease, Bundles, Leases
  <2>3. Coherent(HeartbeatLease(b, t)) BY <1>2, LeasesKeepCoherence
  <2> QED BY <1>1, <1>8, <2>1, <2>2, <2>3, CoherentWrite DEF AdoptLease
<1>9. CASE BeginStep(e)
  <2>1. CASE Goto(e, "catch") /\ UNCHANGED <<file, checked>>
    BY <1>1, <1>9, <2>1, CoherentMove DEF BeginStep
  <2>2. CASE /\ CanStart(b, s)
             /\ Write(e, StartStep(b, s), {"executing", "pause", "escalate"}, "catch")
    BY <1>2, <1>4, <1>5, <1>9, <2>2 DEF BeginStep, Engaged
  <2> QED BY <1>9, <2>1, <2>2 DEF BeginStep
<1>10. CASE PauseForHuman(e)
  BY <1>2, <1>4, <1>5, <1>10 DEF PauseForHuman, SeenGuard, Engaged
<1>11. CASE FailForHuman(e)
  <2>1. CanFail(b, s)
    BY <1>2, <1>11 DEF FailForHuman, SeenGuard, CanSucceed, CanFail, Failable
  <2> QED BY <1>2, <1>4, <1>5, <1>11, <2>1 DEF FailForHuman, Engaged
<1>12. CASE CompleteStep(e)
  <2>1. CASE Goto(e, "catch") /\ UNCHANGED <<file, checked>>
    BY <1>1, <1>12, <2>1, CoherentMove DEF CompleteStep
  <2>2. CASE CanSucceed(b, s) /\ Write(e, SucceedStep(b, s), {"release"}, "catch")
    BY <1>2, <1>4, <1>5, <1>12, <2>2 DEF CompleteStep, Engaged
  <2> QED BY <1>12, <2>1, <2>2 DEF CompleteStep
<1>13. CASE FailIncomplete(e)
  <2>1. CASE Goto(e, "catch") /\ UNCHANGED <<file, checked>>
    BY <1>1, <1>13, <2>1, CoherentMove DEF FailIncomplete
  <2>2. CASE CanFail(b, s) /\ Write(e, FailStep(b, s), {"release"}, "catch")
    BY <1>2, <1>4, <1>5, <1>13, <2>2 DEF FailIncomplete, Engaged
  <2> QED BY <1>13, <2>1, <2>2 DEF FailIncomplete
<1>14. CASE FailCaught(e)
  BY <1>2, <1>4, <1>5, <1>14 DEF FailCaught, SeenGuard, Engaged
<1>15. CASE GiveUpLease(e)
  <2>1. ReleaseLease(b) \in Bundles BY <1>2 DEF ReleaseLease, Bundles
  <2>2. Coherent(ReleaseLease(b)) BY <1>2, LeasesKeepCoherence
  <2> QED BY <1>1, <1>15, <2>1, <2>2, CoherentWrite DEF GiveUpLease
<1> QED
  BY <1>3, <1>6, <1>7, <1>8, <1>9, <1>10, <1>11, <1>12, <1>13, <1>14, <1>15
     DEF Execute

\* A heartbeat renews the lease of the record it read, coherent as that was.
LEMMA CoherentHeartbeat ==
    ASSUME Typed, CoherentRecords, NEW e \in Executors, Heartbeat(e)
    PROVE  CoherentRecords'
<1>1. beatSeen[e].bundle \in Bundles /\ Coherent(beatSeen[e].bundle)
  BY DEF Typed, TypeOK, Records, CoherentRecords
<1>2. seen' = seen /\ beatSeen \in [Executors -> Records]
  BY DEF Heartbeat, BeatRead, BeatWrite, Typed, TypeOK
<1>3. file' = file \/ Coherent(file'.bundle)
  <2>1. CASE BeatLands(e) BY <1>1, <2>1, LeasesKeepCoherence DEF BeatLands
  <2>2. CASE ~BeatLands(e) BY <2>2 DEF Heartbeat, BeatRead, BeatWrite
  <2> QED BY <2>1, <2>2
<1>4. \A x \in Executors : beatSeen'[x] \in {beatSeen[x], file, Blank}
  BY <1>2 DEF Heartbeat, BeatRead, BeatWrite, BeatLands, BeatEnds
<1> QED BY <1>2, <1>3, <1>4, BlankCoherent DEF CoherentRecords, Bundle, Coherent

\* The operator controls test what they cancel or resume in the record they write.
LEMMA CoherentOperate ==
    ASSUME Typed, CoherentRecords, NEW o \in Operators, Operate(o)
    PROVE  CoherentRecords'
<1> USE DEF Pcs, OperatorPcs
<1> DEFINE b == seen[o].bundle
<1>1. o \in Actors BY DEF Actors
<1>2. /\ b \in Bundles /\ Coherent(b) /\ clock \in Nat /\ SeenGuard(o)
      /\ HostOf[o] \in Hosts
  BY <1>1, ExecutionAssumption
     DEF Typed, TypeOK, PcsAndGuards, Records, CoherentRecords
<1>3. CASE \/ CancelUnleased(o) \/ CancelLeased(o) \/ ResumeHumanEscalation(o)
           \/ SchedulerClaim(o) \/ RepairStaleHeartbeat(o) \/ NoteRun(o)
           \/ CancelRelease(o)
  BY <1>1, <1>3, CoherentMove
     DEF CancelUnleased, CancelLeased, ResumeHumanEscalation, SchedulerClaim,
         RepairStaleHeartbeat, NoteRun, CancelRelease, Control
<1>4. ASSUME NEW c \in Bundles, NEW l \in {"idle", "cancelRelease"}, Coherent(c),
             Write(o, c, {l}, "idle"), UNCHANGED beatSeen
      PROVE  CoherentRecords'
  <2>1. {l} \in SUBSET Pcs /\ "idle" \in Pcs OBVIOUS
  <2> HIDE DEF Pcs
  <2> QED BY <1>1, <1>4, <2>1, CoherentWrite
<1>5. CASE ControlWrite(o)
  <2>1. beatSeen' = beatSeen BY <1>5 DEF ControlWrite
  <2>2. CASE /\ CanCancel(b)
             /\ \E l \in {"idle", "cancelRelease"} : Write(o, CancelRun(b), {l}, "idle")
    <3>1. CancelRun(b) \in Bundles BY <1>2, RunTransitionTypes
    <3> QED BY <1>2, <1>4, <2>1, <2>2, <3>1, RunChangesKeepCoherence
  <2>3. ASSUME NEW s \in Steps, ResumeTarget(b, s),
               Write(o, ResumeRun(b, s), {"idle"}, "idle")
        PROVE  CoherentRecords'
    <3>1. ResumeRun(b, s) \in Bundles /\ Coherent(ResumeRun(b, s))
      BY <1>2, <2>3, StepTransitionTypes, TransitionsKeepCoherence
    <3> QED BY <1>4, <2>1, <2>3, <3>1
  <2>4. ASSUME NEW t \in {clock, clock + 1}, pc[o] = "claim",
               Write(o, AcquireLease(b, mine[o], HostOf[o], t), {"idle"}, "idle")
        PROVE  CoherentRecords'
    <3>1. mine[o] \in LeaseIds BY <1>1, <1>2, <2>4 DEF SeenGuard, Typed, TypeOK
    <3>2. AcquireLease(b, mine[o], HostOf[o], t) \in Bundles
      BY <1>2, <3>1 DEF AcquireLease, Bundles, Leases
    <3>3. Coherent(AcquireLease(b, mine[o], HostOf[o], t)) BY <1>2, LeasesKeepCoherence
    <3> QED BY <1>4, <2>1, <2>4, <3>2, <3>3
  <2>5. CASE \/ Write(o, ReleaseLease(b), {"idle"}, "idle")
             \/ Write(o, ExpireLeases(b, clock), {"idle"}, "idle")
             \/ Write(o, b, {"idle"}, "idle")
    <3>1. ReleaseLease(b) \in Bundles /\ ExpireLeases(b, clock) \in Bundles
      BY <1>2 DEF ReleaseLease, ExpireLeases, Bundles
    <3>2. Coherent(ReleaseLease(b)) /\ Coherent(ExpireLeases(b, clock))
      BY <1>2, LeasesKeepCoherence
    <3> QED BY <1>2, <1>4, <2>1, <2>5, <3>1, <3>2
  <2> QED BY <1>2, <1>5, <2>2, <2>3, <2>4, <2>5 DEF ControlWrite, SeenGuard
<1> QED BY <1>3, <1>5 DEF Operate

LEMMA CoherentEnvironment ==
    ASSUME CoherentRecords, LeaseLapses \/ \E h \in Hosts : Crash(h) \/ Restart(h)
    PROVE  CoherentRecords'
<1>1. CASE LeaseLapses \/ \E h \in Hosts : Restart(h)
  <2>1. UNCHANGED <<file, seen, beatSeen>> BY <1>1 DEF LeaseLapses, Restart
  <2> QED BY <2>1 DEF CoherentRecords, Bundle
<1>2. ASSUME NEW h \in Hosts, Crash(h) PROVE CoherentRecords'
  <2>1. /\ file' = file
        /\ \A a \in Actors : seen'[a] \in {seen[a], Blank}
        /\ \A e \in Executors : beatSeen'[e] \in {beatSeen[e], Blank}
    BY <1>2 DEF Crash
  <2>2. /\ \A a \in Actors : Coherent(seen'[a].bundle)
        /\ \A e \in Executors : Coherent(beatSeen'[e].bundle)
    BY <2>1, BlankCoherent DEF CoherentRecords
  <2> QED BY <2>1, <2>2 DEF CoherentRecords, Coherent, Bundle
<1> QED BY <1>1, <1>2

LEMMA CoherentInit == Init => CoherentRecords
<1> SUFFICES ASSUME Init PROVE CoherentRecords OBVIOUS
<1>1. PICK initial \in [Steps -> InitialStatuses] :
        file = [revision |-> 1, bundle |-> [Blank.bundle EXCEPT !.step = initial]]
  BY DEF Init
<1>2. /\ Bundle.run = "planned"
      /\ \A s \in Steps : ~Bundle.escalated[s] /\ Bundle.step[s] \in InitialStatuses
  BY <1>1 DEF Blank, Bundle
<1>3. 1 \in Steps /\ "succeeded" \notin InitialStatuses
  BY RunAssumption, ExecutionAssumption DEF Steps
<1>4. Coherent(Bundle) BY <1>2, <1>3 DEF Coherent
<1>5. /\ \A a \in Actors : seen[a] = Blank
      /\ \A e \in Executors : beatSeen[e] = Blank
  BY DEF Init
<1> QED BY <1>4, <1>5, BlankCoherent DEF CoherentRecords

LEMMA CoherentNext == Typed /\ CoherentRecords /\ [Next]_vars => CoherentRecords'
<1> SUFFICES ASSUME Typed, CoherentRecords, [Next]_vars PROVE CoherentRecords' OBVIOUS
<1>1. CASE \E e \in Executors : Drain(e) \/ Execute(e) \/ Heartbeat(e)
  BY <1>1, CoherentDrain, CoherentExecute, CoherentHeartbeat
<1>2. CASE \E o \in Operators : Operate(o) BY <1>2, CoherentOperate
<1>3. CASE LeaseLapses \/ \E h \in Hosts : Crash(h) \/ Restart(h)
  BY <1>3, CoherentEnvironment
<1>4. CASE UNCHANGED vars BY <1>4 DEF vars, CoherentRecords, Coherent, Bundle
<1> QED BY <1>1, <1>2, <1>3, <1>4 DEF Next

\* Every record that is stored, read or about to be written is coherent, whether or
\* not the revision check and the rename of two writes overlap.
THEOREM CoherentHolds == Spec => [](Typed /\ CoherentRecords)
<1>1. Init => Typed /\ CoherentRecords BY TypedInit, CoherentInit
<1>2. (Typed /\ CoherentRecords) /\ [Next]_vars => (Typed /\ CoherentRecords)'
  BY TypedNext, CoherentNext
<1> QED BY <1>1, <1>2, PTL DEF Spec

\* writeRecord may lose a cancellation or an outcome to an overlapping write, but no
\* stored run claims success with a step outstanding or hides that all succeeded.
THEOREM SuccessIsCompleteHolds == Spec => []SuccessIsComplete
<1>1. CoherentRecords => SuccessIsComplete
  BY DEF CoherentRecords, Coherent, SuccessIsComplete
<1> QED BY <1>1, CoherentHolds, PTL

\* resumeExecutionRunAfterHumanEscalation never finds a resumable mark on a step that
\* is not paused, even when a late rename has brought an older record back.
THEOREM OnlyPausedStepsResumeHolds == Spec => []OnlyPausedStepsResume
<1>1. CoherentRecords => OnlyPausedStepsResume
  BY DEF CoherentRecords, Coherent, OnlyPausedStepsResume
<1> QED BY <1>1, CoherentHolds, PTL
================================================================================
