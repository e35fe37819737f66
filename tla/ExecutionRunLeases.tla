--------------------------- MODULE ExecutionRunLeases ---------------------------
(***************************************************************************)
(* A lease that has not lapsed is taken from nobody (LiveLeaseIsKept).     *)
(*                                                                         *)
(* Four kinds of write end a lease or replace it: a release, a sweep or    *)
(* repair, an acquisition and a scheduler claim.  Each is prepared by an   *)
(* earlier read, which found that the lease is the writer's own, that it   *)
(* has lapsed, or that there is none (LeaseGuard).  With compare-and-swap  *)
(* writes that record is still the file when the write lands, and time     *)
(* only makes a lapsed lease older.  That the lease an actor works under   *)
(* belongs to the actor's host takes an invariant of its own: the id names *)
(* the actor that created it, and hosts adopt only leases they own.        *)
(***************************************************************************)
EXTENDS ExecutionRunSafety

\* what a's read has established about the lease it is about to write
LeaseGuard(a) ==
    LET b == seen[a].bundle IN
    /\ pc[a] \in {"releaseWrite", "cancelReleaseWrite"} => HoldsLease(b, mine[a])
    /\ pc[a] = "acquireWrite" => b.lease = NoLease
    /\ pc[a] = "claim" => b.lease = NoLease \/ Lapsed(b, clock)

\* the actor a lease id is named after runs in the host that owns the lease
OwnLease(a) == mine[a] # NoLease => HostOf[mine[a][1]] = HostOf[a]

LeaseOwned ==
    /\ Bundle.lease # NoLease => Bundle.lease.owner = HostOf[Bundle.lease.id[1]]
    /\ \A a \in Actors : OwnLease(a) /\ LeaseGuard(a)

LInv == IInv /\ LeaseOwned

--------------------------------------------------------------------------------
(***************************************************************************)
(* What a step of one actor does to the lease.                             *)
(***************************************************************************)

\* the lease stays, or is renewed
SameLease ==
    \/ Bundle'.lease = Bundle.lease
    \/ /\ Bundle.lease # NoLease /\ Bundle'.lease # NoLease
       /\ Bundle'.lease.id = Bundle.lease.id
       /\ Bundle'.lease.owner = Bundle.lease.owner

\* it ends because it has lapsed or because the actor that works under it gives it up
EndsLease(a) ==
    /\ Bundle'.lease = NoLease
    /\ \/ Lapsed(Bundle, clock)
       \/ HoldsLease(Bundle, mine[a]) /\ pc'[a] # pc[a]

\* the actor's own lease takes the place of none or of a lapsed one
TakesLease(a) ==
    /\ Bundle.lease = NoLease \/ Lapsed(Bundle, clock)
    /\ Bundle'.lease.id = mine[a] /\ Bundle'.lease.owner = HostOf[a]
    /\ mine[a] # NoLease

LeaseChange(a) == SameLease \/ EndsLease(a) \/ TakesLease(a)

LeaseStep(a) ==
    /\ OthersKeep(a) /\ LeaseChange(a) /\ OwnLease(a)' /\ LeaseGuard(a)'
    /\ clock' = clock

\* the change LiveLeaseIsKept allows
LeaseKept ==
    Bundle.lease # NoLease /\ Bundle.lease.expiresAt > clock
      /\ (Bundle'.lease = NoLease \/ Bundle'.lease.id # Bundle.lease.id)
    => \E a \in Actors : HostOf[a] = Bundle.lease.owner /\ pc'[a] # pc[a]

LeaseSafe == LeaseOwned' /\ LeaseKept

LEMMA LeaseStepIsSafe ==
    ASSUME Typed, LeaseOwned, NEW a \in Actors, LeaseStep(a)
    PROVE  LeaseSafe
<1>1. Bundle'.lease # NoLease => Bundle'.lease.owner = HostOf[Bundle'.lease.id[1]]
  BY DEF LeaseStep, LeaseChange, SameLease, EndsLease, TakesLease, LeaseOwned, OwnLease
<1>2. ASSUME NEW x \in Actors PROVE OwnLease(x)' /\ LeaseGuard(x)'
  <2>1. CASE x = a BY <2>1 DEF LeaseStep
  <2>2. CASE x # a
    BY <2>2 DEF LeaseStep, OthersKeep, LeaseOwned, OwnLease, LeaseGuard
  <2> QED BY <2>1, <2>2
<1>3. LeaseOwned' BY <1>1, <1>2 DEF LeaseOwned, Bundle
<1>4. Bundle.lease # NoLease => Bundle.lease.expiresAt \in Nat
  BY DEF Typed, TypeOK, Records, Bundles, Leases, Bundle
<1>5. LeaseKept
  <2>1. CASE SameLease BY <2>1 DEF SameLease, LeaseKept
  <2>2. CASE Bundle.lease = NoLease \/ Lapsed(Bundle, clock)
    BY <1>4, <2>2 DEF Lapsed, LeaseKept, Typed, TypeOK
  <2>3. CASE HoldsLease(Bundle, mine[a]) /\ pc'[a] # pc[a]
    <3>1. Bundle.lease \in Leases /\ mine[a] = Bundle.lease.id
      BY <2>3 DEF HoldsLease, Typed, TypeOK, Records, Bundles, Bundle
    <3>2. mine[a] # NoLease BY <3>1, LeaseAssumption DEF Leases
    <3>3. HostOf[a] = Bundle.lease.owner
      BY <2>3, <3>1, <3>2 DEF HoldsLease, LeaseOwned, OwnLease
    <3> QED BY <2>3, <3>3 DEF LeaseKept
  <2> QED BY <2>1, <2>2, <2>3 DEF LeaseStep, LeaseChange, EndsLease, TakesLease
<1> QED BY <1>3, <1>5 DEF LeaseSafe

\* the pcs at which LeaseGuard asks for nothing
Unguarded == Pcs \ {"releaseWrite", "cancelReleaseWrite", "acquireWrite", "claim"}

\* A compare-and-swap stores what is derived from the file, and continues unguarded.
LEMMA LeaseWrite ==
    ASSUME Typed, WritesAreChecked, LeaseOwned, ~CommitWindow,
           NEW a \in Actors, NEW b \in Bundles,
           NEW ok \in SUBSET Unguarded, NEW bad \in Unguarded,
           Write(a, b, ok, bad), clock' = clock, pc[a] \notin ok,
           seen[a].bundle = Bundle /\ Bundle' = b /\ pc'[a] # pc[a] => LeaseChange(a)
    PROVE  LeaseSafe
<1>1. TypeOK /\ Unguarded \subseteq Pcs BY DEF Typed, Unguarded
<1>2. OthersKeep(a) /\ ActorTypes BY <1>1, WriteTypes
<1>3. ~checked[a] /\ Faithful(seen[a]) BY DEF WritesAreChecked
<1>4. OwnLease(a) BY DEF LeaseOwned
<1>5. CASE file.revision = seen[a].revision /\ \E l \in ok : Land(a, b, l)
  <2>1. PICK l \in ok : Land(a, b, l) BY <1>5
  <2>2. seen[a].bundle = Bundle /\ Bundle' = b
    BY <1>3, <1>5, <2>1 DEF Land, Faithful, Bundle
  <2>3. pc'[a] = l /\ mine'[a] \in {mine[a], NoLease}
    BY <1>1, <2>1 DEF Land, Done, Continue, TypeOK
  <2>4. OwnLease(a)' BY <1>4, <2>3 DEF OwnLease
  <2>5. LeaseGuard(a)' BY <2>1, <2>3 DEF LeaseGuard, Unguarded
  <2> QED BY <1>2, <2>2, <2>3, <2>4, <2>5, LeaseStepIsSafe DEF LeaseStep
<1>6. CASE file' = file /\ Goto(a, bad)
  <2>1. pc'[a] = bad /\ mine'[a] \in {mine[a], NoLease}
    BY <1>1, <1>6 DEF Goto, Done, Continue, TypeOK
  <2>2. OwnLease(a)' BY <1>4, <2>1 DEF OwnLease
  <2>3. LeaseGuard(a)' BY <2>1 DEF LeaseGuard, Unguarded
  <2> QED BY <1>2, <1>6, <2>2, <2>3, LeaseStepIsSafe
          DEF LeaseStep, LeaseChange, SameLease, Bundle
<1> QED BY <1>3, <1>5, <1>6 DEF Write

\* A step that leaves the file alone need only establish the guard of its next pc.
LEMMA LeaseRead ==
    ASSUME Typed, LeaseOwned, NEW a \in Actors, NEW l \in Pcs, Read(a, l),
           \/ mine' = mine
           \/ \E m \in LeaseIds : /\ mine' = [mine EXCEPT ![a] = m]
                                  /\ HostOf[m[1]] = HostOf[a],
           step' = step \/ \E s \in Steps : step' = [step EXCEPT ![a] = s],
           UNCHANGED <<file, clock>>,
           l \in {"releaseWrite", "cancelReleaseWrite"} => HoldsLease(Bundle, mine[a])
                                                          /\ mine' = mine,
           l = "acquireWrite" => Bundle.lease = NoLease,
           l = "claim" => Bundle.lease = NoLease \/ Lapsed(Bundle, clock)
    PROVE  LeaseSafe
<1>1. TypeOK BY DEF Typed
<1>2. OthersKeep(a) /\ pc'[a] = l /\ (l \notin Rereads => seen'[a] = file)
  BY <1>1, ReadTypes
<1>3. OwnLease(a)' BY <1>1 DEF TypeOK, LeaseOwned, OwnLease
<1>4. LeaseGuard(a)' BY <1>2 DEF LeaseGuard, Rereads, Bundle, HoldsLease, Lapsed
<1> QED BY <1>2, <1>3, <1>4, LeaseStepIsSafe
        DEF LeaseStep, LeaseChange, SameLease, Bundle

LEMMA LeaseMove ==
    ASSUME Typed, LeaseOwned, NEW a \in Actors, UNCHANGED <<file, clock>>,
           Done(a) \/ Goto(a, "catch")
    PROVE  LeaseSafe
<1>1. TypeOK /\ {"idle", "catch"} \subseteq Pcs BY DEF Typed, Pcs, ExecutorPcs
<1>2. pc'[a] \in {"idle", "catch"} /\ mine'[a] \in {mine[a], NoLease}
  BY <1>1 DEF Done, Goto, Continue, TypeOK
<1>3. OthersKeep(a)
  BY <1>1, MoveTypes, BlankType DEF Goto, TypeOK
<1>4. OwnLease(a)' BY <1>2 DEF LeaseOwned, OwnLease
<1>5. LeaseGuard(a)' BY <1>2 DEF LeaseGuard
<1> QED BY <1>3, <1>4, <1>5, LeaseStepIsSafe
        DEF LeaseStep, LeaseChange, SameLease, Bundle

--------------------------------------------------------------------------------
(***************************************************************************)
(* Every step, action by action.                                           *)
(***************************************************************************)
LEMMA LeaseDrain ==
    ASSUME IInv, LeaseOwned, ~CommitWindow, NEW e \in Executors, Drain(e)
    PROVE  LeaseSafe
<1> USE DEF Pcs, ExecutorPcs, Unguarded
<1> DEFINE b == seen[e].bundle
<1>1. e \in Actors /\ Typed /\ TypeOK /\ WritesAreChecked BY DEF Actors, IInv, Typed
<1>2. b \in Bundles /\ Bundle \in Bundles /\ clock \in Nat
  BY <1>1 DEF TypeOK, Records, Bundle
<1>3. CASE SweepRun(e)
  <2>1. PICK l \in {"expire", "inspect"} : Read(e, l) BY <1>3 DEF SweepRun
  <2> QED BY <1>1, <1>3, <2>1, LeaseRead DEF SweepRun
<1>4. CASE ExpireLease(e)
  <2>1. ExpireLeases(b, clock) \in Bundles BY <1>2 DEF ExpireLeases, Bundles
  <2>2. b = Bundle /\ Bundle' = ExpireLeases(b, clock) => LeaseChange(e)
    BY <1>2 DEF ExpireLeases, LeaseChange, SameLease, EndsLease, Bundles
  <2> QED BY <1>1, <1>4, <2>1, <2>2, LeaseWrite DEF ExpireLease
<1>5. CASE InspectRun(e)
  <2>1. CASE Done(e) BY <1>1, <1>5, <2>1, LeaseMove DEF InspectRun
  <2>2. CASE /\ Bundle.lease # NoLease /\ Bundle.lease.owner = HostOf[e]
             /\ mine' = [mine EXCEPT ![e] = Bundle.lease.id]
             /\ Read(e, "execute") /\ UNCHANGED step
    <3>1. Bundle.lease.id \in LeaseIds /\ HostOf[Bundle.lease.id[1]] = HostOf[e]
      BY <1>2, <2>2 DEF Bundles, Leases, LeaseOwned
    <3> QED BY <1>1, <1>5, <2>2, <3>1, LeaseRead DEF InspectRun
  <2>3. CASE (\E l \in {"execute", "recover"} : Read(e, l)) /\ UNCHANGED <<mine, step>>
    BY <1>1, <1>5, <2>3, LeaseRead DEF InspectRun
  <2> QED BY <1>5, <2>1, <2>2, <2>3 DEF InspectRun
<1>6. CASE RecoverStranded(e)
  <2>1. RecoverRun(b) \in Bundles
    BY <1>2, RunTransitionTypes
  <2>2. b = Bundle /\ Bundle' = RecoverRun(b) => LeaseChange(e)
    BY <1>2 DEF RecoverRun, LeaseChange, SameLease, Bundles
  <2>3. PICK l \in {"reread", "idle"} : Write(e, RecoverRun(b), {"execute"}, l)
    BY <1>6 DEF RecoverStranded
  <2> QED BY <1>1, <1>6, <2>1, <2>2, <2>3, LeaseWrite DEF RecoverStranded
<1>7. CASE RereadStranded(e)
  <2>1. CASE Done(e) BY <1>1, <1>7, <2>1, LeaseMove DEF RereadStranded
  <2>2. CASE Read(e, "recoverRetry") /\ UNCHANGED <<mine, step>>
    BY <1>1, <1>7, <2>2, LeaseRead DEF RereadStranded
  <2> QED BY <1>7, <2>1, <2>2 DEF RereadStranded
<1> QED BY <1>3, <1>4, <1>5, <1>6, <1>7 DEF Drain

LEMMA LeaseExecute ==
    ASSUME IInv, LeaseOwned, ~CommitWindow, NEW e \in Executors, Execute(e)
    PROVE  LeaseSafe
<1> USE DEF Pcs, ExecutorPcs, Unguarded
<1> DEFINE b == seen[e].bundle
           s == step[e]
<1>1. e \in Actors /\ Typed /\ TypeOK /\ WritesAreChecked BY DEF Actors, IInv, Typed
<1>2. /\ b \in Bundles /\ Bundle \in Bundles /\ clock \in Nat /\ HostOf[e] \in Hosts
      /\ file.revision \in Nat /\ SeenGuard(e) /\ LeaseGuard(e)
      /\ pc[e] \in Engaged => s \in Steps
  BY <1>1, ExecutionAssumption
     DEF TypeOK, Typed, PcsAndGuards, Records, Bundle, LeaseOwned
<1>3. ASSUME NEW c \in Bundles, NEW ok \in SUBSET Unguarded, NEW bad \in Unguarded,
             Write(e, c, ok, bad), clock' = clock, pc[e] \notin ok, c.lease = b.lease
      PROVE  LeaseSafe
  <2>1. b = Bundle /\ Bundle' = c => LeaseChange(e)
    BY <1>3 DEF LeaseChange, SameLease
  <2> HIDE DEF Unguarded
  <2> QED BY <1>1, <1>3, <2>1, LeaseWrite
<1>4. pc[e] \in Engaged =>
        \A c \in {StartStep(b, s), SucceedStep(b, s), FailStep(b, s), PauseStep(b, s)} :
           c \in Bundles /\ c.lease = b.lease
  <2> SUFFICES ASSUME s \in Steps
               PROVE  \A c \in {StartStep(b, s), SucceedStep(b, s), FailStep(b, s),
                               PauseStep(b, s)} : c \in Bundles /\ c.lease = b.lease
    BY <1>2
  <2>1. StartStep(b, s).lease = b.lease BY <1>2 DEF StartStep, Bundles
  <2>2. SucceedStep(b, s).lease = b.lease BY <1>2 DEF SucceedStep, Bundles
  <2>3. FailStep(b, s).lease = b.lease BY <1>2 DEF FailStep, Bundles
  <2>4. PauseStep(b, s).lease = b.lease BY <1>2 DEF PauseStep, Bundles
  <2> QED BY <1>2, <2>1, <2>2, <2>3, <2>4, StepTransitionTypes
<1>5. CASE ChooseStep(e)
  <2>1. CASE Done(e) BY <1>1, <1>5, <2>1, LeaseMove DEF ChooseStep
  <2>2. ASSUME NEW t \in Steps, NEW l \in {"limit", "acquire", "adopt"},
               step' = [step EXCEPT ![e] = t], Read(e, l), UNCHANGED mine
        PROVE  LeaseSafe
    <3>1. l \in Pcs BY <2>2
    <3> QED BY <1>1, <1>5, <2>2, <3>1, LeaseRead DEF ChooseStep
  <2> QED BY <1>5, <2>1, <2>2 DEF ChooseStep
<1>6. CASE FailOnLimit(e) BY <1>3, <1>4, <1>6 DEF FailOnLimit, Engaged
<1>7. CASE RequestLease(e)
  <2>1. CASE Done(e) BY <1>1, <1>7, <2>1, LeaseMove DEF RequestLease
  <2>2. CASE ~Done(e)
    <3>1. <<e, file.revision>> \in LeaseIds BY <1>1, <1>2 DEF LeaseIds
    <3> QED BY <1>1, <1>7, <2>2, <3>1, LeaseRead DEF RequestLease
  <2> QED BY <2>1, <2>2
<1>8. CASE TakeLease(e)
  <2>1. PICK t \in {clock, clock + 1} :
          Write(e, AcquireLease(b, mine[e], HostOf[e], t), {"start"}, "idle")
    BY <1>8 DEF TakeLease
  <2> DEFINE c == AcquireLease(b, mine[e], HostOf[e], t)
  <2>2. mine[e] \in LeaseIds /\ mine[e] # NoLease
    BY <1>1, <1>2, <1>8 DEF TakeLease, SeenGuard, TypeOK
  <2>3. c \in Bundles BY <1>2, <2>2 DEF AcquireLease, Bundles, Leases
  <2>4. b = Bundle /\ Bundle' = c => LeaseChange(e)
    BY <1>2, <1>8, <2>2
       DEF TakeLease, LeaseGuard, AcquireLease, LeaseChange, TakesLease, Bundles
  <2> QED BY <1>1, <1>8, <2>1, <2>3, <2>4, LeaseWrite DEF TakeLease
<1>9. CASE RenewLease(e)
  <2>1. CASE Done(e) BY <1>1, <1>9, <2>1, LeaseMove DEF RenewLease
  <2>2. CASE Read(e, "adoptWrite") /\ UNCHANGED <<mine, step>>
    BY <1>1, <1>9, <2>2, LeaseRead DEF RenewLease
  <2> QED BY <1>9, <2>1, <2>2 DEF RenewLease
<1>10. CASE AdoptLease(e)
  <2>1. PICK t \in {clock, clock + 1} :
          Write(e, HeartbeatLease(b, t), {"start"}, "idle")
    BY <1>10 DEF AdoptLease
  <2> DEFINE c == HeartbeatLease(b, t)
  <2>2. b.lease # NoLease BY <1>2, <1>10 DEF AdoptLease, SeenGuard
  <2>3. c \in Bundles BY <1>2, <2>2 DEF HeartbeatLease, Bundles, Leases
  <2>4. c.lease # NoLease /\ c.lease.id = b.lease.id /\ c.lease.owner = b.lease.owner
    BY <1>2, <2>2, LeaseAssumption DEF HeartbeatLease, Bundles, Leases
  <2>5. b = Bundle /\ Bundle' = c => LeaseChange(e)
    BY <2>2, <2>4 DEF LeaseChange, SameLease
  <2> QED BY <1>1, <1>10, <2>1, <2>3, <2>5, LeaseWrite DEF AdoptLease
<1>11. CASE BeginStep(e)
  <2>1. CASE Goto(e, "catch") /\ UNCHANGED <<file, checked>>
    BY <1>1, <1>11, <2>1, LeaseMove DEF BeginStep
  <2>2. CASE Write(e, StartStep(b, s), {"executing", "pause", "escalate"}, "catch")
    BY <1>3, <1>4, <1>11, <2>2 DEF BeginStep, Engaged
  <2> QED BY <1>11, <2>1, <2>2 DEF BeginStep
<1>12. CASE PauseForHuman(e) BY <1>3, <1>4, <1>12 DEF PauseForHuman, Engaged
<1>13. CASE FailForHuman(e) BY <1>3, <1>4, <1>13 DEF FailForHuman, Engaged
<1>14. CASE StepReturns(e)
  <2>1. PICK l \in {"release", "complete", "missing"} : Read(e, l)
    BY <1>14 DEF StepReturns
  <2> QED BY <1>1, <1>14, <2>1, LeaseRead DEF StepReturns
<1>15. CASE StepThrows(e) BY <1>1, <1>15, LeaseMove DEF StepThrows
<1>16. CASE CompleteStep(e)
  <2>1. CASE Goto(e, "catch") /\ UNCHANGED <<file, checked>>
    BY <1>1, <1>16, <2>1, LeaseMove DEF CompleteStep
  <2>2. CASE Write(e, SucceedStep(b, s), {"release"}, "catch")
    BY <1>3, <1>4, <1>16, <2>2 DEF CompleteStep, Engaged
  <2> QED BY <1>16, <2>1, <2>2 DEF CompleteStep
<1>17. CASE FailIncomplete(e)
  <2>1. CASE Goto(e, "catch") /\ UNCHANGED <<file, checked>>
    BY <1>1, <1>17, <2>1, LeaseMove DEF FailIncomplete
  <2>2. CASE Write(e, FailStep(b, s), {"release"}, "catch")
    BY <1>3, <1>4, <1>17, <2>2 DEF FailIncomplete, Engaged
  <2> QED BY <1>17, <2>1, <2>2 DEF FailIncomplete
<1>18. CASE CatchError(e)
  <2>1. PICK l \in {"release", "fail"} : Read(e, l) BY <1>18 DEF CatchError
  <2> QED BY <1>1, <1>18, <2>1, LeaseRead DEF CatchError
<1>19. CASE FailCaught(e) BY <1>3, <1>4, <1>19 DEF FailCaught, Engaged
<1>20. CASE FinallyRelease(e)
  <2>1. CASE Done(e) BY <1>1, <1>20, <2>1, LeaseMove DEF FinallyRelease
  <2>2. CASE HoldsLease(Bundle, mine[e]) /\ Read(e, "releaseWrite") /\ UNCHANGED <<mine, step>>
    BY <1>1, <1>20, <2>2, LeaseRead DEF FinallyRelease
  <2> QED BY <1>20, <2>1, <2>2 DEF FinallyRelease
<1>21. CASE GiveUpLease(e)
  <2>1. ReleaseLease(b) \in Bundles BY <1>2 DEF ReleaseLease, Bundles
  <2>2. b = Bundle /\ Bundle' = ReleaseLease(b) /\ pc'[e] # pc[e] => LeaseChange(e)
    BY <1>2, <1>21
       DEF GiveUpLease, LeaseGuard, ReleaseLease, LeaseChange, EndsLease, Bundles
  <2> QED BY <1>1, <1>21, <2>1, <2>2, LeaseWrite DEF GiveUpLease
<1>22. CASE ActivityNotRecorded(e)
  BY <1>1, <1>22, LeaseMove DEF ActivityNotRecorded
<1> QED
  BY <1>5, <1>6, <1>7, <1>8, <1>9, <1>10, <1>11, <1>12, <1>13, <1>14, <1>15, <1>16,
     <1>17, <1>18, <1>19, <1>20, <1>21, <1>22 DEF Execute

\* A heartbeat renews the lease it has read, and only while that is still the file.
LEMMA LeaseHeartbeat ==
    ASSUME IInv, LeaseOwned, ~CommitWindow, NEW e \in Executors, Heartbeat(e)
    PROVE  LeaseSafe
<1>1. e \in Actors /\ Typed /\ WritesAreChecked BY DEF Actors, IInv
<1>2. UNCHANGED <<clock, pc, seen, mine, step>>
  BY DEF Heartbeat, BeatRead, BeatWrite
<1>3. SameLease
  <2>1. CASE beat[e] = "read" /\ file.revision = beatSeen[e].revision /\ BeatLands(e)
    <3>1. beatSeen[e] = file /\ Bundle.lease # NoLease /\ Bundle \in Bundles
      BY <1>1, <2>1
         DEF WritesAreChecked, Faithful, Typed, TypeOK, PcsAndGuards, Records, Bundle
    <3>2. PICK t \in {clock, clock + 1} : Bundle' = HeartbeatLease(Bundle, t)
      BY <2>1, <3>1 DEF BeatLands, Bundle
    <3>3. /\ Bundle'.lease # NoLease
          /\ Bundle'.lease.id = Bundle.lease.id /\ Bundle'.lease.owner = Bundle.lease.owner
      <4>1. clock \in Nat BY <1>1 DEF Typed, TypeOK
      <4>2. Bundle'.lease \in Leases
        BY <3>1, <3>2, <4>1 DEF HeartbeatLease, Bundles, Leases
      <4> QED BY <3>1, <3>2, <4>2, LeaseAssumption DEF HeartbeatLease, Bundles, Leases
    <3> QED BY <3>1, <3>3 DEF SameLease
  <2>2. CASE file' = file BY <2>2 DEF SameLease, Bundle
  <2> QED BY <1>1, <2>1, <2>2 DEF Heartbeat, BeatRead, BeatWrite, WritesAreChecked
<1>4. OwnLease(e)' /\ LeaseGuard(e)'
  BY <1>1, <1>2 DEF LeaseOwned, OwnLease, LeaseGuard
<1>5. LeaseStep(e) BY <1>2, <1>3, <1>4 DEF LeaseStep, LeaseChange, OthersKeep
<1> QED BY <1>1, <1>5, LeaseStepIsSafe

LEMMA LeaseOperate ==
    ASSUME IInv, LeaseOwned, ~CommitWindow, NEW o \in Operators, Operate(o)
    PROVE  LeaseSafe
<1> USE DEF Pcs, OperatorPcs, Unguarded
<1> DEFINE b == seen[o].bundle
<1>1. o \in Actors /\ Typed /\ TypeOK /\ WritesAreChecked BY DEF Actors, IInv, Typed
<1>2. /\ b \in Bundles /\ Bundle \in Bundles /\ clock \in Nat /\ HostOf[o] \in Hosts
      /\ file.revision \in Nat /\ SeenGuard(o) /\ LeaseGuard(o)
  BY <1>1, ExecutionAssumption
     DEF TypeOK, Typed, PcsAndGuards, Records, Bundle, LeaseOwned
<1>3. ASSUME NEW l \in {"cancel", "resume", "repair", "note"}, Control(o, l), mine' = mine
      PROVE  LeaseSafe
  BY <1>1, <1>3, LeaseRead DEF Control
<1>4. CASE \/ CancelUnleased(o) \/ ResumeHumanEscalation(o)
           \/ RepairStaleHeartbeat(o) \/ NoteRun(o)
  BY <1>3, <1>4 DEF CancelUnleased, ResumeHumanEscalation, RepairStaleHeartbeat, NoteRun
<1>5. CASE CancelLeased(o)
  <2>1. Bundle.lease.id \in LeaseIds /\ HostOf[Bundle.lease.id[1]] = HostOf[o]
    BY <1>2, <1>5 DEF CancelLeased, Bundles, Leases, LeaseOwned
  <2> QED BY <1>1, <1>5, <2>1, LeaseRead DEF CancelLeased, Control
<1>6. CASE SchedulerClaim(o)
  <2>1. <<o, file.revision>> \in LeaseIds BY <1>1, <1>2 DEF LeaseIds
  <2>2. Bundle.lease = NoLease \/ Lapsed(Bundle, clock)
    BY <1>6 DEF SchedulerClaim, Claimable, ExpireLeases
  <2> QED BY <1>1, <1>6, <2>1, <2>2, LeaseRead DEF SchedulerClaim, Control
<1>7. ASSUME NEW c \in Bundles, NEW l \in {"idle", "cancelRelease"},
             Write(o, c, {l}, "idle"), clock' = clock, pc[o] # l,
             b = Bundle /\ Bundle' = c /\ pc'[o] # pc[o] => LeaseChange(o)
      PROVE  LeaseSafe
  <2>1. {l} \in SUBSET Unguarded /\ "idle" \in Unguarded OBVIOUS
  <2> HIDE DEF Unguarded
  <2> QED BY <1>1, <1>7, <2>1, LeaseWrite
<1>8. CASE ControlWrite(o)
  <2>1. clock' = clock /\ pc[o] \notin {"idle", "cancelRelease"} BY <1>8 DEF ControlWrite
  <2>2. ASSUME NEW l \in {"idle", "cancelRelease"}, Write(o, CancelRun(b), {l}, "idle")
        PROVE  LeaseSafe
    <3>1. CancelRun(b) \in Bundles BY <1>2, RunTransitionTypes
    <3>2. b = Bundle /\ Bundle' = CancelRun(b) => LeaseChange(o)
      BY <1>2 DEF CancelRun, LeaseChange, SameLease, Bundles
    <3> QED BY <1>7, <2>1, <2>2, <3>1, <3>2
  <2>3. ASSUME NEW s \in Steps, Write(o, ResumeRun(b, s), {"idle"}, "idle")
        PROVE  LeaseSafe
    <3>1. ResumeRun(b, s) \in Bundles BY <1>2, StepTransitionTypes
    <3>2. b = Bundle /\ Bundle' = ResumeRun(b, s) => LeaseChange(o)
      BY <1>2 DEF ResumeRun, LeaseChange, SameLease, Bundles
    <3> QED BY <1>7, <2>1, <2>3, <3>1, <3>2
  <2>4. ASSUME NEW t \in {clock, clock + 1}, pc[o] = "claim",
               Write(o, AcquireLease(b, mine[o], HostOf[o], t), {"idle"}, "idle")
        PROVE  LeaseSafe
    <3> DEFINE c == AcquireLease(b, mine[o], HostOf[o], t)
    <3>1. mine[o] \in LeaseIds /\ mine[o] # NoLease
      BY <1>1, <1>2, <2>4 DEF SeenGuard, TypeOK
    <3>2. c \in Bundles BY <1>2, <3>1 DEF AcquireLease, Bundles, Leases
    <3>3. b = Bundle /\ Bundle' = c => LeaseChange(o)
      BY <1>2, <2>4, <3>1
         DEF LeaseGuard, AcquireLease, LeaseChange, TakesLease, Bundles
    <3> QED BY <1>7, <2>1, <2>4, <3>2, <3>3
  <2>5. CASE pc[o] = "cancelReleaseWrite" /\ Write(o, ReleaseLease(b), {"idle"}, "idle")
    <3>1. ReleaseLease(b) \in Bundles BY <1>2 DEF ReleaseLease, Bundles
    <3>2. b = Bundle /\ Bundle' = ReleaseLease(b) /\ pc'[o] # pc[o] => LeaseChange(o)
      BY <1>2, <2>5 DEF LeaseGuard, ReleaseLease, LeaseChange, EndsLease, Bundles
    <3> QED BY <1>7, <2>1, <2>5, <3>1, <3>2
  <2>6. CASE Write(o, ExpireLeases(b, clock), {"idle"}, "idle")
    <3>1. ExpireLeases(b, clock) \in Bundles BY <1>2 DEF ExpireLeases, Bundles
    <3>2. b = Bundle /\ Bundle' = ExpireLeases(b, clock) => LeaseChange(o)
      BY <1>2 DEF ExpireLeases, LeaseChange, SameLease, EndsLease, Bundles
    <3> QED BY <1>7, <2>1, <2>6, <3>1, <3>2
  <2>7. CASE Write(o, b, {"idle"}, "idle")
    <3>1. b = Bundle /\ Bundle' = b => LeaseChange(o) BY DEF LeaseChange, SameLease
    <3> QED BY <1>2, <1>7, <2>1, <2>7, <3>1
  <2> QED BY <1>8, <2>2, <2>3, <2>4, <2>5, <2>6, <2>7 DEF ControlWrite
<1>9. CASE CancelRelease(o)
  <2>1. CASE Done(o) BY <1>1, <1>9, <2>1, LeaseMove DEF CancelRelease
  <2>2. CASE HoldsLease(Bundle, mine[o]) /\ Read(o, "cancelReleaseWrite")
             /\ UNCHANGED <<mine, step>>
    BY <1>1, <1>9, <2>2, LeaseRead DEF CancelRelease
  <2> QED BY <1>9, <2>1, <2>2 DEF CancelRelease
<1> QED BY <1>4, <1>5, <1>6, <1>8, <1>9 DEF Operate

\* Time only makes a lapsed lease older; a crash forgets what was prepared.
LEMMA LeaseEnvironment ==
    ASSUME Typed, LeaseOwned, LeaseLapses \/ \E h \in Hosts : Crash(h) \/ Restart(h)
    PROVE  LeaseSafe
<1>1. file' = file BY DEF LeaseLapses, Crash, Restart
<1>2. LeaseKept BY <1>1 DEF LeaseKept, Bundle
<1>3. CASE LeaseLapses
  <2>1. clock \in Nat /\ clock' \in Nat /\ clock < clock'
        /\ \A a \in Actors : seen[a].bundle.lease # NoLease
                              => seen[a].bundle.lease.expiresAt \in Nat
    BY <1>3 DEF LeaseLapses, Typed, TypeOK, Records, Bundles, Leases, Bundle
  <2>2. \A a \in Actors : LeaseGuard(a)'
    BY <1>3, <2>1 DEF LeaseLapses, LeaseOwned, LeaseGuard, Lapsed
  <2>3. \A a \in Actors : OwnLease(a)' BY <1>3 DEF LeaseLapses, LeaseOwned, OwnLease
  <2> QED BY <1>1, <1>2, <2>2, <2>3 DEF LeaseSafe, LeaseOwned, Bundle
<1>4. ASSUME NEW h \in Hosts, Crash(h) \/ Restart(h) PROVE LeaseSafe
  <2>1. \A a \in Actors : LeaseGuard(a)' /\ OwnLease(a)'
    BY <1>4 DEF Crash, Restart, LeaseOwned, LeaseGuard, OwnLease, HoldsLease, Lapsed
  <2> QED BY <1>1, <1>2, <2>1 DEF LeaseSafe, LeaseOwned, Bundle
<1> QED BY <1>3, <1>4

LEMMA LeaseNext ==
    ASSUME ~CommitWindow, LInv, [Next]_vars
    PROVE  IInv' /\ LeaseSafe
<1> USE DEF LInv
<1>1. IInv' BY InvNext
<1>2. CASE \E e \in Executors : Drain(e) \/ Execute(e) \/ Heartbeat(e)
  BY <1>1, <1>2, LeaseDrain, LeaseExecute, LeaseHeartbeat
<1>3. CASE \E o \in Operators : Operate(o) BY <1>1, <1>3, LeaseOperate
<1>4. CASE LeaseLapses \/ \E h \in Hosts : Crash(h) \/ Restart(h)
  BY <1>1, <1>4, LeaseEnvironment DEF IInv
<1>5. CASE UNCHANGED vars
  BY <1>1, <1>5 DEF vars, LeaseSafe, LeaseOwned, LeaseKept, OwnLease, LeaseGuard, Bundle
<1> QED BY <1>2, <1>3, <1>4, <1>5 DEF Next

LEMMA LeaseInit == Init => LInv
<1> SUFFICES ASSUME Init PROVE LInv OBVIOUS
<1>1. Bundle.lease = NoLease BY DEF Init, Bundle, Blank
<1>2. \A a \in Actors : OwnLease(a) /\ LeaseGuard(a) BY DEF Init, OwnLease, LeaseGuard
<1> QED BY <1>1, <1>2, InvInit DEF LInv, LeaseOwned

--------------------------------------------------------------------------------
\* The stored lease belongs to the host of the actor it is named after, and every write
\* that ends or replaces a lease is prepared by a read that allows it.
THEOREM LeaseOwnedHolds == ASSUME ~CommitWindow PROVE Spec => []LInv
<1>1. LInv /\ [Next]_vars => LInv' BY LeaseNext DEF LInv, LeaseSafe
<1> QED BY <1>1, LeaseInit, PTL DEF Spec

\* No sweep, repair, claim or acquisition takes a lease that has not lapsed: it ends or
\* changes hands only by a step of the host that owns it.
THEOREM LiveLeaseIsKeptHolds == ASSUME ~CommitWindow PROVE Spec => LiveLeaseIsKept
<1>1. LInv /\ [Next]_vars =>
        [Bundle.lease # NoLease /\ Bundle.lease.expiresAt > clock
           /\ (Bundle'.lease = NoLease \/ Bundle'.lease.id # Bundle.lease.id)
           => \E a \in Actors : HostOf[a] = Bundle.lease.owner /\ pc'[a] # pc[a]]_vars
  BY LeaseNext DEF LeaseSafe, LeaseKept
<1> QED BY <1>1, LeaseOwnedHolds, PTL DEF Spec, LiveLeaseIsKept
================================================================================
