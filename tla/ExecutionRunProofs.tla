--------------------------- MODULE ExecutionRunProofs ---------------------------
(***************************************************************************)
(* Proofs about ExecutionRun, for any number of steps, hosts, executors    *)
(* and operators and any values of the bounds.                             *)
(***************************************************************************)
EXTENDS ExecutionRunInv, TLAPS

--------------------------------------------------------------------------------
(***************************************************************************)
(* The functions of RunRecord map bundles to bundles.                      *)
(***************************************************************************)

\* The step and run transitions of runner.ts return bundles.
LEMMA StepTransitionTypes ==
    ASSUME NEW b \in Bundles, NEW s \in Steps
    PROVE  /\ StartStep(b, s) \in Bundles
           /\ SucceedStep(b, s) \in Bundles
           /\ FailStep(b, s) \in Bundles
           /\ PauseStep(b, s) \in Bundles
           /\ ResumeRun(b, s) \in Bundles
<1> USE DEF Bundles, RunStatuses, StepStatuses
<1>1. StartStep(b, s) \in Bundles BY DEF StartStep
<1>2. SucceedStep(b, s) \in Bundles BY DEF SucceedStep
<1>3. FailStep(b, s) \in Bundles BY DEF FailStep
<1>4. PauseStep(b, s) \in Bundles BY DEF PauseStep
<1>5. ResumeRun(b, s) \in Bundles BY DEF ResumeRun
<1> QED BY <1>1, <1>2, <1>3, <1>4, <1>5

LEMMA RunTransitionTypes ==
    ASSUME NEW b \in Bundles
    PROVE  CancelRun(b) \in Bundles /\ RecoverRun(b) \in Bundles
<1> USE DEF Bundles, RunStatuses, StepStatuses
<1>1. CancelRun(b) \in Bundles BY DEF CancelRun
<1>2. RecoverRun(b) \in Bundles BY DEF RecoverRun
<1> QED BY <1>1, <1>2

\* The lease transitions of lease.ts return bundles.
LEMMA LeaseTransitionTypes ==
    ASSUME NEW b \in Bundles, NEW id \in LeaseIds, NEW h \in Hosts, NEW t \in Nat
    PROVE  /\ AcquireLease(b, id, h, t) \in Bundles
           /\ b.lease # NoLease => HeartbeatLease(b, t) \in Bundles
           /\ ReleaseLease(b) \in Bundles
           /\ ExpireLeases(b, t) \in Bundles
BY DEF Bundles, Leases, AcquireLease, HeartbeatLease, ReleaseLease, ExpireLeases

\* What an actor at rest remembers is a record.
LEMMA BlankType == Blank \in Records
BY DEF Blank, Records, Bundles, RunStatuses, StepStatuses

--------------------------------------------------------------------------------
(***************************************************************************)
(* Reads and writes change the state of one actor.                         *)
(***************************************************************************)
Pcs == ExecutorPcs \cup OperatorPcs

\* the state of every actor but a is unchanged
OthersKeep(a) ==
    \A x \in Actors \ {a} :
        /\ pc'[x] = pc[x] /\ seen'[x] = seen[x] /\ mine'[x] = mine[x]
        /\ x \in Executors => step'[x] = step[x]

\* the variables that actions set for one actor keep their types
ActorTypes ==
    /\ pc' \in [Actors -> Pcs]
    /\ seen' \in [Actors -> Records]
    /\ mine' \in [Actors -> LeaseIds \cup {NoLease}]
    /\ step' \in [Executors -> Steps \cup {0}]

\* Done, Continue, Goto and Read are about one actor.
LEMMA MoveTypes ==
    ASSUME TypeOK, NEW a \in Actors, NEW l \in Pcs, NEW r \in Records
    PROVE  /\ Done(a) => ActorTypes /\ OthersKeep(a) /\ pc'[a] = "idle" /\ seen'[a] = Blank
           /\ Continue(a, l, r) /\ UNCHANGED <<mine, step>>
                => ActorTypes /\ OthersKeep(a) /\ pc'[a] = l
                   /\ seen'[a] = (IF l \in Rereads THEN Blank ELSE r)
                   /\ mine'[a] = mine[a] /\ step' = step
<1> USE BlankType DEF TypeOK, ActorTypes, OthersKeep, Pcs
<1>1. ASSUME Done(a) 
      PROVE  ActorTypes /\ OthersKeep(a) /\ pc'[a] = "idle" /\ seen'[a] = Blank
  <2>1. "idle" \in Pcs BY DEF ExecutorPcs
  <2>2. ActorTypes BY <1>1, <2>1 DEF Done
  <2>3. OthersKeep(a) BY <1>1 DEF Done
  <2>4. pc'[a] = "idle" /\ seen'[a] = Blank BY <1>1 DEF Done
  <2> QED BY <2>2, <2>3, <2>4
<1>2. ASSUME Continue(a, l, r), UNCHANGED <<mine, step>>
      PROVE  /\ ActorTypes /\ OthersKeep(a) /\ pc'[a] = l
             /\ seen'[a] = (IF l \in Rereads THEN Blank ELSE r)
             /\ mine'[a] = mine[a] /\ step' = step
  BY <1>2 DEF Continue
<1> QED BY <1>1, <1>2

(***************************************************************************)
(* What a write may do: land, at one of ok; pass its check; or be refused. *)
(***************************************************************************)
Landed(a, b, l) ==
    LET record == [revision |-> seen[a].revision + 1, bundle |-> b] IN
    /\ file' = record
    /\ pc'[a] = l
    /\ seen'[a] = IF l = "idle" \/ l \in Rereads THEN Blank ELSE record
    /\ l # "idle" => mine'[a] = mine[a] /\ step' = step

Refused(a, l) ==
    /\ file' = file
    /\ pc'[a] = l
    /\ seen'[a] = IF l = "idle" \/ l \in Rereads THEN Blank ELSE seen[a]
    /\ l # "idle" => mine'[a] = mine[a] /\ step' = step

LEMMA WriteTypes ==
    ASSUME TypeOK, NEW a \in Actors, NEW b \in Bundles,
           NEW ok \in SUBSET Pcs, NEW bad \in Pcs,
           Write(a, b, ok, bad)
    PROVE  /\ file' \in Records
           /\ checked' \in [Actors -> BOOLEAN]
           /\ ActorTypes
           /\ OthersKeep(a)
           /\ \/ \E l \in ok : Landed(a, b, l)
              \/ Refused(a, bad)
              \/ UNCHANGED <<file, pc, seen, mine, step>>
<1> DEFINE record == [revision |-> seen[a].revision + 1, bundle |-> b]
<1>0. record \in Records
  BY DEF TypeOK, Records
<1>1. ASSUME NEW l \in ok, Land(a, b, l)
      PROVE  /\ file' \in Records /\ checked' \in [Actors -> BOOLEAN]
             /\ ActorTypes /\ OthersKeep(a) /\ Landed(a, b, l)
  <2>1. file' = record /\ checked' = [checked EXCEPT ![a] = FALSE]
    BY <1>1 DEF Land
  <2>2. CASE l = "idle"
    BY <1>0, <1>1, <2>1, <2>2, MoveTypes DEF Land, Landed, TypeOK
  <2>3. CASE l # "idle"
    <3>1. Continue(a, l, record) /\ UNCHANGED <<mine, step>>
      BY <1>1, <2>3 DEF Land
    <3> HIDE DEF record
    <3>2. /\ ActorTypes /\ OthersKeep(a) /\ pc'[a] = l
          /\ seen'[a] = (IF l \in Rereads THEN Blank ELSE record)
          /\ mine'[a] = mine[a] /\ step' = step
      BY <1>0, <3>1, MoveTypes
    <3> QED BY <1>0, <2>1, <2>3, <3>2 DEF Landed, TypeOK, record
  <2> QED BY <2>2, <2>3
<1>2. ASSUME file' = file, checked' = checked, Goto(a, bad)
      PROVE  ActorTypes /\ OthersKeep(a) /\ Refused(a, bad)
  <2>1. CASE bad = "idle" BY <1>2, <2>1, MoveTypes, BlankType DEF Goto, Refused
  <2>2. CASE bad # "idle"
    <3>1. Continue(a, bad, seen[a]) /\ UNCHANGED <<mine, step>>
      BY <1>2, <2>2 DEF Goto
    <3>2. seen[a] \in Records BY DEF TypeOK
    <3> QED BY <1>2, <2>2, <3>1, <3>2, MoveTypes DEF Refused
  <2> QED BY <2>1, <2>2
<1>3. CASE \E l \in ok : Land(a, b, l)
  BY <1>1, <1>3
<1>4. CASE /\ checked' = [checked EXCEPT ![a] = TRUE]
           /\ UNCHANGED <<file, pc, seen, mine, step>>
           /\ checked[a] = FALSE
  BY <1>4 DEF TypeOK, ActorTypes, OthersKeep, Refused, Pcs
<1>5. CASE file' = file /\ checked' = checked /\ Goto(a, bad)
  BY <1>2, <1>5 DEF TypeOK
<1> QED
  BY <1>3, <1>4, <1>5 DEF Write, TypeOK

--------------------------------------------------------------------------------
(***************************************************************************)
(* Type correctness.  TypeOK is not inductive: a write builds a lease from *)
(* the id its actor holds and renews one it has seen, so the proof needs   *)
(* what each actor has established by the time it is at its pc.            *)
(***************************************************************************)

\* the pcs at which SeenGuard asks for nothing
Free == {"down", "idle", "expire", "inspect", "reread", "execute", "acquire", "adopt",
         "start", "executing", "complete", "missing", "catch", "release",
         "releaseWrite", "cancelRelease", "cancelReleaseWrite", "resume", "repair",
         "note"}

\* l is a pc of a's kind
OwnPc(a, l) ==
    /\ a \in Executors => l \in ExecutorPcs
    /\ a \in Operators => l \in OperatorPcs

BeatsTyped ==
    /\ beat \in [Executors -> {"none", "read", "checked"}]
    /\ beatSeen \in [Executors -> Records]
    /\ \A e \in Executors : beat[e] # "none" => beatSeen[e].bundle.lease # NoLease

UsedTypes == [late : Nat, crashes : Nat, beats : Nat, controls : Nat]

\* A step of one actor keeps Typed if it does so for that actor.
LEMMA TypedStep ==
    ASSUME Typed, NEW a \in Actors, ActorTypes, OthersKeep(a),
           file' \in Records, checked' \in [Actors -> BOOLEAN],
           clock' \in Nat, used' \in UsedTypes, BeatsTyped',
           OwnPc(a, pc'[a]),
           a \in Executors /\ pc'[a] \in Engaged => step'[a] \in Steps,
           SeenGuard(a)'
    PROVE  Typed'
<1>1. TypeOK' BY DEF TypeOK, ActorTypes, UsedTypes, BeatsTyped, Pcs
<1>2. \A e \in Executors : pc'[e] \in ExecutorPcs
  BY DEF Typed, PcsAndGuards, OthersKeep, OwnPc, Actors
<1>3. \A o \in Operators : pc'[o] \in OperatorPcs
  BY DEF Typed, PcsAndGuards, OthersKeep, OwnPc, Actors
<1>4. \A e \in Executors : pc'[e] \in Engaged => step'[e] \in Steps
  BY DEF Typed, PcsAndGuards, OthersKeep, Actors
<1>5. ASSUME NEW x \in Actors PROVE SeenGuard(x)'
  <2>1. CASE x = a BY <2>1
  <2>2. CASE x # a
    <3>1. pc'[x] = pc[x] /\ seen'[x] = seen[x] /\ mine'[x] = mine[x]
      BY <2>2 DEF OthersKeep
    <3>2. CASE x \in Executors
      <4>1. step'[x] = step[x] BY <2>2, <3>2 DEF OthersKeep
      <4> QED BY <3>1, <4>1 DEF SeenGuard, Typed, PcsAndGuards
    <3>3. CASE x \in Operators
      <4>1. pc[x] \notin {"limit", "fail", "pause", "escalate"}
        BY <3>3 DEF Typed, PcsAndGuards, OperatorPcs
      <4> QED BY <3>1, <4>1 DEF SeenGuard, Typed, PcsAndGuards
    <3> QED BY <3>2, <3>3 DEF Actors
  <2> QED BY <2>1, <2>2
<1> QED BY <1>1, <1>2, <1>3, <1>4, <1>5 DEF Typed, PcsAndGuards, BeatsTyped

LEMMA FreeGuard == ASSUME NEW a, pc'[a] \in Free PROVE SeenGuard(a)'
BY DEF Free, SeenGuard

LEMMA BeatsKept == Typed /\ UNCHANGED <<beat, beatSeen>> => BeatsTyped'
BY DEF Typed, TypeOK, PcsAndGuards, BeatsTyped

\* A write keeps Typed when it continues at pcs that ask for nothing more.
LEMMA TypedWrite ==
    ASSUME Typed, NEW a \in Actors, NEW b \in Bundles,
           NEW ok \in SUBSET Pcs, NEW bad \in Free \cap Pcs,
           Write(a, b, ok, bad),
           UNCHANGED <<clock, beat, beatSeen>>, used' \in UsedTypes,
           \A l \in ok \cup {bad} :
               OwnPc(a, l) /\ (a \in Executors /\ l \in Engaged => pc[a] \in Engaged),
           \A l \in ok : \/ l \in Free
                         \/ l \in {"pause", "escalate"} /\ CanSucceed(b, step[a])
    PROVE  Typed'
<1>1. TypeOK BY DEF Typed
<1>2. /\ file' \in Records /\ checked' \in [Actors -> BOOLEAN]
      /\ ActorTypes /\ OthersKeep(a)
      /\ \/ \E l \in ok : Landed(a, b, l)
         \/ Refused(a, bad)
         \/ UNCHANGED <<file, pc, seen, mine, step>>
  BY <1>1, WriteTypes
<1>3. clock' \in Nat BY <1>1 DEF TypeOK
<1>4. BeatsTyped' BY BeatsKept
<1>5. a \in Executors /\ pc[a] \in Engaged => step[a] \in Steps
  BY DEF Typed, PcsAndGuards
<1>6. CASE \E l \in ok : Landed(a, b, l)
  <2>1. PICK l \in ok : Landed(a, b, l) BY <1>6
  <2>2. pc'[a] = l /\ (l # "idle" => step' = step) BY <2>1 DEF Landed
  <2>3. "idle" \notin Engaged BY DEF Engaged
  <2>4. SeenGuard(a)'
    <3>1. CASE l \in Free BY <2>2, <3>1, FreeGuard
    <3>2. CASE l \in {"pause", "escalate"} /\ CanSucceed(b, step[a])
      <4>1. l # "idle" /\ l \notin Rereads BY <3>2 DEF Rereads
      <4>2. seen'[a].bundle = b /\ step' = step
        BY <2>1, <2>2, <4>1 DEF Landed
      <4> QED BY <2>2, <3>2, <4>2 DEF SeenGuard
    <3> QED BY <3>1, <3>2
  <2> QED BY <1>2, <1>3, <1>4, <1>5, <2>2, <2>3, <2>4, TypedStep
<1>7. CASE Refused(a, bad)
  <2>1. pc'[a] = bad /\ (bad # "idle" => step' = step) BY <1>7 DEF Refused
  <2>2. "idle" \notin Engaged BY DEF Engaged
  <2>3. SeenGuard(a)' BY <2>1, FreeGuard
  <2> QED BY <1>2, <1>3, <1>4, <1>5, <2>1, <2>2, <2>3, TypedStep
<1>8. CASE UNCHANGED <<file, pc, seen, mine, step>>
  <2>1. SeenGuard(a)' BY <1>8 DEF SeenGuard, Typed, PcsAndGuards
  <2>2. OwnPc(a, pc'[a]) BY <1>8 DEF Typed, PcsAndGuards, OwnPc
  <2> QED BY <1>2, <1>3, <1>4, <1>5, <1>8, <2>1, <2>2, TypedStep
<1> QED BY <1>2, <1>6, <1>7, <1>8

\* The common case: one way to go on after the write.
LEMMA TypedWriteOne ==
    ASSUME Typed, NEW a \in Actors, NEW b \in Bundles,
           NEW l \in Free \cap Pcs, NEW bad \in Free \cap Pcs,
           Write(a, b, {l}, bad),
           UNCHANGED <<clock, beat, beatSeen>>, used' \in UsedTypes,
           OwnPc(a, l), OwnPc(a, bad),
           a \in Executors /\ pc[a] \notin Engaged => {l, bad} \cap Engaged = {}
    PROVE  Typed'
<1>1. {l} \in SUBSET Pcs OBVIOUS
<1>2. \A k \in {l} \cup {bad} :
         OwnPc(a, k) /\ (a \in Executors /\ k \in Engaged => pc[a] \in Engaged)
  OBVIOUS
<1>3. \A k \in {l} : \/ k \in Free
                     \/ k \in {"pause", "escalate"} /\ CanSucceed(b, step[a])
  OBVIOUS
<1> QED BY <1>1, <1>2, <1>3, TypedWrite

\* A read continues one actor, which may set its lease id and its step.
LEMMA ReadTypes ==
    ASSUME TypeOK, NEW a \in Actors, NEW l \in Pcs, Read(a, l),
           mine' = mine \/ \E m \in LeaseIds : mine' = [mine EXCEPT ![a] = m],
           step' = step \/ \E s \in Steps : step' = [step EXCEPT ![a] = s]
    PROVE  /\ ActorTypes /\ OthersKeep(a) /\ pc'[a] = l
           /\ l \notin Rereads => seen'[a] = file
<1> USE BlankType DEF TypeOK, Read, Continue
<1>1. pc' \in [Actors -> Pcs] /\ pc'[a] = l BY DEF Pcs
<1>2. seen' \in [Actors -> Records] /\ (l \notin Rereads => seen'[a] = file) OBVIOUS
<1>3. mine' \in [Actors -> LeaseIds \cup {NoLease}] OBVIOUS
<1>4. step' \in [Executors -> Steps \cup {0}] OBVIOUS
<1>5. OthersKeep(a) BY DEF OthersKeep
<1> QED BY <1>1, <1>2, <1>3, <1>4, <1>5 DEF ActorTypes

\* A read keeps Typed when it establishes what the next pc asks for.
LEMMA TypedRead ==
    ASSUME Typed, NEW a \in Actors, NEW l \in Pcs, Read(a, l),
           mine' = mine \/ \E m \in LeaseIds : mine' = [mine EXCEPT ![a] = m],
           step' = step \/ \E s \in Steps : step' = [step EXCEPT ![a] = s],
           UNCHANGED <<file, clock, checked, beat, beatSeen>>, used' \in UsedTypes,
           OwnPc(a, l),
           a \in Executors /\ l \in Engaged => step'[a] \in Steps,
           l \in Free \/ SeenGuard(a)'
    PROVE  Typed'
<1>1. TypeOK BY DEF Typed
<1>2. ActorTypes /\ OthersKeep(a) /\ pc'[a] = l BY <1>1, ReadTypes
<1>3. /\ file' \in Records /\ checked' \in [Actors -> BOOLEAN] /\ clock' \in Nat
  BY <1>1 DEF TypeOK
<1>4. BeatsTyped' BY BeatsKept
<1>5. SeenGuard(a)' BY <1>2, FreeGuard
<1> QED BY <1>2, <1>3, <1>4, <1>5, TypedStep

LEMMA TypedReturn ==
    ASSUME Typed, NEW a \in Actors, Done(a),
           UNCHANGED <<file, clock, checked, beat, beatSeen>>, used' \in UsedTypes
    PROVE  Typed'
<1>1. TypeOK BY DEF Typed
<1>2. "idle" \in Pcs BY DEF Pcs, ExecutorPcs
<1>3. ActorTypes /\ OthersKeep(a) /\ pc'[a] = "idle"
  BY <1>1, <1>2, MoveTypes, BlankType
<1>4. file' \in Records /\ checked' \in [Actors -> BOOLEAN] /\ clock' \in Nat
      /\ used' \in UsedTypes
  BY <1>1 DEF TypeOK, UsedTypes
<1>5. BeatsTyped' BY BeatsKept
<1>6. SeenGuard(a)' BY <1>3, FreeGuard DEF Free
<1>7. OwnPc(a, "idle") /\ "idle" \notin Engaged
  BY DEF OwnPc, ExecutorPcs, OperatorPcs, Engaged
<1> QED BY <1>3, <1>4, <1>5, <1>6, <1>7, TypedStep

LEMMA TypedDone ==
    ASSUME Typed, NEW a \in Actors, Done(a),
           UNCHANGED <<file, clock, checked, beat, beatSeen, used>>
    PROVE  Typed'
<1>1. used' \in UsedTypes BY DEF Typed, TypeOK, UsedTypes
<1> QED BY <1>1, TypedReturn

\* An early throw continues at the catch block.
LEMMA TypedCatch ==
    ASSUME Typed, NEW e \in Executors, Goto(e, "catch"), pc[e] \in Engaged,
           UNCHANGED <<file, clock, checked, beat, beatSeen, used>>
    PROVE  Typed'
<1>1. TypeOK BY DEF Typed
<1>2. e \in Actors /\ "catch" \in Pcs /\ "catch" \in Engaged /\ "catch" \in Free
  BY DEF Actors, Pcs, ExecutorPcs, Engaged, Free
<1>3. Continue(e, "catch", seen[e]) /\ UNCHANGED <<mine, step>> BY DEF Goto
<1>4. seen[e] \in Records BY <1>1, <1>2 DEF TypeOK
<1>5. ActorTypes /\ OthersKeep(e) /\ pc'[e] = "catch" /\ step' = step
  BY <1>1, <1>2, <1>3, <1>4, MoveTypes
<1>6. file' \in Records /\ checked' \in [Actors -> BOOLEAN] /\ clock' \in Nat
      /\ used' \in UsedTypes
  BY <1>1 DEF TypeOK, UsedTypes
<1>7. BeatsTyped' BY BeatsKept
<1>8. SeenGuard(e)' BY <1>2, <1>5, FreeGuard
<1>9. step'[e] \in Steps BY <1>5 DEF Typed, PcsAndGuards
<1>10. OwnPc(e, "catch") BY ExecutionAssumption DEF OwnPc, ExecutorPcs
<1> QED BY <1>2, <1>5, <1>6, <1>7, <1>8, <1>9, <1>10, TypedStep

LEMMA StampType ==
    ASSUME TypeOK, NEW t, Stamp(t) \/ UNCHANGED used PROVE used' \in UsedTypes
BY ExecutionAssumption DEF TypeOK, Stamp, UsedTypes

\* The drain pass keeps Typed.
LEMMA TypedDrain ==
    ASSUME Typed, NEW e \in Executors, Drain(e) PROVE Typed'
<1> USE DEF Free, Pcs, OwnPc, ExecutorPcs, Engaged, UsedTypes
<1>1. e \in Actors /\ e \notin Operators BY ExecutionAssumption DEF Actors
<1>2. TypeOK /\ used \in UsedTypes /\ clock \in Nat
  BY DEF Typed, TypeOK
<1>3. seen[e] \in Records /\ seen[e].bundle \in Bundles /\ Bundle \in Bundles
  BY <1>1, <1>2 DEF TypeOK, Records, Bundle
<1>4. CASE SweepRun(e)
  <2>1. CASE Lapsed(Bundle, clock) BY <1>1, <1>2, <1>4, <2>1, TypedRead DEF SweepRun
  <2>2. CASE ~Lapsed(Bundle, clock) BY <1>1, <1>2, <1>4, <2>2, TypedRead DEF SweepRun
  <2> QED BY <2>1, <2>2
<1>5. CASE ExpireLease(e)
  <2>1. ExpireLeases(seen[e].bundle, clock) \in Bundles
    BY <1>2, <1>3 DEF ExpireLeases, Bundles
  <2> QED BY <1>1, <1>2, <1>5, <2>1, TypedWriteOne DEF ExpireLease
<1>6. CASE InspectRun(e)
  <2>1. CASE Done(e) BY <1>1, <1>6, <2>1, TypedDone DEF InspectRun
  <2>2. CASE /\ Bundle.lease # NoLease
             /\ mine' = [mine EXCEPT ![e] = Bundle.lease.id]
             /\ Read(e, "execute") /\ UNCHANGED step
    <3>1. Bundle.lease.id \in LeaseIds BY <1>3, <2>2 DEF Bundles, Leases
    <3> QED BY <1>1, <1>2, <1>6, <2>2, <3>1, TypedRead DEF InspectRun
  <2>3. CASE /\ Running(Bundle) = {}
             /\ Read(e, "execute") /\ UNCHANGED <<mine, step>>
    BY <1>1, <1>2, <1>6, <2>3, TypedRead DEF InspectRun
  <2>4. CASE /\ Running(Bundle) # {}
             /\ Read(e, "recover") /\ UNCHANGED <<mine, step>>
    <3>1. pc'[e] = "recover" /\ seen'[e] = file
      BY <1>1, <1>2, <2>4, ReadTypes DEF Rereads
    <3>2. SeenGuard(e)' BY <2>4, <3>1 DEF SeenGuard, Bundle
    <3> QED BY <1>1, <1>2, <1>6, <2>4, <3>2, TypedRead DEF InspectRun
  <2> QED BY <1>6, <2>1, <2>2, <2>3, <2>4 DEF InspectRun
<1>7. CASE RecoverStranded(e)
  <2>1. RecoverRun(seen[e].bundle) \in Bundles
    BY <1>3, RunTransitionTypes
  <2>2. CASE pc[e] = "recover"
    BY <1>1, <1>2, <1>7, <2>1, <2>2, TypedWriteOne DEF RecoverStranded
  <2>3. CASE pc[e] = "recoverRetry"
    BY <1>1, <1>2, <1>7, <2>1, <2>3, TypedWriteOne DEF RecoverStranded
  <2> QED BY <1>7, <2>2, <2>3 DEF RecoverStranded
<1>8. CASE RereadStranded(e)
  <2>1. CASE Done(e) BY <1>1, <1>8, <2>1, TypedDone DEF RereadStranded
  <2>2. CASE /\ Running(Bundle) # {}
             /\ Read(e, "recoverRetry") /\ UNCHANGED <<mine, step>>
    <3>1. pc'[e] = "recoverRetry" /\ seen'[e] = file
      BY <1>1, <1>2, <2>2, ReadTypes DEF Rereads
    <3>2. SeenGuard(e)' BY <2>2, <3>1 DEF SeenGuard, Bundle
    <3> QED BY <1>1, <1>2, <1>8, <2>2, <3>2, TypedRead DEF RereadStranded
  <2> QED BY <1>8, <2>1, <2>2 DEF RereadStranded
<1> QED BY <1>4, <1>5, <1>6, <1>7, <1>8 DEF Drain

\* The execution of a step keeps Typed.
LEMMA TypedExecute ==
    ASSUME Typed, NEW e \in Executors, Execute(e) PROVE Typed'
<1> USE DEF Free, Pcs, OwnPc, ExecutorPcs, Engaged, UsedTypes
<1>1. e \in Actors /\ e \notin Operators BY ExecutionAssumption DEF Actors
<1>2. TypeOK /\ used \in UsedTypes /\ clock \in Nat /\ HostOf[e] \in Hosts
  BY <1>1, ExecutionAssumption DEF Typed, TypeOK
<1>3. seen[e].bundle \in Bundles /\ Bundle \in Bundles /\ file.revision \in Nat
  BY <1>1, <1>2 DEF TypeOK, Records, Bundle
<1>4. /\ pc[e] \in Engaged => step[e] \in Steps
      /\ SeenGuard(e)
  BY <1>1 DEF Typed, PcsAndGuards
<1>5. CASE ChooseStep(e)
  <2>1. CASE Done(e) BY <1>1, <1>5, <2>1, TypedDone DEF ChooseStep
  <2>2. ASSUME NEW s \in Steps, NEW l \in {"acquire", "adopt"},
               step' = [step EXCEPT ![e] = s], Read(e, l), UNCHANGED mine
        PROVE  Typed'
    <3>1. step'[e] \in Steps BY <1>2, <2>2 DEF TypeOK
    <3>2. l \in Pcs /\ l \in Free /\ OwnPc(e, l) BY <1>1
    <3> QED BY <1>1, <1>2, <1>5, <2>2, <3>1, <3>2, TypedRead DEF ChooseStep
  <2>3. ASSUME NEW s \in Steps, NextRunnable(Bundle, s),
               step' = [step EXCEPT ![e] = s], Read(e, "limit"), UNCHANGED mine
        PROVE  Typed'
    <3>1. step'[e] = s BY <1>2, <2>3 DEF TypeOK
    <3>2. pc'[e] = "limit" /\ seen'[e] = file
      <4>1. mine' = mine /\ \E k \in Steps : step' = [step EXCEPT ![e] = k] BY <2>3
      <4>2. "limit" \in Pcs /\ "limit" \notin Rereads BY DEF Rereads
      <4> QED BY <1>1, <1>2, <2>3, <4>1, <4>2, ReadTypes
    <3>3. CanFail(Bundle, s)
      BY <2>3 DEF NextRunnable, Eligible, Dispatchable, CanFail, Failable
    <3>4. SeenGuard(e)' BY <3>1, <3>2, <3>3 DEF SeenGuard, Bundle
    <3> QED BY <1>1, <1>2, <1>5, <2>3, <3>1, <3>4, TypedRead DEF ChooseStep
  <2> QED BY <1>5, <2>1, <2>2, <2>3 DEF ChooseStep
<1>6. CASE FailOnLimit(e)
  <2>1. FailStep(seen[e].bundle, step[e]) \in Bundles
    BY <1>3, <1>4, <1>6, StepTransitionTypes DEF FailOnLimit
  <2> QED BY <1>1, <1>2, <1>6, <2>1, TypedWriteOne DEF FailOnLimit
<1>7. CASE RequestLease(e)
  <2>1. CASE Done(e) BY <1>1, <1>7, <2>1, TypedDone DEF RequestLease
  <2>2. CASE ~Done(e)
    <3>1. Read(e, "acquireWrite") /\ mine' = [mine EXCEPT ![e] = <<e, file.revision>>]
          /\ UNCHANGED step
      BY <1>7, <2>2 DEF RequestLease
    <3>2. <<e, file.revision>> \in LeaseIds BY <1>1, <1>3 DEF LeaseIds
    <3>3. mine'[e] = <<e, file.revision>> BY <1>1, <1>2, <3>1 DEF TypeOK
    <3>4. pc'[e] = "acquireWrite" BY <1>1, <1>2, <3>1, <3>2, ReadTypes
    <3>5. <<e, file.revision>> # NoLease BY <3>2, LeaseAssumption
    <3>6. SeenGuard(e)' BY <3>3, <3>4, <3>5 DEF SeenGuard
    <3>7. step'[e] \in Steps BY <1>4, <1>7, <3>1 DEF RequestLease
    <3> QED BY <1>1, <1>2, <1>7, <3>1, <3>2, <3>6, <3>7, TypedRead DEF RequestLease
  <2> QED BY <2>1, <2>2
<1>8. CASE TakeLease(e)
  <2>1. PICK t \in {clock, clock + 1} :
          /\ Write(e, AcquireLease(seen[e].bundle, mine[e], HostOf[e], t),
                   {"start"}, "idle")
          /\ Stamp(t)
    BY <1>8 DEF TakeLease
  <2>2. mine[e] \in LeaseIds
    BY <1>1, <1>2, <1>4, <1>8 DEF TakeLease, SeenGuard, TypeOK
  <2>3. AcquireLease(seen[e].bundle, mine[e], HostOf[e], t) \in Bundles
    BY <1>2, <1>3, <2>2 DEF AcquireLease, Bundles, Leases
  <2>4. used' \in UsedTypes BY <1>2, <2>1, StampType
  <2> QED BY <1>1, <1>8, <2>1, <2>3, <2>4, TypedWriteOne DEF TakeLease
<1>9. CASE RenewLease(e)
  <2>1. CASE Done(e) BY <1>1, <1>9, <2>1, TypedDone DEF RenewLease
  <2>2. CASE HoldsLease(Bundle, mine[e]) /\ Read(e, "adoptWrite") /\ UNCHANGED <<mine, step>>
    <3>1. pc'[e] = "adoptWrite" /\ seen'[e] = file
      BY <1>1, <1>2, <2>2, ReadTypes DEF Rereads
    <3>2. SeenGuard(e)' BY <2>2, <3>1 DEF SeenGuard, HoldsLease, Bundle
    <3>3. step'[e] \in Steps BY <1>4, <1>9, <2>2 DEF RenewLease
    <3> QED BY <1>1, <1>2, <1>9, <2>2, <3>2, <3>3, TypedRead DEF RenewLease
  <2> QED BY <1>9, <2>1, <2>2 DEF RenewLease
<1>10. CASE AdoptLease(e)
  <2>1. PICK t \in {clock, clock + 1} :
          /\ Write(e, HeartbeatLease(seen[e].bundle, t), {"start"}, "idle")
          /\ Stamp(t)
    BY <1>10 DEF AdoptLease
  <2>2. seen[e].bundle.lease # NoLease BY <1>4, <1>10 DEF AdoptLease, SeenGuard
  <2>3. HeartbeatLease(seen[e].bundle, t) \in Bundles
    BY <1>2, <1>3, <2>2 DEF HeartbeatLease, Bundles, Leases
  <2>4. used' \in UsedTypes BY <1>2, <2>1, StampType
  <2> QED BY <1>1, <1>10, <2>1, <2>3, <2>4, TypedWriteOne DEF AdoptLease
<1>11. CASE BeginStep(e)
  <2>1. CASE Goto(e, "catch") /\ UNCHANGED <<file, checked>>
    BY <1>11, <2>1, TypedCatch DEF BeginStep
  <2>2. CASE /\ CanStart(seen[e].bundle, step[e])
             /\ Write(e, StartStep(seen[e].bundle, step[e]),
                      {"executing", "pause", "escalate"}, "catch")
    <3>1. StartStep(seen[e].bundle, step[e]) \in Bundles
      BY <1>3, <1>4, <1>11, StepTransitionTypes DEF BeginStep
    <3>2. CanSucceed(StartStep(seen[e].bundle, step[e]), step[e])
      BY <1>3, <1>4, <1>11 DEF BeginStep, StartStep, CanSucceed, Bundles
    <3>3. \A l \in {"executing", "pause", "escalate"} \cup {"catch"} :
             OwnPc(e, l) /\ (e \in Executors /\ l \in Engaged => pc[e] \in Engaged)
      BY <1>1, <1>11 DEF BeginStep
    <3>4. \A l \in {"executing", "pause", "escalate"} :
             \/ l \in Free
             \/ /\ l \in {"pause", "escalate"}
                /\ CanSucceed(StartStep(seen[e].bundle, step[e]), step[e])
      BY <3>2
    <3>5. {"executing", "pause", "escalate"} \in SUBSET Pcs /\ "catch" \in Free \cap Pcs
      OBVIOUS
    <3>6. UNCHANGED <<clock, beat, beatSeen>> /\ used' \in UsedTypes
      BY <1>2, <1>11 DEF BeginStep
    <3> HIDE DEF Free, Pcs, OwnPc, Engaged, UsedTypes
    <3> QED BY <1>1, <2>2, <3>1, <3>3, <3>4, <3>5, <3>6, TypedWrite
  <2> QED BY <1>11, <2>1, <2>2 DEF BeginStep
<1>12. CASE PauseForHuman(e)
  <2>1. PauseStep(seen[e].bundle, step[e]) \in Bundles
    BY <1>3, <1>4, <1>12, StepTransitionTypes DEF PauseForHuman
  <2> QED BY <1>1, <1>2, <1>12, <2>1, TypedWriteOne DEF PauseForHuman
<1>13. CASE FailForHuman(e)
  <2>1. FailStep(seen[e].bundle, step[e]) \in Bundles
    BY <1>3, <1>4, <1>13, StepTransitionTypes DEF FailForHuman
  <2> QED BY <1>1, <1>2, <1>13, <2>1, TypedWriteOne DEF FailForHuman
<1>14. CASE StepReturns(e)
  <2>1. PICK l \in {"release", "complete", "missing"} : Read(e, l)
    BY <1>14 DEF StepReturns
  <2>2. step'[e] \in Steps BY <1>4, <1>14 DEF StepReturns
  <2>3. l \in Pcs /\ l \in Free /\ OwnPc(e, l) BY <1>1, <2>1
  <2> QED BY <1>1, <1>2, <1>14, <2>1, <2>2, <2>3, TypedRead DEF StepReturns
<1>15. CASE StepThrows(e) BY <1>15, TypedCatch DEF StepThrows
<1>16. CASE CompleteStep(e)
  <2>1. CASE Goto(e, "catch") /\ UNCHANGED <<file, checked>>
    BY <1>16, <2>1, TypedCatch DEF CompleteStep
  <2>2. CASE Write(e, SucceedStep(seen[e].bundle, step[e]), {"release"}, "catch")
    <3>1. SucceedStep(seen[e].bundle, step[e]) \in Bundles
      BY <1>3, <1>4, <1>16, StepTransitionTypes DEF CompleteStep
    <3> QED BY <1>1, <1>2, <1>16, <2>2, <3>1, TypedWriteOne DEF CompleteStep
  <2> QED BY <1>16, <2>1, <2>2 DEF CompleteStep
<1>17. CASE FailIncomplete(e)
  <2>1. CASE Goto(e, "catch") /\ UNCHANGED <<file, checked>>
    BY <1>17, <2>1, TypedCatch DEF FailIncomplete
  <2>2. CASE Write(e, FailStep(seen[e].bundle, step[e]), {"release"}, "catch")
    <3>1. FailStep(seen[e].bundle, step[e]) \in Bundles
      BY <1>3, <1>4, <1>17, StepTransitionTypes DEF FailIncomplete
    <3> QED BY <1>1, <1>2, <1>17, <2>2, <3>1, TypedWriteOne DEF FailIncomplete
  <2> QED BY <1>17, <2>1, <2>2 DEF FailIncomplete
<1>18. CASE CatchError(e)
  <2>1. step'[e] \in Steps /\ step' = step BY <1>4, <1>18 DEF CatchError
  <2>2. CASE Read(e, "release")
    BY <1>1, <1>2, <1>18, <2>1, <2>2, TypedRead DEF CatchError
  <2>3. CASE CanFail(Bundle, step[e]) /\ Read(e, "fail")
    <3>1. pc'[e] = "fail" /\ seen'[e] = file
      BY <1>1, <1>2, <1>18, <2>3, ReadTypes DEF Rereads, CatchError
    <3>2. SeenGuard(e)' BY <2>1, <2>3, <3>1 DEF SeenGuard, Bundle
    <3> QED BY <1>1, <1>2, <1>18, <2>1, <2>3, <3>2, TypedRead DEF CatchError
  <2> QED BY <1>18, <2>2, <2>3 DEF CatchError
<1>19. CASE FailCaught(e)
  <2>1. FailStep(seen[e].bundle, step[e]) \in Bundles
    BY <1>3, <1>4, <1>19, StepTransitionTypes DEF FailCaught
  <2> QED BY <1>1, <1>2, <1>19, <2>1, TypedWriteOne DEF FailCaught
<1>20. CASE FinallyRelease(e)
  <2>1. CASE Done(e) BY <1>1, <1>20, <2>1, TypedDone DEF FinallyRelease
  <2>2. CASE Read(e, "releaseWrite") /\ UNCHANGED <<mine, step>>
    <3>1. step'[e] \in Steps BY <1>4, <1>20, <2>2 DEF FinallyRelease
    <3> QED BY <1>1, <1>2, <1>20, <2>2, <3>1, TypedRead DEF FinallyRelease
  <2> QED BY <1>20, <2>1, <2>2 DEF FinallyRelease
<1>21. CASE GiveUpLease(e)
  <2>1. ReleaseLease(seen[e].bundle) \in Bundles BY <1>3 DEF ReleaseLease, Bundles
  <2> QED BY <1>1, <1>2, <1>21, <2>1, TypedWriteOne DEF GiveUpLease
<1>22. CASE ActivityNotRecorded(e)
  <2>1. used' \in UsedTypes BY <1>2, <1>22 DEF ActivityNotRecorded, UsedTypes
  <2> QED BY <1>1, <1>22, <2>1, TypedReturn DEF ActivityNotRecorded
<1> QED
  BY <1>5, <1>6, <1>7, <1>8, <1>9, <1>10, <1>11, <1>12, <1>13, <1>14, <1>15, <1>16,
     <1>17, <1>18, <1>19, <1>20, <1>21, <1>22 DEF Execute

\* The heartbeat loop keeps Typed.
LEMMA TypedHeartbeat ==
    ASSUME Typed, NEW e \in Executors, Heartbeat(e) PROVE Typed'
<1>1. TypeOK /\ used \in UsedTypes /\ clock \in Nat /\ file \in Records
      /\ beatSeen[e] \in Records
  BY DEF Typed, TypeOK, UsedTypes
<1>2. BeatsTyped BY DEF Typed, TypeOK, PcsAndGuards, BeatsTyped
<1>3. ASSUME file' \in Records, used' \in UsedTypes, BeatsTyped',
             UNCHANGED <<clock, pc, seen, checked, step, mine>>
      PROVE  Typed'
  <2>1. TypeOK' BY <1>1, <1>3 DEF TypeOK, BeatsTyped, UsedTypes
  <2>2. PcsAndGuards'
    BY <1>3 DEF Typed, PcsAndGuards, SeenGuard, BeatsTyped
  <2> QED BY <2>1, <2>2 DEF Typed
<1>4. ASSUME BeatEnds(e) PROVE BeatsTyped'
  <2>1. beat' = [beat EXCEPT ![e] = "none"] /\ beatSeen' = [beatSeen EXCEPT ![e] = Blank]
    BY <1>4 DEF BeatEnds
  <2> QED BY <1>2, <2>1, BlankType DEF BeatsTyped
<1>5. CASE BeatRead(e)
  <2>1. used' \in UsedTypes BY <1>1, <1>5 DEF BeatRead, UsedTypes
  <2>2. file.bundle.lease # NoLease BY <1>5 DEF BeatRead, HoldsLease, Bundle
  <2>3. beat' = [beat EXCEPT ![e] = "read"] /\ beatSeen' = [beatSeen EXCEPT ![e] = file]
    BY <1>5 DEF BeatRead
  <2>4. BeatsTyped' BY <1>1, <1>2, <2>2, <2>3 DEF BeatsTyped
  <2> QED BY <1>1, <1>3, <1>5, <2>1, <2>4 DEF BeatRead
<1>6. CASE BeatWrite(e)
  <2>1. CASE BeatLands(e) /\ beat[e] # "none"
    <3>1. PICK t \in {clock, clock + 1} :
            /\ file' = [revision |-> beatSeen[e].revision + 1,
                        bundle |-> HeartbeatLease(beatSeen[e].bundle, t)]
            /\ Stamp(t)
      BY <2>1 DEF BeatLands
    <3>2. beatSeen[e].bundle \in Bundles /\ beatSeen[e].bundle.lease # NoLease
      BY <1>1, <1>2, <2>1 DEF BeatsTyped, Records
    <3>3. HeartbeatLease(beatSeen[e].bundle, t) \in Bundles
      BY <1>1, <3>2 DEF HeartbeatLease, Bundles, Leases
    <3>4. file' \in Records BY <1>1, <3>1, <3>3 DEF Records
    <3>5. used' \in UsedTypes BY <1>1, <3>1, StampType
    <3> QED BY <1>3, <1>4, <1>6, <2>1, <3>4, <3>5 DEF BeatWrite, BeatLands
  <2>2. CASE BeatEnds(e) /\ UNCHANGED <<file, used>>
    BY <1>1, <1>3, <1>4, <1>6, <2>2 DEF BeatWrite
  <2>3. CASE /\ beat[e] = "read"
             /\ beat' = [beat EXCEPT ![e] = "checked"]
             /\ UNCHANGED <<file, used, beatSeen>>
    <3>1. BeatsTyped' BY <1>2, <2>3 DEF BeatsTyped
    <3> QED BY <1>1, <1>3, <1>6, <2>3, <3>1 DEF BeatWrite
  <2> QED BY <1>6, <2>1, <2>2, <2>3 DEF BeatWrite
<1> QED BY <1>5, <1>6 DEF Heartbeat

\* The operator controls keep Typed.
LEMMA TypedOperate ==
    ASSUME Typed, NEW o \in Operators, Operate(o) PROVE Typed'
<1> USE DEF Free, Pcs, OwnPc, OperatorPcs, UsedTypes
<1>1. o \in Actors /\ o \notin Executors BY ExecutionAssumption DEF Actors
<1>2. TypeOK /\ used \in UsedTypes /\ clock \in Nat /\ HostOf[o] \in Hosts
  BY <1>1, ExecutionAssumption DEF Typed, TypeOK
<1>3. seen[o].bundle \in Bundles /\ Bundle \in Bundles /\ file.revision \in Nat
  BY <1>1, <1>2 DEF TypeOK, Records, Bundle
<1>4. SeenGuard(o) BY <1>1 DEF Typed, PcsAndGuards
<1>5. ASSUME NEW l \in OperatorPcs, Control(o, l),
             mine' = mine \/ \E m \in LeaseIds : mine' = [mine EXCEPT ![o] = m],
             l \in Free \/ SeenGuard(o)'
      PROVE  Typed'
  <2>1. used' \in UsedTypes BY <1>2, <1>5 DEF Control
  <2> QED BY <1>1, <1>5, <2>1, TypedRead DEF Control
<1>6. ASSUME NEW l \in OperatorPcs, Control(o, l), l \notin Rereads,
             mine' = mine \/ \E m \in LeaseIds : mine' = [mine EXCEPT ![o] = m]
      PROVE  pc'[o] = l /\ seen'[o] = file
  BY <1>1, <1>2, <1>6, ReadTypes DEF Control
<1>7. CASE CancelUnleased(o)
  <2>1. CanCancel(Bundle) /\ Control(o, "cancel") /\ mine' = mine
    BY <1>7 DEF CancelUnleased
  <2>2. pc'[o] = "cancel" /\ seen'[o] = file BY <1>6, <2>1 DEF Rereads
  <2>3. SeenGuard(o)' BY <2>1, <2>2 DEF SeenGuard, Bundle
  <2> QED BY <1>5, <2>1, <2>3
<1>8. CASE CancelLeased(o)
  <2>1. /\ CanCancel(Bundle) /\ Control(o, "cancelOwned")
        /\ mine' = [mine EXCEPT ![o] = Bundle.lease.id]
        /\ Bundle.lease # NoLease
    BY <1>8 DEF CancelLeased
  <2>2. Bundle.lease.id \in LeaseIds BY <1>3, <2>1 DEF Bundles, Leases
  <2>3. pc'[o] = "cancelOwned" /\ seen'[o] = file BY <1>6, <2>1, <2>2 DEF Rereads
  <2>4. SeenGuard(o)' BY <2>1, <2>3 DEF SeenGuard, Bundle
  <2> QED BY <1>5, <2>1, <2>2, <2>4
<1>9. CASE ResumeHumanEscalation(o)
  BY <1>5, <1>9 DEF ResumeHumanEscalation
<1>10. CASE SchedulerClaim(o)
  <2>1. mine' = [mine EXCEPT ![o] = <<o, file.revision>>] /\ Control(o, "claim")
    BY <1>10 DEF SchedulerClaim
  <2>2. <<o, file.revision>> \in LeaseIds BY <1>1, <1>3 DEF LeaseIds
  <2>3. mine'[o] # NoLease BY <1>1, <1>2, <2>1, <2>2, LeaseAssumption DEF TypeOK
  <2>4. pc'[o] = "claim" BY <1>6, <2>1, <2>2 DEF Rereads
  <2>5. SeenGuard(o)' BY <2>3, <2>4 DEF SeenGuard
  <2> QED BY <1>5, <2>1, <2>2, <2>5
<1>11. CASE RepairStaleHeartbeat(o)
  BY <1>5, <1>11 DEF RepairStaleHeartbeat
<1>12. CASE NoteRun(o) BY <1>5, <1>12 DEF NoteRun
<1>13. ASSUME NEW b \in Bundles, NEW l \in {"idle", "cancelRelease"},
              Write(o, b, {l}, "idle"), used' \in UsedTypes,
              UNCHANGED <<clock, beat, beatSeen>>
       PROVE  Typed'
  <2>1. l \in Free \cap Pcs /\ "idle" \in Free \cap Pcs /\ OwnPc(o, l) /\ OwnPc(o, "idle")
    BY <1>1
  <2> HIDE DEF Free, Pcs, OwnPc, OperatorPcs, UsedTypes
  <2> QED BY <1>1, <1>13, <2>1, TypedWriteOne
<1>14. CASE ControlWrite(o)
  <2> DEFINE b == seen[o].bundle
  <2>1. UNCHANGED <<clock, beat, beatSeen>> BY <1>14 DEF ControlWrite
  <2>2. /\ CancelRun(b) \in Bundles /\ ReleaseLease(b) \in Bundles
        /\ ExpireLeases(b, clock) \in Bundles
    <3>1. CancelRun(b) \in Bundles
      BY <1>3, RunTransitionTypes
    <3>2. ReleaseLease(b) \in Bundles /\ ExpireLeases(b, clock) \in Bundles
      BY <1>3 DEF Bundles, ReleaseLease, ExpireLeases
    <3> QED BY <3>1, <3>2
  <2>3. CASE UNCHANGED used /\ \E l \in {"idle", "cancelRelease"} :
                                   Write(o, CancelRun(b), {l}, "idle")
    BY <1>2, <1>13, <2>1, <2>2, <2>3
  <2>4. CASE UNCHANGED used /\ Write(o, ReleaseLease(b), {"idle"}, "idle")
    BY <1>2, <1>13, <2>1, <2>2, <2>4
  <2>5. CASE UNCHANGED used /\ \E s \in Steps :
                                   Write(o, ResumeRun(b, s), {"idle"}, "idle")
    BY <1>2, <1>3, <1>13, <2>1, <2>5, StepTransitionTypes
  <2>6. CASE \E t \in {clock, clock + 1} :
               /\ pc[o] = "claim"
               /\ Write(o, AcquireLease(b, mine[o], HostOf[o], t), {"idle"}, "idle")
               /\ Stamp(t)
    <3>1. PICK t \in {clock, clock + 1} :
            /\ Write(o, AcquireLease(b, mine[o], HostOf[o], t), {"idle"}, "idle")
            /\ Stamp(t)
      BY <2>6
    <3>2. mine[o] \in LeaseIds BY <1>1, <1>2, <1>4, <2>6 DEF SeenGuard, TypeOK
    <3>3. AcquireLease(b, mine[o], HostOf[o], t) \in Bundles
      BY <1>2, <1>3, <3>2 DEF AcquireLease, Bundles, Leases
    <3>4. used' \in UsedTypes BY <1>2, <3>1, StampType
    <3> QED BY <1>13, <2>1, <3>1, <3>3, <3>4
  <2>7. CASE UNCHANGED used /\ Write(o, ExpireLeases(b, clock), {"idle"}, "idle")
    BY <1>2, <1>13, <2>1, <2>2, <2>7
  <2>8. CASE UNCHANGED used /\ Write(o, b, {"idle"}, "idle")
    BY <1>2, <1>3, <1>13, <2>1, <2>8
  <2> QED BY <1>14, <2>3, <2>4, <2>5, <2>6, <2>7, <2>8 DEF ControlWrite
<1>15. CASE CancelRelease(o)
  <2>1. CASE Done(o) BY <1>1, <1>15, <2>1, TypedDone DEF CancelRelease
  <2>2. CASE Read(o, "cancelReleaseWrite") /\ UNCHANGED <<mine, step>>
    BY <1>1, <1>2, <1>15, <2>2, TypedRead DEF CancelRelease
  <2> QED BY <1>15, <2>1, <2>2 DEF CancelRelease
<1> QED
  BY <1>7, <1>8, <1>9, <1>10, <1>11, <1>12, <1>14, <1>15 DEF Operate

\* Time, crashes and restarts keep Typed.
LEMMA TypedEnvironment ==
    ASSUME Typed, LeaseLapses \/ \E h \in Hosts : Crash(h) \/ Restart(h)
    PROVE  Typed'
<1>1. TypeOK /\ PcsAndGuards BY DEF Typed
<1>2. CASE LeaseLapses
  <2>1. clock' \in Nat BY <1>1, <1>2 DEF LeaseLapses, TypeOK, Records, Bundles, Leases, Bundle
  <2>2. used' \in UsedTypes BY <1>1, <1>2 DEF LeaseLapses, TypeOK, UsedTypes
  <2>3. TypeOK' BY <1>1, <1>2, <2>1, <2>2 DEF LeaseLapses, TypeOK, UsedTypes
  <2>4. PcsAndGuards' BY <1>1, <1>2 DEF LeaseLapses, PcsAndGuards, SeenGuard
  <2> QED BY <2>3, <2>4 DEF Typed
<1>3. ASSUME NEW h \in Hosts, Crash(h) PROVE Typed'
  <2> DEFINE Hit(a) == HostOf[a] = h
  <2>1. /\ pc' = [a \in Actors |-> IF Hit(a) THEN "down" ELSE pc[a]]
        /\ seen' = [a \in Actors |-> IF Hit(a) THEN Blank ELSE seen[a]]
        /\ checked' = [a \in Actors |-> HostOf[a] # h /\ checked[a]]
        /\ mine' = [a \in Actors |-> IF Hit(a) THEN NoLease ELSE mine[a]]
        /\ step' = [e \in Executors |-> IF Hit(e) THEN 0 ELSE step[e]]
        /\ beat' = [e \in Executors |-> IF Hit(e) THEN "none" ELSE beat[e]]
        /\ beatSeen' = [e \in Executors |-> IF Hit(e) THEN Blank ELSE beatSeen[e]]
        /\ UNCHANGED <<file, clock>>
    BY <1>3 DEF Crash
  <2>2. used' \in UsedTypes BY <1>1, <1>3 DEF Crash, TypeOK, UsedTypes
  <2>3. "down" \in ExecutorPcs /\ "down" \in OperatorPcs /\ "down" \notin Engaged
    BY DEF ExecutorPcs, OperatorPcs, Engaged
  <2>4. TypeOK' BY <1>1, <2>1, <2>2, <2>3, BlankType DEF TypeOK, UsedTypes
  <2>5. ASSUME NEW a \in Actors PROVE SeenGuard(a)'
    <3>1. CASE Hit(a)
      <4>1. pc'[a] = "down" BY <2>1, <3>1
      <4> QED BY <4>1, FreeGuard DEF Free
    <3>2. CASE ~Hit(a)
      <4>1. pc'[a] = pc[a] /\ seen'[a] = seen[a] /\ mine'[a] = mine[a]
            /\ (a \in Executors => step'[a] = step[a])
        BY <2>1, <3>2
      <4>2. a \notin Executors => pc[a] \notin {"limit", "fail", "pause", "escalate"}
        BY <1>1 DEF PcsAndGuards, OperatorPcs, Actors
      <4>3. SeenGuard(a) BY <1>1 DEF PcsAndGuards
      <4> QED BY <4>1, <4>2, <4>3 DEF SeenGuard
    <3> QED BY <3>1, <3>2
  <2>6. PcsAndGuards' BY <1>1, <2>1, <2>3, <2>5 DEF PcsAndGuards, Actors
  <2> QED BY <2>4, <2>6 DEF Typed
<1>4. ASSUME NEW h \in Hosts, Restart(h) PROVE Typed'
  <2>1. /\ pc' = [a \in Actors |-> IF HostOf[a] = h THEN "idle" ELSE pc[a]]
        /\ UNCHANGED <<file, clock, seen, checked, step, mine, beat, beatSeen, used>>
    BY <1>4 DEF Restart
  <2>2. "idle" \in ExecutorPcs /\ "idle" \in OperatorPcs /\ "idle" \notin Engaged
    BY DEF ExecutorPcs, OperatorPcs, Engaged
  <2>3. TypeOK' BY <1>1, <2>1, <2>2 DEF TypeOK
  <2>4. ASSUME NEW a \in Actors PROVE SeenGuard(a)'
    <3>1. CASE pc'[a] = "idle" BY <3>1, FreeGuard DEF Free
    <3>2. CASE pc'[a] = pc[a] BY <1>1, <2>1, <3>2 DEF SeenGuard, PcsAndGuards
    <3> QED BY <2>1, <3>1, <3>2
  <2>5. PcsAndGuards' BY <1>1, <2>1, <2>2, <2>4 DEF PcsAndGuards, Actors
  <2> QED BY <2>3, <2>5 DEF Typed
<1> QED BY <1>2, <1>3, <1>4

\* The initial states are typed.
LEMMA TypedInit == Init => Typed
<1> SUFFICES ASSUME Init PROVE Typed OBVIOUS
<1>1. PICK initial \in [Steps -> InitialStatuses] :
        file = [revision |-> 1, bundle |-> [Blank.bundle EXCEPT !.step = initial]]
  BY DEF Init
<1>2. initial \in [Steps -> StepStatuses]
  BY ExecutionAssumption DEF StepStatuses
<1>3. file \in Records
  BY <1>1, <1>2 DEF Records, Bundles, Blank, RunStatuses
<1>4. "idle" \in ExecutorPcs /\ "idle" \in OperatorPcs /\ "idle" \notin Engaged
  BY DEF ExecutorPcs, OperatorPcs, Engaged
<1>5. TypeOK BY <1>3, <1>4, BlankType DEF Init, TypeOK
<1>6. PcsAndGuards BY <1>4 DEF Init, PcsAndGuards, SeenGuard, Actors
<1> QED BY <1>5, <1>6 DEF Typed

\* Every step keeps Typed.
LEMMA TypedNext == Typed /\ [Next]_vars => Typed'
<1> SUFFICES ASSUME Typed, [Next]_vars PROVE Typed' OBVIOUS
<1>1. CASE \E e \in Executors : Drain(e) \/ Execute(e) \/ Heartbeat(e)
  BY <1>1, TypedDrain, TypedExecute, TypedHeartbeat
<1>2. CASE \E o \in Operators : Operate(o) BY <1>2, TypedOperate
<1>3. CASE LeaseLapses \/ \E h \in Hosts : Crash(h) \/ Restart(h)
  BY <1>3, TypedEnvironment
<1>4. CASE UNCHANGED vars
  BY <1>4 DEF vars, Typed, TypeOK, PcsAndGuards, SeenGuard
<1> QED BY <1>1, <1>2, <1>3, <1>4 DEF Next

\* Every reachable state is type correct, with or without the commit window: in
\* particular no write stores a lease without an id or renews a lease that is gone.
THEOREM TypeCorrect == Spec => []TypeOK
<1>1. Typed => TypeOK BY DEF Typed
<1> QED BY <1>1, TypedInit, TypedNext, PTL DEF Spec
================================================================================
