------------------------------ MODULE ExecutionRun ------------------------------
(***************************************************************************)
(* One stored run shared by the service hosts that drain it, the lease     *)
(* heartbeats of their executions and the operators that control it.       *)
(*                                                                         *)
(* Everything meets in one file, record.json.  An operation reads it,      *)
(* awaits, and writes back a bundle derived from what it read; the write   *)
(* carries the revision that was read and is refused when the file has     *)
(* moved on (control.ts, store.ts).  An action below is the code between   *)
(* two awaits on that file, so any interleaving of the hosts' event loops  *)
(* and processes is a behaviour.                                           *)
(*                                                                         *)
(* writeRecord itself reads the file, compares revisions and renames a     *)
(* temporary file over it, with awaits in between and no lock.  With       *)
(* CommitWindow = TRUE the comparison and the rename are two steps, as in  *)
(* the code; with FALSE they are one, which is the compare-and-swap the    *)
(* rest of the runtime relies on.                                          *)
(***************************************************************************)
EXTENDS RunRecord

CONSTANTS
    Hosts,            \* service hosts (processes), each with one owner id
    Executors,        \* drain passes: the queued drain of a host, a targeted one
    Operators,        \* callers of the operator controls of a host
    HostOf,           \* the host an executor or operator runs in
    InitialStatuses,  \* the statuses createRun gives to steps
    BrowserBacked,    \* requiresConfiguredStoredStepExecutor
    CommitWindow,     \* are check and rename separate steps of a write?
    MaxLate,          \* bound: leases that lapse while their execution lives
    MaxCrashes,       \* bound: host crashes and failed activity records
    MaxBeats,         \* bound: lease heartbeats
    MaxControls,      \* bound: operator controls
    MaxRevision       \* bound: the revision up to which stranded steps are recovered

Actors == Executors \cup Operators

ASSUME ExecutionAssumption ==
    /\ Executors \cap Operators = {}
    /\ HostOf \in [Actors -> Hosts]
    /\ InitialStatuses \subseteq {"planned", "runnable", "blocked"}
    /\ BrowserBacked \in BOOLEAN
    /\ CommitWindow \in BOOLEAN
    /\ {MaxLate, MaxCrashes, MaxBeats, MaxControls, MaxRevision} \subseteq Nat

VARIABLES
    file,      \* record.json: [revision, bundle]
    clock,     \* the wall clock; a lease granted at t expires at t + 1
    pc,        \* where each executor and operator is
    seen,      \* the record each one works from: last read or last written
    checked,   \* has its write passed the revision check? (CommitWindow only)
    step,      \* the step an executor has chosen, 0 before that
    mine,      \* the lease id an executor or operator works under
    beat,      \* the heartbeat in flight of an executor
    beatSeen,  \* the record that heartbeat read
    used       \* how much of each bound has been used

vars == <<file, clock, pc, seen, checked, step, mine, beat, beatSeen, used>>

LeaseIds == Actors \X Nat
Leases == [id : LeaseIds, owner : Hosts, expiresAt : Nat]
Bundles == [run : RunStatuses, step : [Steps -> StepStatuses],
            escalated : [Steps -> BOOLEAN], lease : Leases \cup {NoLease}]
Records == [revision : Nat, bundle : Bundles]

ASSUME LeaseAssumption == NoLease \notin Leases \cup LeaseIds

\* what an actor at rest remembers: nothing
Blank == [revision |-> 0,
          bundle |-> [run |-> "planned", step |-> [s \in Steps |-> "planned"],
                      escalated |-> [s \in Steps |-> FALSE], lease |-> NoLease]]

ExecutorPcs == {"down", "idle", "expire", "inspect", "recover", "reread",
                "recoverRetry", "execute", "limit", "acquire", "acquireWrite",
                "adopt", "adoptWrite", "start", "executing", "pause", "escalate",
                "complete", "missing", "catch", "fail", "release", "releaseWrite"}
OperatorPcs == {"down", "idle", "cancel", "cancelOwned", "cancelRelease",
                "cancelReleaseWrite", "resume", "claim", "repair", "note"}

\* the pcs at which an executor works on a step it has chosen
Engaged == {"limit", "acquire", "acquireWrite", "adopt", "adoptWrite", "start",
            "executing", "pause", "escalate", "complete", "missing", "catch", "fail",
            "release", "releaseWrite"}

TypeOK ==
    /\ file \in Records
    /\ clock \in Nat
    /\ pc \in [Actors -> ExecutorPcs \cup OperatorPcs]
    /\ seen \in [Actors -> Records]
    /\ checked \in [Actors -> BOOLEAN]
    /\ step \in [Executors -> Steps \cup {0}]
    /\ mine \in [Actors -> LeaseIds \cup {NoLease}]
    /\ beat \in [Executors -> {"none", "read", "checked"}]
    /\ beatSeen \in [Executors -> Records]
    /\ used \in [late : Nat, crashes : Nat, beats : Nat, controls : Nat]

\* createRun has stored the run; every host is up
Init ==
    /\ \E initial \in [Steps -> InitialStatuses] :
         file = [revision |-> 1, bundle |-> [Blank.bundle EXCEPT !.step = initial]]
    /\ clock = 0
    /\ pc = [a \in Actors |-> "idle"]
    /\ seen = [a \in Actors |-> Blank]
    /\ checked = [a \in Actors |-> FALSE]
    /\ step = [e \in Executors |-> 0]
    /\ mine = [a \in Actors |-> NoLease]
    /\ beat = [e \in Executors |-> "none"]
    /\ beatSeen = [e \in Executors |-> Blank]
    /\ used = [late |-> 0, crashes |-> 0, beats |-> 0, controls |-> 0]

--------------------------------------------------------------------------------
(***************************************************************************)
(* Reading, writing and finishing.                                         *)
(***************************************************************************)
Bundle == file.bundle

\* actor a returns or throws to its caller
Done(a) ==
    /\ pc' = [pc EXCEPT ![a] = "idle"]
    /\ seen' = [seen EXCEPT ![a] = Blank]
    /\ mine' = [mine EXCEPT ![a] = NoLease]
    /\ step' = [e \in Executors |-> IF e = a THEN 0 ELSE step[e]]

\* the pcs whose first act is to read the run
Rereads == {"inspect", "reread", "execute", "acquire", "adopt", "catch", "release",
            "cancelRelease"}

\* a continues at l, working from record r
Continue(a, l, r) ==
    /\ pc' = [pc EXCEPT ![a] = l]
    /\ seen' = [seen EXCEPT ![a] = IF l \in Rereads THEN Blank ELSE r]

Goto(a, l) ==
    IF l = "idle" THEN Done(a)
    ELSE Continue(a, l, seen[a]) /\ UNCHANGED <<mine, step>>

\* a reads the file and continues at l
Read(a, l) == Continue(a, l, file)

\* the bundle b reaches the disk; the record returned is what a works from next
Land(a, b, l) ==
    LET record == [revision |-> seen[a].revision + 1, bundle |-> b] IN
    /\ file' = record
    /\ checked' = [checked EXCEPT ![a] = FALSE]
    /\ IF l = "idle" THEN Done(a)
       ELSE Continue(a, l, record) /\ UNCHANGED <<mine, step>>

(***************************************************************************)
(* writeRecord(b, expectedRevision = seen[a].revision): continue at one of *)
(* ok when it lands, at bad when the revision does not match.              *)
(***************************************************************************)
Write(a, b, ok, bad) ==
    \/ /\ ~CommitWindow
       /\ file.revision = seen[a].revision
       /\ \E l \in ok : Land(a, b, l)
    \/ /\ CommitWindow /\ ~checked[a]
       /\ file.revision = seen[a].revision
       /\ checked' = [checked EXCEPT ![a] = TRUE]
       /\ UNCHANGED <<file, pc, seen, mine, step>>
    \/ /\ checked[a]
       /\ \E l \in ok : Land(a, b, l)
    \/ /\ ~checked[a]
       /\ file.revision # seen[a].revision
       /\ Goto(a, bad)
       /\ UNCHANGED <<file, checked>>

(***************************************************************************)
(* The expiry written with a lease is fixed before the write is awaited,   *)
(* or taken from the evidence's observedAt, so it may have passed when the *)
(* write lands.                                                            *)
(***************************************************************************)
Stamp(expiresAt) ==
    \/ (expiresAt = clock + 1 \/ file' = file) /\ UNCHANGED used
    \/ /\ expiresAt = clock /\ file' # file /\ used.late < MaxLate
       /\ used' = [used EXCEPT !.late = @ + 1]

--------------------------------------------------------------------------------
(***************************************************************************)
(* A drain pass (drainRunsOnce) up to the execution of the run.            *)
(***************************************************************************)

\* mutant of SweepRun: the sweep leaves lapsed leases alone
SweepNothing(e) ==
    /\ pc[e] = "idle"
    /\ Read(e, "inspect")
    /\ UNCHANGED <<file, clock, checked, step, mine, beat, beatSeen, used>>

\* the liveness sweep: expire the lease if its time has passed
SweepRun(e) ==
    /\ pc[e] = "idle"
    /\ Read(e, IF Lapsed(Bundle, clock) THEN "expire" ELSE "inspect")
    /\ UNCHANGED <<file, clock, checked, step, mine, beat, beatSeen, used>>

ExpireLease(e) ==
    /\ pc[e] = "expire"
    /\ Write(e, ExpireLeases(seen[e].bundle, clock), {"inspect"}, "idle")
    /\ UNCHANGED <<clock, beat, beatSeen, used>>

(***************************************************************************)
(* Skip the run when another host holds it, or this host does and there    *)
(* is nothing to start; adopt a lease this host already owns; otherwise    *)
(* claim it, recovering a stranded running step first.                     *)
(***************************************************************************)
InspectRun(e) ==
    LET own == /\ Bundle.lease # NoLease /\ Bundle.lease.owner = HostOf[e]
               /\ HasNextRunnable(Bundle)
        claim == /\ Claimable(Bundle)
                 /\ Running(Bundle) # {} => file.revision < MaxRevision
    IN
    /\ pc[e] = "inspect"
    /\ \/ /\ own
          /\ mine' = [mine EXCEPT ![e] = Bundle.lease.id]
          /\ Read(e, "execute")
          /\ UNCHANGED step
       \/ /\ claim
          /\ Read(e, IF Running(Bundle) # {} THEN "recover" ELSE "execute")
          /\ UNCHANGED <<mine, step>>
       \/ /\ ~own /\ ~claim
          /\ Done(e)
    /\ UNCHANGED <<file, clock, checked, beat, beatSeen, used>>

\* recoverAndPersistStrandedRun, first and last attempt
RecoverStranded(e) ==
    /\ \/ pc[e] = "recover"
          /\ Write(e, RecoverRun(seen[e].bundle), {"execute"}, "reread")
       \/ pc[e] = "recoverRetry"
          /\ Write(e, RecoverRun(seen[e].bundle), {"execute"}, "idle")
    /\ UNCHANGED <<clock, beat, beatSeen, used>>

RereadStranded(e) ==
    /\ pc[e] = "reread"
    /\ IF Bundle.lease # NoLease \/ Running(Bundle) = {}
       THEN Done(e)
       ELSE Read(e, "recoverRetry") /\ UNCHANGED <<mine, step>>
    /\ UNCHANGED <<file, clock, checked, beat, beatSeen, used>>

--------------------------------------------------------------------------------
(***************************************************************************)
(* executeStoredExecutionRunOnce.                                          *)
(***************************************************************************)

\* inspect the run again and fix the step to execute, which later reads do not revise
ChooseStep(e) ==
    /\ pc[e] = "execute"
    /\ \/ /\ ~HasNextRunnable(Bundle) /\ Done(e)
       \/ \E s \in Steps :
            /\ NextRunnable(Bundle, s)
            /\ step' = [step EXCEPT ![e] = s]
            /\ Read(e, "limit")
            /\ UNCHANGED mine
       \/ \E s \in Steps :
            /\ NextRunnable(Bundle, s) /\ mine[e] = NoLease
            /\ step' = [step EXCEPT ![e] = s]
            /\ Read(e, "acquire")
            /\ UNCHANGED mine
       \/ \E s \in Steps :
            /\ NextRunnable(Bundle, s) /\ mine[e] # NoLease
            /\ HoldsLease(Bundle, mine[e])
            /\ step' = [step EXCEPT ![e] = s]
            /\ Read(e, "adopt")
            /\ UNCHANGED mine
       \/ /\ HasNextRunnable(Bundle) /\ mine[e] # NoLease
          /\ ~HoldsLease(Bundle, mine[e])
          /\ Done(e)
    /\ UNCHANGED <<file, clock, checked, beat, beatSeen, used>>

\* a task limit (tokens, requests, minutes, turns) is exceeded: fail, without a lease
FailOnLimit(e) ==
    /\ pc[e] = "limit"
    /\ Write(e, FailStep(seen[e].bundle, step[e]), {"idle"}, "idle")
    /\ UNCHANGED <<clock, beat, beatSeen, used>>

\* mutant of RequestLease: the new lease gets no id
RequestNameless(e) ==
    /\ pc[e] = "acquire"
    /\ Bundle.lease = NoLease
    /\ Read(e, "acquireWrite")
    /\ UNCHANGED <<file, clock, checked, step, mine, beat, beatSeen, used>>

\* control.acquireLease: the read, then the write
RequestLease(e) ==
    /\ pc[e] = "acquire"
    /\ IF Bundle.lease # NoLease THEN Done(e)
       ELSE /\ Read(e, "acquireWrite")
            /\ mine' = [mine EXCEPT ![e] = <<e, file.revision>>]
            /\ UNCHANGED step
    /\ UNCHANGED <<file, clock, checked, beat, beatSeen, used>>

TakeLease(e) ==
    /\ pc[e] = "acquireWrite"
    /\ \E expiresAt \in {clock, clock + 1} :
         /\ Write(e, AcquireLease(seen[e].bundle, mine[e], HostOf[e], expiresAt),
                  {"start"}, "idle")
         /\ Stamp(expiresAt)
    /\ UNCHANGED <<clock, beat, beatSeen>>

\* control.heartbeatLease on the lease the host already owns
RenewLease(e) ==
    /\ pc[e] = "adopt"
    /\ IF ~HoldsLease(Bundle, mine[e]) THEN Done(e)
       ELSE Read(e, "adoptWrite") /\ UNCHANGED <<mine, step>>
    /\ UNCHANGED <<file, clock, checked, beat, beatSeen, used>>

AdoptLease(e) ==
    /\ pc[e] = "adoptWrite"
    /\ \E expiresAt \in {clock, clock + 1} :
         /\ Write(e, HeartbeatLease(seen[e].bundle, expiresAt), {"start"}, "idle")
         /\ Stamp(expiresAt)
    /\ UNCHANGED <<clock, beat, beatSeen>>

(***************************************************************************)
(* onLeaseHeartbeat (recordRunnerActivity) is awaited between taking the   *)
(* lease and the try block: when it throws, nobody releases the lease.     *)
(***************************************************************************)
ActivityNotRecorded(e) ==
    /\ pc[e] = "start" /\ beat[e] = "none"
    /\ used.crashes < MaxCrashes
    /\ used' = [used EXCEPT !.crashes = @ + 1]
    /\ Done(e)
    /\ UNCHANGED <<file, clock, checked, beat, beatSeen>>

(***************************************************************************)
(* Mark the step running.  What follows depends on the step's context:     *)
(* pause or fail for human escalation, or call executeStep.                *)
(***************************************************************************)
BeginStep(e) ==
    /\ pc[e] = "start"
    /\ IF CanStart(seen[e].bundle, step[e])
       THEN Write(e, StartStep(seen[e].bundle, step[e]),
                  {"executing", "pause", "escalate"}, "catch")
       ELSE Goto(e, "catch") /\ UNCHANGED <<file, checked>>
    /\ UNCHANGED <<clock, beat, beatSeen, used>>

PauseForHuman(e) ==
    /\ pc[e] = "pause"
    /\ Write(e, PauseStep(seen[e].bundle, step[e]), {"release"}, "catch")
    /\ UNCHANGED <<clock, beat, beatSeen, used>>

FailForHuman(e) ==
    /\ pc[e] = "escalate"
    /\ Write(e, FailStep(seen[e].bundle, step[e]), {"release"}, "catch")
    /\ UNCHANGED <<clock, beat, beatSeen, used>>

Cancelled(b, s) == b.run = "cancelled" \/ b.step[s] = "cancelled"

\* executeStep returns: stop the heartbeat, read the run again, settle the outcome
StepReturns(e) ==
    /\ pc[e] = "executing" /\ beat[e] = "none"
    /\ IF Cancelled(Bundle, step[e]) THEN Read(e, "release")
       ELSE \E l \in {"complete", "missing"} : Read(e, l)
    /\ UNCHANGED <<file, clock, checked, step, mine, beat, beatSeen, used>>

StepThrows(e) ==
    /\ pc[e] = "executing"
    /\ Goto(e, "catch")
    /\ UNCHANGED <<file, clock, checked, beat, beatSeen, used>>

\* mutant of CompleteStep: complete the step whatever its status has become
CompleteBlindly(e) ==
    /\ pc[e] = "complete"
    /\ Write(e, SucceedStep(seen[e].bundle, step[e]), {"release"}, "catch")
    /\ UNCHANGED <<clock, beat, beatSeen, used>>

CompleteStep(e) ==
    /\ pc[e] = "complete"
    /\ IF CanSucceed(seen[e].bundle, step[e])
       THEN Write(e, SucceedStep(seen[e].bundle, step[e]), {"release"}, "catch")
       ELSE Goto(e, "catch") /\ UNCHANGED <<file, checked>>
    /\ UNCHANGED <<clock, beat, beatSeen, used>>

\* a required output is missing
FailIncomplete(e) ==
    /\ pc[e] = "missing"
    /\ IF CanFail(seen[e].bundle, step[e])
       THEN Write(e, FailStep(seen[e].bundle, step[e]), {"release"}, "catch")
       ELSE Goto(e, "catch") /\ UNCHANGED <<file, checked>>
    /\ UNCHANGED <<clock, beat, beatSeen, used>>

\* the catch block: read the run again; cancelled runs and finished steps are left alone
CatchError(e) ==
    /\ pc[e] = "catch" /\ beat[e] = "none"
    /\ Read(e, IF Cancelled(Bundle, step[e]) \/ ~CanFail(Bundle, step[e])
               THEN "release" ELSE "fail")
    /\ UNCHANGED <<file, clock, checked, step, mine, beat, beatSeen, used>>

FailCaught(e) ==
    /\ pc[e] = "fail"
    /\ Write(e, FailStep(seen[e].bundle, step[e]), {"release"}, "release")
    /\ UNCHANGED <<clock, beat, beatSeen, used>>

\* the finally block: releaseExecutionRunLeaseIfStillActive
FinallyRelease(e) ==
    /\ pc[e] = "release" /\ beat[e] = "none"
    /\ IF HoldsLease(Bundle, mine[e])
       THEN Read(e, "releaseWrite") /\ UNCHANGED <<mine, step>>
       ELSE Done(e)
    /\ UNCHANGED <<file, clock, checked, beat, beatSeen, used>>

GiveUpLease(e) ==
    /\ pc[e] = "releaseWrite"
    /\ Write(e, ReleaseLease(seen[e].bundle), {"idle"}, "idle")
    /\ UNCHANGED <<clock, beat, beatSeen, used>>

--------------------------------------------------------------------------------
(***************************************************************************)
(* The heartbeat loop of an execution: a timer, or, when browser-backed,   *)
(* evidence reported by the running step.  Its errors are swallowed.       *)
(***************************************************************************)
BeatPcs == IF BrowserBacked THEN {"executing"}
           ELSE {"start", "executing", "pause", "escalate"}

BeatRead(e) ==
    /\ pc[e] \in BeatPcs /\ beat[e] = "none"
    /\ HoldsLease(Bundle, mine[e])
    /\ used.beats < MaxBeats
    /\ used' = [used EXCEPT !.beats = @ + 1]
    /\ beat' = [beat EXCEPT ![e] = "read"]
    /\ beatSeen' = [beatSeen EXCEPT ![e] = file]
    /\ UNCHANGED <<file, clock, pc, seen, checked, step, mine>>

BeatEnds(e) ==
    /\ beat' = [beat EXCEPT ![e] = "none"]
    /\ beatSeen' = [beatSeen EXCEPT ![e] = Blank]

BeatLands(e) ==
    /\ \E expiresAt \in {clock, clock + 1} :
         /\ file' = [revision |-> beatSeen[e].revision + 1,
                     bundle |-> HeartbeatLease(beatSeen[e].bundle, expiresAt)]
         /\ Stamp(expiresAt)
    /\ BeatEnds(e)

BeatWrite(e) ==
    /\ \/ /\ beat[e] = "read" /\ ~CommitWindow
          /\ file.revision = beatSeen[e].revision
          /\ BeatLands(e)
       \/ /\ beat[e] = "read" /\ CommitWindow
          /\ file.revision = beatSeen[e].revision
          /\ beat' = [beat EXCEPT ![e] = "checked"]
          /\ UNCHANGED <<file, used, beatSeen>>
       \/ /\ beat[e] = "checked"
          /\ BeatLands(e)
       \/ /\ beat[e] = "read"
          /\ file.revision # beatSeen[e].revision
          /\ BeatEnds(e)
          /\ UNCHANGED <<file, used>>
    /\ UNCHANGED <<clock, pc, seen, checked, step, mine>>

--------------------------------------------------------------------------------
(***************************************************************************)
(* Operator controls of a service host: the read and its early returns,    *)
(* then the write.                                                         *)
(***************************************************************************)
Control(o, l) ==
    /\ pc[o] = "idle" /\ used.controls < MaxControls
    /\ used' = [used EXCEPT !.controls = @ + 1]
    /\ Read(o, l)
    /\ UNCHANGED <<file, clock, checked, step, beat, beatSeen>>

\* cancelOwnedRun of a run nobody leases
CancelUnleased(o) ==
    /\ Bundle.lease = NoLease
    /\ Bundle.run \notin TerminalRun /\ CanCancel(Bundle)
    /\ Control(o, "cancel") /\ UNCHANGED mine

\* cancelOwnedRun of a run this host leases: the run status is not looked at
CancelLeased(o) ==
    /\ Bundle.lease # NoLease /\ Bundle.lease.owner = HostOf[o]
    /\ CanCancel(Bundle)
    /\ mine' = [mine EXCEPT ![o] = Bundle.lease.id]
    /\ Control(o, "cancelOwned")

ResumeHumanEscalation(o) ==
    /\ \E s \in Steps : ResumeTarget(Bundle, s)
    /\ Control(o, "resume") /\ UNCHANGED mine

(***************************************************************************)
(* claimLocalRunWithSchedulerAuthority: a claimable run, or one whose      *)
(* lease has lapsed and would be claimable without it.  The freshness of   *)
(* the runners is not modelled here and may refuse any claim.              *)
(***************************************************************************)
SchedulerClaim(o) ==
    /\ Claimable(ExpireLeases(Bundle, clock))
    /\ mine' = [mine EXCEPT ![o] = <<o, file.revision>>]
    /\ Control(o, "claim")

RepairStaleHeartbeat(o) ==
    /\ Lapsed(Bundle, clock)
    /\ Control(o, "repair") /\ UNCHANGED mine

\* resolveLocalActionRequest and persistOperatorDrainEvent: nothing modelled changes
NoteRun(o) == Control(o, "note") /\ UNCHANGED mine

ControlWrite(o) ==
    /\ LET b == seen[o].bundle IN
       \/ /\ pc[o] = "cancel" /\ Write(o, CancelRun(b), {"idle"}, "idle")
          /\ UNCHANGED used
       \/ /\ pc[o] = "cancelOwned"
          /\ Write(o, CancelRun(b), {"cancelRelease"}, "idle")
          /\ UNCHANGED used
       \/ /\ pc[o] = "cancelReleaseWrite"
          /\ Write(o, ReleaseLease(b), {"idle"}, "idle")
          /\ UNCHANGED used
       \/ \E s \in Steps :
            /\ pc[o] = "resume" /\ ResumeTarget(b, s)
            /\ Write(o, ResumeRun(b, s), {"idle"}, "idle")
            /\ UNCHANGED used
       \/ \E expiresAt \in {clock, clock + 1} :
            /\ pc[o] = "claim"
            /\ Write(o, AcquireLease(b, mine[o], HostOf[o], expiresAt),
                     {"idle"}, "idle")
            /\ Stamp(expiresAt)
       \/ /\ pc[o] = "repair" /\ Write(o, ExpireLeases(b, clock), {"idle"}, "idle")
          /\ UNCHANGED used
       \/ /\ pc[o] = "note" /\ Write(o, b, {"idle"}, "idle")
          /\ UNCHANGED used
    /\ UNCHANGED <<clock, beat, beatSeen>>

\* the second half of cancelling a leased run: control.releaseLease reads again
CancelRelease(o) ==
    /\ pc[o] = "cancelRelease"
    /\ IF HoldsLease(Bundle, mine[o])
       THEN Read(o, "cancelReleaseWrite") /\ UNCHANGED <<mine, step>>
       ELSE Done(o)
    /\ UNCHANGED <<file, clock, checked, beat, beatSeen, used>>

--------------------------------------------------------------------------------
(***************************************************************************)
(* Time and crashes.  A lease is "worked" when an execution or a pending   *)
(* cancellation still refers to it.                                        *)
(***************************************************************************)
Worked(b) == \E a \in Actors : pc[a] # "down" /\ b.lease # NoLease /\ mine[a] = b.lease.id

\* time passes until the stored lease has lapsed
LeaseLapses ==
    /\ Bundle.lease # NoLease /\ Bundle.lease.expiresAt > clock
    /\ clock' = Bundle.lease.expiresAt
    /\ IF Worked(Bundle)
       THEN used.late < MaxLate /\ used' = [used EXCEPT !.late = @ + 1]
       ELSE UNCHANGED used
    /\ UNCHANGED <<file, pc, seen, checked, step, mine, beat, beatSeen>>

Crash(h) ==
    /\ used.crashes < MaxCrashes
    /\ \E a \in Actors : HostOf[a] = h /\ pc[a] # "down"
    /\ used' = [used EXCEPT !.crashes = @ + 1]
    /\ pc' = [a \in Actors |-> IF HostOf[a] = h THEN "down" ELSE pc[a]]
    /\ seen' = [a \in Actors |-> IF HostOf[a] = h THEN Blank ELSE seen[a]]
    /\ checked' = [a \in Actors |-> HostOf[a] # h /\ checked[a]]
    /\ mine' = [a \in Actors |-> IF HostOf[a] = h THEN NoLease ELSE mine[a]]
    /\ step' = [e \in Executors |-> IF HostOf[e] = h THEN 0 ELSE step[e]]
    /\ beat' = [e \in Executors |-> IF HostOf[e] = h THEN "none" ELSE beat[e]]
    /\ beatSeen' = [e \in Executors |-> IF HostOf[e] = h THEN Blank ELSE beatSeen[e]]
    /\ UNCHANGED <<file, clock>>

Restart(h) ==
    /\ \E a \in Actors : HostOf[a] = h /\ pc[a] = "down"
    /\ pc' = [a \in Actors |-> IF HostOf[a] = h THEN "idle" ELSE pc[a]]
    /\ UNCHANGED <<file, clock, seen, checked, step, mine, beat, beatSeen, used>>

--------------------------------------------------------------------------------
Drain(e) ==
    \/ SweepRun(e) \/ ExpireLease(e) \/ InspectRun(e)
    \/ RecoverStranded(e) \/ RereadStranded(e)

Execute(e) ==
    \/ ChooseStep(e) \/ FailOnLimit(e)
    \/ RequestLease(e) \/ TakeLease(e) \/ RenewLease(e) \/ AdoptLease(e)
    \/ ActivityNotRecorded(e) \/ BeginStep(e) \/ PauseForHuman(e) \/ FailForHuman(e)
    \/ StepReturns(e) \/ StepThrows(e) \/ CompleteStep(e) \/ FailIncomplete(e)
    \/ CatchError(e) \/ FailCaught(e) \/ FinallyRelease(e) \/ GiveUpLease(e)

Heartbeat(e) == BeatRead(e) \/ BeatWrite(e)

Operate(o) ==
    \/ CancelUnleased(o) \/ CancelLeased(o) \/ ResumeHumanEscalation(o)
    \/ SchedulerClaim(o) \/ RepairStaleHeartbeat(o) \/ NoteRun(o)
    \/ ControlWrite(o) \/ CancelRelease(o)

Next ==
    \/ \E e \in Executors : Drain(e) \/ Execute(e) \/ Heartbeat(e)
    \/ \E o \in Operators : Operate(o)
    \/ LeaseLapses
    \/ \E h \in Hosts : Crash(h) \/ Restart(h)

Spec == Init /\ [][Next]_vars

(***************************************************************************)
(* Fairness.  Every host keeps draining (the background drain timer),      *)
(* every await settles, a step's execution ends (executors time out), a    *)
(* crashed host is restarted by its supervisor, and time passes: a lease   *)
(* that no execution works under any more lapses.  Nothing is assumed of   *)
(* operators, of heartbeats that have not begun, or of a lapse of a lease  *)
(* that is being worked.                                                   *)
(***************************************************************************)
FairSpec ==
    /\ Spec
    /\ \A e \in Executors : WF_vars(Drain(e) \/ Execute(e)) /\ WF_vars(BeatWrite(e))
    /\ \A o \in Operators : WF_vars(ControlWrite(o) \/ CancelRelease(o))
    /\ WF_vars(~Worked(Bundle) /\ LeaseLapses)
    /\ \A h \in Hosts : WF_vars(Restart(h))

--------------------------------------------------------------------------------
(***************************************************************************)
(* Properties.                                                             *)
(***************************************************************************)

\* The runtime implements RunLifecycle: whatever the hosts, heartbeats and operators
\* do, the stored run only makes the transitions a run may make.  In particular a
\* step chosen by executeStoredExecutionRunOnce from an inspection that is stale when
\* startExecutionRunStep runs is started only if it still has its turn.
Lifecycle == INSTANCE RunLifecycle
               WITH run <- file.bundle.run, step <- file.bundle.step,
                    escalated <- file.bundle.escalated
ImplementsLifecycle == Lifecycle!LifeSpec

\* At most one step of the run is marked running, although startExecutionRunStep
\* checks the status of the step it starts and of no other.
OneStepAtATime ==
    \A s, t \in Steps : Bundle.step[s] = "running" /\ Bundle.step[t] = "running" => s = t

\* The run status never contradicts the steps, although start, recovery and resume
\* write 'running' without looking: success means every step succeeded, a failed run
\* has a failed step, and a run with a failed step is failed or was cancelled since.
RunStatusHonest ==
    LET some(status) == \E s \in Steps : Bundle.step[s] = status IN
    /\ Bundle.run = "succeeded" <=> \A s \in Steps : Bundle.step[s] = "succeeded"
    /\ Bundle.run = "failed" => some("failed")
    /\ some("failed") => Bundle.run \in {"failed", "cancelled"}
    /\ some("running") => Bundle.run = "running"
    /\ Bundle.run = "cancelled" => some("cancelled")

\* "if delayed step work finishes after cancellation wins, preserve the cancelled
\* terminal state": a step that an operator cancelled is cancelled for good, whichever
\* completion, failure, recovery or heartbeat was under way (cancelOwnedRun against
\* executeStoredExecutionRunOnce).
CancelWins ==
    [][\A s \in Steps : Bundle.step[s] = "cancelled" /\ ~Bundle.escalated[s]
                          => Bundle'.step[s] = "cancelled" /\ ~Bundle'.escalated[s]]_vars

\* A recorded outcome is final: an executor that lost its lease, a recovery or a
\* cancellation never turns a succeeded or failed step into anything else.
OutcomesAreFinal ==
    [][\A s \in Steps : Bundle.step[s] \in {"succeeded", "failed"}
                          => Bundle'.step[s] = Bundle.step[s]]_vars

\* A lease that has not lapsed ends or changes hands only by a step of the host that
\* owns it (release, cancellation, heartbeat): sweeps, repairs and scheduler claims of
\* other hosts take nothing from a live owner, even when they act on an older read.
LiveLeaseIsKept ==
    [][Bundle.lease # NoLease /\ Bundle.lease.expiresAt > clock
         /\ (Bundle'.lease = NoLease \/ Bundle'.lease.id # Bundle.lease.id)
         => \E a \in Actors : HostOf[a] = Bundle.lease.owner /\ pc'[a] # pc[a]]_vars

\* Every run settles, or stalls in one way: despite crashes at any await, lapsed leases
\* and lost write races, a run with no blocked step is in the end succeeded, failed or
\* cancelled (a pause for a human is recorded as cancelled), or it is marked running beside
\* a step an operator cancelled.  A cancellation that comes between the pausing write and
\* the release of the lease takes the other steps (cancelOwnedRun of a run its host leases),
\* resumeHumanEscalation makes the run 'running' again, and the dispatch plan finds nothing
\* eligible beside a cancelled step: such a run has no step under way and waits for ever.
Stalled(b) ==
    /\ b.run = "running" /\ Running(b) = {}
    /\ \E s \in Steps : b.step[s] = "cancelled" /\ ~b.escalated[s]
EveryRunSettles == <>[](Bundle.run \in TerminalRun \/ Stalled(Bundle))

\* No lease outlives its work: one left behind by a crash, a lost release race or a
\* half-finished cancellation is eventually expired by a sweep.
NoLeaseIsStuck == <>[](Bundle.lease = NoLease)

\* Even when the revision check and the rename of two writes overlap, no stored run
\* claims success with a step outstanding, or hides that all its steps succeeded.
SuccessIsComplete ==
    Bundle.run = "succeeded" <=> \A s \in Steps : Bundle.step[s] = "succeeded"

\* Nor does a stored run keep the resumable mark of a human pause on a step that is
\* not paused, which would let resumeExecutionRunAfterHumanEscalation replay it.
OnlyPausedStepsResume ==
    \A s \in Steps : Bundle.escalated[s] => Bundle.step[s] = "cancelled"
================================================================================
