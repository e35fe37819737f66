------------------------ MODULE MaterializationJobsProofs ------------------------
(***************************************************************************)
(* What TLAPS proves about MaterializationJobs, for every number of        *)
(* processes and jobs and every bound: the type invariant, that whoever    *)
(* works in the browser is alone in it until a lock file has been torn     *)
(* from its creator, and what leaves a queued job without a living taker.  *)
(*                                                                         *)
(* The second has two halves.  The lock: while nothing is torn, the file   *)
(* is that of every user who has it, so two who have it are one (LockInv). *)
(* The service: whoever drives the browser holds the lock (DriversHold).   *)
(* The third is a property of steps and needs types only: a job is queued  *)
(* by its own creation or requeueing, which chain it, or by the write of   *)
(* another job, and the run that takes it lets it go when it is no longer  *)
(* queued (RightlyForgotten).                                              *)
(***************************************************************************)
EXTENDS MaterializationJobs, TLAPS

RunRecord == [pc : RunSteps, after : Jobs \cup {None}, ok : BOOLEAN]
RunType == [Procs -> [Jobs -> RunRecord]]
RequestRecord == [pc : RequestSteps, job : Jobs \cup {None}, new : Jobs \cup {None},
                  source : Sources \cup {None}]

-----------------------------------------------------------------------------
(* Types.                                                                  *)

\* A run goes to another step, and may learn its outcome (runJob).
LEMMA GoesTyped ==
    ASSUME run \in RunType, NEW p \in Procs, NEW j \in Jobs, NEW pc \in RunSteps, NEW ok \in BOOLEAN,
           Goes(p, j, pc) \/ GoesOk(p, j, pc, ok)
    PROVE  run' \in RunType
<1>1. run[p][j] \in RunRecord
  BY DEF RunType
<1>2. [run[p][j] EXCEPT !.pc = pc] \in RunRecord /\ [run[p][j] EXCEPT !.pc = pc, !.ok = ok] \in RunRecord
  BY <1>1 DEF RunRecord
<1>3. ASSUME NEW r \in RunRecord, run' = [run EXCEPT ![p][j] = r] PROVE run' \in RunType
  BY <1>3 DEF RunType
<1>4. CASE Goes(p, j, pc)
  <2>1. run' = [run EXCEPT ![p][j] = [run[p][j] EXCEPT !.pc = pc]]
    BY <1>4 DEF Goes, RunType
  <2> QED BY <1>2, <1>3, <2>1
<1>5. CASE GoesOk(p, j, pc, ok)
  <2>1. run' = [run EXCEPT ![p][j] = [run[p][j] EXCEPT !.pc = pc, !.ok = ok]]
    BY <1>5 DEF GoesOk, RunType
  <2> QED BY <1>2, <1>3, <2>1
<1> QED BY <1>4, <1>5

\* A run ends (the finally of scheduleJob).
LEMMA EndsTyped ==
    ASSUME TypeOK, NEW p \in Procs, NEW j \in Jobs, Ends(p, j)
    PROVE  run' \in RunType /\ scheduled' \in [Procs -> SUBSET Jobs] /\ tail' \in [Procs -> Jobs \cup {None}]
<1>1. NoRun \in RunRecord
  BY DEF NoRun, RunRecord, RunSteps
<1>2. run \in RunType
  BY DEF TypeOK, RunType, RunRecord
<1>3. run' \in RunType
  <2> DEFINE r(k) == IF k = j THEN NoRun
                     ELSE IF run[p][k].after = j THEN [run[p][k] EXCEPT !.after = None] ELSE run[p][k]
  <2>1. \A k \in Jobs : r(k) \in RunRecord
    BY <1>1, <1>2 DEF RunType, RunRecord
  <2>2. run' = [run EXCEPT ![p] = [k \in Jobs |-> r(k)]]
    BY <1>2 DEF Ends, RunType
  <2> QED BY <1>2, <2>1, <2>2 DEF RunType
<1> QED BY <1>3 DEF Ends, TypeOK

\* A job is chained (scheduleJob).
LEMMA ScheduleTyped ==
    ASSUME TypeOK, NEW p \in Procs, NEW j \in Jobs, Schedule(p, j)
    PROVE  run' \in RunType /\ scheduled' \in [Procs -> SUBSET Jobs] /\ tail' \in [Procs -> Jobs \cup {None}]
<1>1. [NoRun EXCEPT !.pc = "chained", !.after = tail[p]] \in RunRecord
  BY DEF NoRun, RunRecord, RunSteps, TypeOK
<1>2. run \in RunType
  BY DEF TypeOK, RunType, RunRecord
<1> QED BY <1>1, <1>2 DEF Schedule, TypeOK, RunType

GripSteps == {"out", "asking", "stamping", "blocked", "removing", "holding", "unlinking"}

\* A user's grip changes (acquire and release).
LEMMA GripsTyped ==
    ASSUME grip \in [Users -> GripSteps], NEW u \in Users, NEW g \in GripSteps, Grips(u, g)
    PROVE  grip' \in [Users -> GripSteps] /\ grip'[u] = g /\ \A v \in Users \ {u} : grip'[v] = grip[v]
BY DEF Grips

\* The dispatcher's own steps.
LEMMA LockTyped ==
    ASSUME LockTypeOK, NEW u \in Users, Acquire(u) \/ Release(u) \/ Unlink(u)
    PROVE  LockTypeOK'
<1> USE DEF LockTypeOK
<1>1. lock' \in [content : {"absent", "empty", "owner", "dead owner"}, by : Users \cup {None}]
  <2>1. lock' \in {lock, NoFile, EmptyFileOf(u), FileOf(u)}
    BY DEF Acquire, Open, Stamp, Blocked, Look, Remove, Release, Unlink, Removes
  <2> DEFINE File == [content : {"absent", "empty", "owner", "dead owner"}, by : Users \cup {None}]
  <2>2. NoFile \in File
    BY DEF NoFile
  <2>3. FileOf(u) \in File
    BY DEF FileOf
  <2>4. EmptyFileOf(u) \in File
    BY DEF EmptyFileOf
  <2> QED BY <2>1, <2>2, <2>3, <2>4
<1>2. \E g \in GripSteps : Grips(u, g)
  BY DEF Acquire, Open, Stamp, Blocked, Look, Remove, Release, Unlink, GripSteps
<1>3. grip' \in [Users -> GripSteps]
  BY <1>2, GripsTyped DEF GripSteps
<1>4. CASE UNCHANGED torn
  BY <1>1, <1>3, <1>4 DEF GripSteps
<1>5. CASE Removes(u)
  <2>1. torn' \in BOOLEAN
    BY <1>5, Zenon DEF Removes
  <2> QED BY <1>1, <1>3, <2>1 DEF GripSteps
<1> QED BY <1>4, <1>5 DEF Acquire, Open, Stamp, Blocked, Look, Remove, Release, Unlink

\* A creation names the job it will write (createJob).
CreatesJob == \A p \in Procs : request[p].pc = "create" => request[p].new \in Jobs

StoreTyped ==
    /\ job \in Stores
    /\ source \in [Jobs -> Sources \cup {None}]
    /\ copy \in [Users -> Stores \cup {None}]
ProcsTyped ==
    /\ mode \in [Procs -> {"off", "booting", "up", "down"}]
    /\ boot \in [Procs -> [queued : SUBSET Jobs, running : SUBSET Jobs]]
    /\ tail \in [Procs -> Jobs \cup {None}]
    /\ scheduled \in [Procs -> SUBSET Jobs]
RequestTyped == request \in [Procs -> RequestRecord] /\ CreatesJob
UsedTyped == used \in 0..MaxMishaps
Typed == StoreTyped /\ ProcsTyped /\ run \in RunType /\ RequestTyped /\ UsedTyped /\ LockTypeOK

LEMMA TypedIsTypeOK == Typed <=> TypeOK /\ CreatesJob
BY DEF Typed, StoreTyped, ProcsTyped, RunType, RunRecord, RequestTyped, RequestRecord, UsedTyped, TypeOK

\* What a step leaves alone stays typed.
LEMMA Frames ==
    ASSUME Typed
    PROVE  /\ UNCHANGED jobVars => StoreTyped'
           /\ UNCHANGED procVars => ProcsTyped'
           /\ UNCHANGED run => run' \in RunType
           /\ UNCHANGED request => RequestTyped'
           /\ UNCHANGED used => UsedTyped'
           /\ UNCHANGED <<lock, grip, torn>> => LockTypeOK'
BY DEF Typed, jobVars, procVars, StoreTyped, ProcsTyped, RequestTyped, CreatesJob, UsedTyped, LockTypeOK

\* A write to the store (upsertJob).
LEMMA PutsTyped ==
    ASSUME StoreTyped, NEW u \in Users, NEW j, NEW status \in Active \cup Terminal, Puts(u, j, status)
    PROVE  job' \in Stores /\ copy' \in [Users -> Stores \cup {None}]
<1>1. copy[u] \in Stores
  BY DEF StoreTyped, Puts
<1>2. job' \in Stores
  BY <1>1 DEF Puts, Stores
<1> QED BY <1>2 DEF StoreTyped, Puts

\* A mishap stays within its bound.
LEMMA MishapTyped == ASSUME UsedTyped, Mishap PROVE UsedTyped'
BY JobsAssumption DEF UsedTyped, Mishap

\* A request goes on, or ends.
LEMMA ServesTyped ==
    ASSUME RequestTyped, NEW p \in Procs, NEW pc \in RequestSteps, pc = "create" => request[p].new \in Jobs,
           Serves(p, pc)
    PROVE  RequestTyped'
BY DEF RequestTyped, CreatesJob, RequestRecord, Serves

LEMMA DoneTyped == ASSUME RequestTyped, NEW p \in Procs, Done(p) PROVE RequestTyped'
<1>1. NoRequest \in RequestRecord /\ NoRequest.pc # "create"
  BY DEF NoRequest, RequestRecord, RequestSteps
<1> QED BY <1>1 DEF RequestTyped, CreatesJob, Done

LEMMA RecoveredTyped == ASSUME RequestTyped, NEW p \in Procs, Recovered(p) PROVE RequestTyped'
<1>1. CASE request[p].new = None
  BY <1>1, DoneTyped DEF Recovered
<1>2. CASE request[p].new # None
  BY <1>2, ServesTyped DEF Recovered, RequestTyped, RequestRecord, RequestSteps
<1> QED BY <1>1, <1>2

\* A user asks for the lock, or gives up.
LEMMA GripsLockTyped ==
    ASSUME LockTypeOK, NEW u \in Users, NEW g \in {"asking", "out"}, Grips(u, g), UNCHANGED <<lock, torn>>
    PROVE  LockTypeOK'
BY DEF LockTypeOK, Grips

\* Every step of a run (runJob).
LEMMA RunStepTyped ==
    ASSUME Typed, NEW p \in Procs, NEW j \in Jobs, RunStep(p, j)
    PROVE  Typed'
<1> DEFINE u == <<p, j>>
<1>1. u \in Users BY DEF Users
<1>2. StoreTyped /\ ProcsTyped /\ run \in RunType /\ LockTypeOK /\ UsedTyped /\ TypeOK
  BY TypedIsTypeOK DEF Typed
<1>3. CASE Turn(p, j)
  <2>1. CASE job[j] \in Active
    <3>1. run' \in RunType
      BY <1>2, <1>3, <2>1, GoesTyped DEF Turn, RunSteps
    <3> QED BY <1>3, <2>1, <3>1, Frames DEF Turn, Typed, procVars
  <2>2. CASE Ends(p, j)
    BY <1>2, <1>3, <2>2, EndsTyped, Frames DEF Turn, Typed, ProcsTyped
  <2> QED BY <1>3, <2>1, <2>2 DEF Turn
<1>4. CASE StartRun(p, j)
  <2>1. StoreTyped'
    BY <1>1, <1>2, <1>4, PutsTyped DEF StartRun, StoreTyped, Active
  <2>2. run' \in RunType
    BY <1>2, <1>4, GoesTyped DEF StartRun, RunSteps
  <2>3. LockTypeOK'
    BY <1>1, <1>2, <1>4, GripsLockTyped DEF StartRun
  <2> QED BY <1>4, <2>1, <2>2, <2>3, Frames DEF StartRun, Typed
<1>5. CASE RunAcquires(p, j)
  <2>1. LockTypeOK'
    BY <1>1, <1>2, <1>5, LockTyped DEF RunAcquires
  <2>2. run' \in RunType
    BY <1>2, <1>5, GoesTyped DEF RunAcquires, RunSteps
  <2> QED BY <1>5, <2>1, <2>2, Frames DEF RunAcquires, Typed
<1>15. CASE RunRetries(p, j)
  <2>1. LockTypeOK'
    BY <1>1, <1>2, <1>15, GripsLockTyped DEF RunRetries
  <2> QED BY <1>15, <2>1, Frames DEF RunRetries, Typed
<1>6. CASE QueueTimeout(p, j)
  <2>1. LockTypeOK'
    BY <1>1, <1>2, <1>6, GripsLockTyped DEF QueueTimeout
  <2>2. run' \in RunType
    BY <1>2, <1>6, GoesTyped DEF QueueTimeout, RunSteps
  <2> QED BY <1>6, <2>1, <2>2, Frames DEF QueueTimeout, Typed
<1>7. ASSUME NEW from \in RunSteps, NEW to \in RunSteps, ReadsCursor(p, j, from, to) PROVE Typed'
  <2>1. run' \in RunType
    BY <1>2, <1>7, GoesTyped DEF ReadsCursor, RunSteps
  <2> QED BY <1>7, <2>1, Frames DEF ReadsCursor, Typed
<1>8. ASSUME NEW from \in RunSteps, NEW to \in RunSteps, WritesCursor(p, j, from, to) PROVE Typed'
  <2>1. run' \in RunType
    BY <1>2, <1>8, GoesTyped DEF WritesCursor
  <2>2. StoreTyped'
    BY <1>1, <1>2, <1>8, PutsTyped DEF WritesCursor, StoreTyped, Active
  <2> QED BY <1>8, <2>1, <2>2, Frames DEF WritesCursor, Typed
<1>9. CASE WorkEnds(p, j)
  <2>1. PICK ok \in BOOLEAN : GoesOk(p, j, "check", ok) \/ GoesOk(p, j, "cleanup", ok)
    BY <1>9 DEF WorkEnds
  <2>2. run' \in RunType
    BY <1>2, <2>1, GoesTyped DEF RunSteps
  <2> QED BY <1>9, <2>2, Frames DEF WorkEnds, Typed
<1>10. CASE CleansUp(p, j)
  <2>1. LockTypeOK'
    BY <1>1, <1>2, <1>10, LockTyped DEF CleansUp
  <2>2. run' \in RunType
    BY <1>2, <1>10, GoesTyped DEF CleansUp, RunSteps
  <2> QED BY <1>10, <2>1, <2>2, Frames DEF CleansUp, Typed
<1>11. CASE CleanupThrows(p, j)
  <2>1. LockTypeOK'
    BY <1>1, <1>2, <1>11, GripsLockTyped DEF CleanupThrows
  <2>2. run' \in RunType
    BY <1>2, <1>11, GoesTyped DEF CleanupThrows, RunSteps
  <2>3. UsedTyped'
    BY <1>2, <1>11, MishapTyped DEF CleanupThrows
  <2> QED BY <1>11, <2>1, <2>2, <2>3, Frames DEF CleanupThrows, Typed
<1>12. CASE RunUnlinks(p, j)
  <2>1. LockTypeOK'
    BY <1>1, <1>2, <1>12, LockTyped DEF RunUnlinks
  <2> QED BY <1>12, <2>1, Frames DEF RunUnlinks, Typed
<1>13. CASE Settles(p, j)
  <2>1. CASE Goes(p, j, "publish") /\ UNCHANGED <<scheduled, tail>>
    <3>1. run' \in RunType
      BY <1>2, <2>1, GoesTyped DEF RunSteps
    <3> QED BY <1>13, <2>1, <3>1, Frames DEF Settles, Typed, procVars
  <2>2. CASE Ends(p, j)
    BY <1>2, <1>13, <2>2, EndsTyped, Frames DEF Settles, Typed, ProcsTyped
  <2> QED BY <1>13, <2>1, <2>2 DEF Settles
<1>14. CASE Publishes(p, j)
  <2>1. StoreTyped'
    BY <1>1, <1>2, <1>14, PutsTyped DEF Publishes, StoreTyped, Terminal
  <2> QED BY <1>2, <1>14, <2>1, EndsTyped, Frames DEF Publishes, Typed, ProcsTyped
<1> QED BY <1>3, <1>4, <1>5, <1>6, <1>7, <1>8, <1>9, <1>10, <1>11, <1>12, <1>13, <1>14, <1>15 DEF RunStep, RunSteps

\* Every step that begins a request or answers one.
LEMMA RequestStepTyped ==
    ASSUME Typed, NEW p \in Procs, RequestStep(p)
    PROVE  Typed'
<1> DEFINE u == <<p, Reader>>
<1>1. u \in Users BY DEF Users
<1>2. StoreTyped /\ ProcsTyped /\ RequestTyped /\ LockTypeOK /\ UsedTyped /\ TypeOK
  BY TypedIsTypeOK DEF Typed
<1>3. CASE CreateWrites(p)
  <2>1. request[p].new \in Jobs /\ request[p].source \in Sources \cup {None}
    BY <1>2, <1>3 DEF CreateWrites, RequestTyped, CreatesJob, RequestRecord
  <2>2. StoreTyped'
    BY <1>1, <1>2, <1>3, <2>1, PutsTyped DEF CreateWrites, StoreTyped, Active, RequestTyped, RequestRecord
  <2> QED BY <1>2, <1>3, <2>1, <2>2, ScheduleTyped, DoneTyped, Frames DEF CreateWrites, Typed, ProcsTyped
<1>4. CASE MarksStale(p)
  <2>1. StoreTyped'
    BY <1>1, <1>2, <1>4, PutsTyped DEF MarksStale, StoreTyped, Terminal
  <2>2. ProcsTyped'
    BY <1>2, <1>4 DEF MarksStale, ProcsTyped
  <2>3. RequestTyped'
    BY <1>2, <1>4, ServesTyped DEF MarksStale, RequestSteps
  <2>4. LockTypeOK'
    BY <1>1, <1>2, <1>4, GripsLockTyped DEF MarksStale
  <2> QED BY <1>4, <2>1, <2>2, <2>3, <2>4, Frames DEF MarksStale, Typed
<1>5. CASE ReaderAcquires(p)
  <2>1. LockTypeOK'
    BY <1>1, <1>2, <1>5, LockTyped DEF ReaderAcquires
  <2>2. RequestTyped'
    BY <1>2, <1>5, ServesTyped DEF ReaderAcquires, RequestSteps
  <2> QED BY <1>5, <2>1, <2>2, Frames DEF ReaderAcquires, Typed
<1>6. CASE SkipsCleanup(p)
  <2>1. LockTypeOK'
    BY <1>1, <1>2, <1>6, GripsLockTyped DEF SkipsCleanup
  <2> QED BY <1>2, <1>6, <2>1, RecoveredTyped, Frames DEF SkipsCleanup, Typed
<1>7. CASE ReaderCleansUp(p)
  <2>1. RequestTyped'
    BY <1>2, <1>7 DEF ReaderCleansUp, Serves, RequestTyped, CreatesJob, RequestRecord, RequestSteps
  <2>2. UsedTyped'
    BY <1>2, <1>7, MishapTyped, Frames DEF ReaderCleansUp
  <2> QED BY <1>7, <2>1, <2>2, Frames DEF ReaderCleansUp, Typed
<1>8. CASE ReaderReleases(p)
  <2>1. LockTypeOK'
    BY <1>1, <1>2, <1>8, LockTyped DEF ReaderReleases
  <2> QED BY <1>2, <1>8, <2>1, RecoveredTyped, Frames DEF ReaderReleases, Typed
<1>9. CASE CancelWrites(p)
  <2>1. StoreTyped'
    BY <1>1, <1>2, <1>9, PutsTyped DEF CancelWrites, StoreTyped, Terminal
  <2> QED BY <1>2, <1>9, <2>1, DoneTyped, Frames DEF CancelWrites, Typed
<1> QED BY <1>3, <1>4, <1>5, <1>6, <1>7, <1>8, <1>9 DEF RequestStep

\* A request begins.
LEMMA AskTyped ==
    ASSUME RequestTyped, NEW p \in Procs, NEW r \in RequestRecord, r.pc = "create" => r.new \in Jobs,
           request' = [request EXCEPT ![p] = r]
    PROVE  RequestTyped'
BY DEF RequestTyped, CreatesJob

\* Requests about a job, and its recovery when a process starts.
LEMMA JobStepTyped ==
    ASSUME Typed, NEW p \in Procs, NEW j \in Jobs, NEW new \in Jobs \cup {None},
           Reuses(p, j) \/ CancelReads(p, j) \/ ReadsOverdue(p, j, new) \/ Requeues(p, j) \/ FailsInterrupted(p, j)
    PROVE  Typed'
<1>0. <<p, Reader>> \in Users
  BY DEF Users
<1>1. StoreTyped /\ ProcsTyped /\ RequestTyped /\ LockTypeOK /\ UsedTyped /\ run \in RunType /\ TypeOK
  BY TypedIsTypeOK DEF Typed
<1>2. CASE Reuses(p, j)
  BY <1>1, <1>2, ScheduleTyped, Frames DEF Reuses, Typed, ProcsTyped
<1>3. CASE CancelReads(p, j)
  <2>1. [pc |-> "cancel", job |-> j, new |-> None, source |-> None] \in RequestRecord
    BY DEF RequestRecord, RequestSteps
  <2> QED BY <1>1, <1>3, <2>1, AskTyped, MishapTyped, Frames DEF CancelReads, Typed
<1>4. CASE ReadsOverdue(p, j, new)
  <2> DEFINE r == [pc |-> "mark", job |-> j, new |-> new, source |-> IF new = None THEN None ELSE source[j]]
  <2>1. r \in RequestRecord
    BY <1>1 DEF RequestRecord, RequestSteps, StoreTyped
  <2>2. RequestTyped'
    BY <1>1, <1>4, <2>1, AskTyped DEF ReadsOverdue
  <2> QED BY <1>4, <2>2, Frames DEF ReadsOverdue, Typed
<1>5. CASE Requeues(p, j)
  <2>1. StoreTyped'
    BY <1>0, <1>1, <1>5, PutsTyped DEF Requeues, StoreTyped, Active
  <2>2. ProcsTyped' /\ run' \in RunType
    BY <1>1, <1>5, ScheduleTyped DEF Requeues, ProcsTyped
  <2> QED BY <1>5, <2>1, <2>2, Frames DEF Requeues, Typed
<1>6. CASE FailsInterrupted(p, j)
  <2>1. StoreTyped'
    BY <1>0, <1>1, <1>6, PutsTyped DEF FailsInterrupted, StoreTyped, Terminal
  <2>2. ProcsTyped'
    BY <1>1, <1>6 DEF FailsInterrupted, ProcsTyped
  <2> QED BY <1>6, <2>1, <2>2, Frames DEF FailsInterrupted, Typed
<1> QED BY <1>2, <1>3, <1>4, <1>5, <1>6

\* Creations, and the life of a process.
LEMMA ProcessStepTyped ==
    ASSUME Typed, NEW p \in Procs,
           (\E s \in Sources : CreateReads(p, s)) \/ Starts(p) \/ Opens(p) \/ Crash(p)
    PROVE  Typed'
<1>1. StoreTyped /\ ProcsTyped /\ RequestTyped /\ LockTypeOK /\ UsedTyped /\ run \in RunType /\ TypeOK
  BY TypedIsTypeOK DEF Typed
<1>2. ASSUME NEW s \in Sources, CreateReads(p, s) PROVE Typed'
  <2>1. PICK k \in Jobs : request' = [request EXCEPT ![p] = [pc |-> "create", job |-> None, new |-> k, source |-> s]]
    BY <1>2 DEF CreateReads
  <2>2. [pc |-> "create", job |-> None, new |-> k, source |-> s] \in RequestRecord
    BY DEF RequestRecord, RequestSteps
  <2> QED BY <1>1, <1>2, <2>1, <2>2, AskTyped, Frames DEF CreateReads, Typed
<1>3. CASE Starts(p)
  <2>1. ProcsTyped'
    BY <1>1, <1>3 DEF Starts, ProcsTyped, OfStatus
  <2> QED BY <1>3, <2>1, Frames DEF Starts, Typed
<1>4. CASE Opens(p)
  <2>1. ProcsTyped'
    BY <1>1, <1>4 DEF Opens, ProcsTyped
  <2> QED BY <1>4, <2>1, Frames DEF Opens, Typed
<1>5. CASE Crash(p)
  <2>1. ProcsTyped'
    BY <1>1, <1>5 DEF Crash, ProcsTyped, NoBoot
  <2>2. NoRun \in RunRecord
    BY DEF NoRun, RunRecord, RunSteps
  <2>3. run' \in RunType
    BY <1>1, <1>5, <2>2 DEF Crash, RunType
  <2>4. RequestTyped'
    BY <1>1, <1>5, DoneTyped DEF Crash, Done
  <2>5. LockTypeOK'
    BY <1>1, <1>5 DEF Crash, Orphan, LockTypeOK
  <2>6. StoreTyped'
    BY <1>1, <1>5 DEF Crash, StoreTyped
  <2> QED BY <1>1, <1>5, <2>1, <2>3, <2>4, <2>5, <2>6, MishapTyped DEF Crash, Typed
<1> QED BY <1>2, <1>3, <1>4, <1>5

\* The read of the store before a write.
LEMMA ReadsTyped == ASSUME Typed, NEW u \in Users, ReadsStore(u) PROVE Typed'
<1>1. StoreTyped'
  BY DEF ReadsStore, Typed, StoreTyped
<1> QED BY <1>1, Frames DEF ReadsStore, Typed

LEMMA TypedInit == Init => Typed
<1> SUFFICES ASSUME Init PROVE Typed
  OBVIOUS
<1>1. NoRun \in RunRecord
  BY DEF NoRun, RunRecord, RunSteps
<1>2. NoRequest \in RequestRecord /\ NoRequest.pc # "create"
  BY DEF NoRequest, RequestRecord, RequestSteps
<1>3. run \in RunType
  BY <1>1 DEF Init, RunType
<1>4. RequestTyped
  BY <1>2 DEF Init, RequestTyped, CreatesJob
<1>5. StoreTyped /\ ProcsTyped
  BY DEF Init, StoreTyped, ProcsTyped, NoBoot, Stores
<1>6. UsedTyped
  BY JobsAssumption DEF Init, UsedTyped
<1>7. NoFile \in [content : {"absent", "empty", "owner", "dead owner"}, by : Users \cup {None}]
  BY DEF NoFile
<1>8. LockTypeOK
  BY <1>7 DEF Init, LockInit, LockTypeOK
<1> QED BY <1>3, <1>4, <1>5, <1>6, <1>8 DEF Typed

LEMMA TypedNext == Typed /\ [Next]_vars => Typed'
<1> SUFFICES ASSUME Typed, [Next]_vars PROVE Typed'
  OBVIOUS
<1>1. CASE UNCHANGED vars
  BY <1>1, Frames DEF vars, jobVars, procVars, Typed
<1>2. CASE Next
  BY <1>2, RunStepTyped, RequestStepTyped, JobStepTyped, ProcessStepTyped, ReadsTyped DEF Next, BootStep
<1> QED BY <1>1, <1>2

LEMMA TypedHolds == Spec => []Typed
BY TypedInit, TypedNext, PTL DEF Spec

\* Type correctness of the jobs, the processes, their runs and requests, and the lock.
THEOREM JobsTyped == Spec => []TypeOK
BY TypedHolds, TypedIsTypeOK, PTL

-----------------------------------------------------------------------------
(* The lock: whoever has it has the file, unless one was torn.             *)

FileKept(u) ==
    /\ grip[u] \in {"holding", "unlinking"} => lock = FileOf(u)
    /\ grip[u] = "stamping" => lock = EmptyFileOf(u)
LockInv == torn \/ \A u \in Users : FileKept(u)

\* Files of different users differ, and so do files with content and without.
LEMMA Files ==
    \A u : /\ FileOf(u).content = "owner" /\ FileOf(u).by = u
          /\ EmptyFileOf(u).content = "empty" /\ EmptyFileOf(u).by = u
BY DEF FileOf, EmptyFileOf

\* asking anew, giving up, or losing the lock without a release
LetsGo(u) == (Grips(u, "asking") \/ Grips(u, "out")) /\ UNCHANGED <<lock, torn>>

\* The dispatcher's own steps keep it (acquire, release).
LEMMA LockStepKeeps ==
    ASSUME LockTypeOK, LockInv, NEW u \in Users, Acquire(u) \/ Release(u) \/ Unlink(u) \/ LetsGo(u)
    PROVE  LockInv'
<1> USE DEF LockTypeOK
<1>1. CASE torn
  <2>1. torn'
    BY <1>1 DEF Acquire, Open, Stamp, Blocked, Look, Remove, Release, Unlink, Removes, LetsGo
  <2> QED BY <2>1 DEF LockInv
<1>2. CASE \A v \in Users : FileKept(v)
  <2>1. CASE Open(u) \/ Stamp(u) \/ Blocked(u) \/ Look(u) \/ Release(u) \/ LetsGo(u)
    <3> SUFFICES ASSUME NEW v \in Users PROVE FileKept(v)'
      BY DEF LockInv
    <3>1. CASE v = u
      BY <1>2, <2>1, <3>1 DEF FileKept, Open, Stamp, Blocked, Look, Release, LetsGo, Grips, FileOf, EmptyFileOf
    <3>2. CASE v # u
      <4>1. grip'[v] = grip[v]
        BY <2>1, <3>2 DEF Open, Stamp, Blocked, Look, Release, LetsGo, Grips
      <4>2. CASE ~Has(v)
        BY <4>1, <4>2 DEF FileKept, Has
      <4>3. CASE Has(v)
        <5>1. lock.by = v /\ lock.content # "absent"
          BY <1>2, <4>3, Files DEF FileKept, Has
        <5>2. lock' = lock
          BY <2>1, <3>2, <5>1, Files DEF Open, Stamp, Blocked, Look, Release, LetsGo
        <5> QED BY <1>2, <4>1, <5>2 DEF FileKept, FileOf, EmptyFileOf
      <4> QED BY <4>2, <4>3
    <3> QED BY <3>1, <3>2
  <2>2. CASE Removes(u) /\ (Grips(u, "asking") \/ Grips(u, "out"))
    <3>1. CASE \E v \in Users \ {u} : Has(v)
      <4>1. PICK v \in Users \ {u} : Has(v)
        BY <3>1
      <4>2. lock.by = v
        BY <1>2, <4>1, Files DEF Has, FileKept
      <4>3. torn'
        BY <2>2, <4>1, <4>2, Zenon DEF Removes
      <4> QED BY <4>3 DEF LockInv
    <3>2. CASE \A v \in Users \ {u} : ~Has(v)
      <4>1. \A v \in Users : ~Has(v)'
        BY <2>2, <3>2 DEF Has, Grips
      <4> QED BY <4>1 DEF LockInv, FileKept, Has
    <3> QED BY <3>1, <3>2
  <2> QED BY <2>1, <2>2 DEF Acquire, Unlink, Remove
<1> QED BY <1>1, <1>2 DEF LockInv

\* So does the death of users.
LEMMA OrphanKeeps ==
    ASSUME LockTypeOK, LockInv, NEW U \in SUBSET Users, Orphan(U)
    PROVE  LockInv'
<1>1. CASE torn
  BY <1>1 DEF LockInv, Orphan
<1>2. CASE \A v \in Users : FileKept(v)
  <2> SUFFICES ASSUME NEW v \in Users PROVE FileKept(v)'
    BY DEF LockInv
  <2>1. CASE v \in U
    BY <2>1 DEF Orphan, FileKept
  <2>2. CASE v \notin U
    <3>1. grip'[v] = grip[v]
      BY <2>2 DEF Orphan
    <3>2. CASE ~Has(v)
      BY <3>1, <3>2 DEF FileKept, Has
    <3>3. CASE Has(v)
      <4>1. lock.by = v
        BY <1>2, <3>3, Files DEF FileKept, Has
      <4>2. lock' = lock
        BY <2>2, <4>1 DEF Orphan
      <4> QED BY <1>2, <3>1, <4>2 DEF FileKept, FileOf, EmptyFileOf
    <3> QED BY <3>2, <3>3
  <2> QED BY <2>1, <2>2
<1> QED BY <1>1, <1>2 DEF LockInv

-----------------------------------------------------------------------------
(* The service: whoever drives the browser holds the lock.                 *)

DriversHold == \A u \in Users : Driving(u) => grip[u] = "holding"

JobsInv == Typed /\ LockInv /\ DriversHold

\* A run or a recovery that starts or stops driving, while everybody else stays as they are.
OnlyMoves(u) == \A v \in Users \ {u} : (Driving(v)' => Driving(v)) /\ grip'[v] = grip[v]

LEMMA MoverHolds ==
    ASSUME DriversHold, NEW u \in Users, OnlyMoves(u), Driving(u)' => grip'[u] = "holding"
    PROVE  DriversHold'
BY DEF DriversHold, OnlyMoves

\* A step of a run moves that run only.
LEMMA RunMoves ==
    ASSUME Typed, NEW p \in Procs, NEW j \in Jobs, run' \in RunType, UNCHANGED request,
           \A q \in Procs, k \in Jobs : q # p \/ k # j => run'[q][k].pc = run[q][k].pc,
           \A v \in Users \ {<<p, j>>} : grip'[v] = grip[v]
    PROVE  OnlyMoves(<<p, j>>)
BY JobsAssumption DEF OnlyMoves, Driving, Users

LEMMA GoesElsewhere ==
    ASSUME run \in RunType, NEW p \in Procs, NEW j \in Jobs, NEW pc \in RunSteps, NEW ok \in BOOLEAN,
           Goes(p, j, pc) \/ GoesOk(p, j, pc, ok)
    PROVE  run'[p][j].pc = pc /\ \A q \in Procs, k \in Jobs : q # p \/ k # j => run'[q][k].pc = run[q][k].pc
BY DEF Goes, GoesOk, RunType, RunRecord

LEMMA EndsElsewhere ==
    ASSUME run \in RunType, NEW p \in Procs, NEW j \in Jobs, Ends(p, j)
    PROVE  run'[p][j].pc = "idle" /\ \A q \in Procs, k \in Jobs : q # p \/ k # j => run'[q][k].pc = run[q][k].pc
BY DEF Ends, RunType, RunRecord, NoRun

LEMMA DrivingIs ==
    /\ \A p \in Procs, j \in Jobs : Driving(<<p, j>>) <=> run[p][j].pc \in DrivingSteps
    /\ \A p \in Procs : Driving(<<p, Reader>>) <=> request[p].pc = "cleanup"
BY JobsAssumption DEF Driving

LEMMA LockIdle == ASSUME LockInv, UNCHANGED <<lock, grip, torn>> PROVE LockInv'
BY DEF LockInv, FileKept

\* the grips of everybody but u are as they were
LEMMA OthersGrip ==
    ASSUME NEW u, \/ Acquire(u) \/ Release(u) \/ Unlink(u) \/ Grips(u, "asking") \/ Grips(u, "out")
                  \/ UNCHANGED grip,
           grip \in [Users -> GripSteps]
    PROVE  \A v \in Users \ {u} : grip'[v] = grip[v]
BY DEF Acquire, Open, Stamp, Blocked, Look, Remove, Release, Unlink, Grips

\* Every step of a run: it drives from the step that acquires the lock to the one that
\* releases it (runJob).
LEMMA RunStepHolds ==
    ASSUME JobsInv, NEW p \in Procs, NEW j \in Jobs, RunStep(p, j)
    PROVE  LockInv' /\ DriversHold'
<1> DEFINE u == <<p, j>>
           Elsewhere == \A q \in Procs, k \in Jobs : q # p \/ k # j => run'[q][k].pc = run[q][k].pc
<1>1. u \in Users BY DEF Users
<1>2. Typed /\ LockInv /\ DriversHold /\ LockTypeOK /\ run \in RunType /\ grip \in [Users -> GripSteps]
  BY DEF JobsInv, Typed, LockTypeOK, GripSteps
<1>3. run' \in RunType
  BY <1>2, RunStepTyped DEF Typed
<1>4. Driving(u)' <=> run'[p][j].pc \in DrivingSteps
  BY JobsAssumption DEF Driving
<1>5. Driving(u) <=> run[p][j].pc \in DrivingSteps
  BY DrivingIs
<1>6. UNCHANGED request
  BY DEF RunStep, Turn, StartRun, RunAcquires, RunRetries, QueueTimeout, ReadsCursor, WritesCursor, WorkEnds, CleansUp,
         CleanupThrows, RunUnlinks, Settles, Publishes
<1>7. ASSUME Elsewhere, \A v \in Users \ {u} : grip'[v] = grip[v],
             run'[p][j].pc \in DrivingSteps => grip'[u] = "holding"
      PROVE  DriversHold'
  <2>1. OnlyMoves(u)
    BY <1>2, <1>3, <1>6, <1>7, RunMoves
  <2> QED BY <1>1, <1>2, <1>4, <1>7, <2>1, MoverHolds
<1>8. CASE Turn(p, j)
  <2>1. Elsewhere /\ run'[p][j].pc \notin DrivingSteps
    <3>1. CASE Ends(p, j)
      BY <1>2, <3>1, EndsElsewhere DEF DrivingSteps
    <3>2. CASE Goes(p, j, "start")
      BY <1>2, <3>2, GoesElsewhere DEF RunSteps, DrivingSteps
    <3> QED BY <1>8, <3>1, <3>2 DEF Turn
  <2> QED BY <1>2, <1>7, <1>8, <2>1, LockIdle DEF Turn
<1>9. CASE StartRun(p, j)
  <2>1. Elsewhere /\ run'[p][j].pc \notin DrivingSteps
    BY <1>2, <1>9, GoesElsewhere DEF StartRun, RunSteps, DrivingSteps
  <2>2. LockInv'
    BY <1>1, <1>2, <1>9, LockStepKeeps DEF StartRun, LetsGo
  <2> QED BY <1>2, <1>7, <1>9, <2>1, <2>2, OthersGrip DEF StartRun
<1>10. CASE RunAcquires(p, j)
  <2>1. Elsewhere /\ (run'[p][j].pc \in DrivingSteps => grip'[u] = "holding")
    <3>1. CASE grip'[u] = "holding"
      BY <1>2, <1>10, <3>1, GoesElsewhere DEF RunAcquires, RunSteps
    <3>2. CASE grip'[u] # "holding"
      BY <1>2, <1>10, <3>2, GoesElsewhere DEF RunAcquires, RunSteps, DrivingSteps
    <3> QED BY <3>1, <3>2
  <2>2. LockInv'
    BY <1>1, <1>2, <1>10, LockStepKeeps DEF RunAcquires
  <2> QED BY <1>2, <1>7, <1>10, <2>1, <2>2, OthersGrip DEF RunAcquires
<1>17. CASE RunRetries(p, j)
  <2>1. Elsewhere /\ run'[p][j].pc \notin DrivingSteps
    BY <1>17 DEF RunRetries, DrivingSteps
  <2>2. LockInv'
    BY <1>1, <1>2, <1>17, LockStepKeeps DEF RunRetries, LetsGo
  <2> QED BY <1>2, <1>7, <1>17, <2>1, <2>2, OthersGrip DEF RunRetries
<1>11. CASE QueueTimeout(p, j) \/ CleanupThrows(p, j)
  <2>1. Elsewhere /\ run'[p][j].pc \notin DrivingSteps
    BY <1>2, <1>11, GoesElsewhere DEF QueueTimeout, CleanupThrows, RunSteps, DrivingSteps
  <2>2. LockInv'
    BY <1>1, <1>2, <1>11, LockStepKeeps DEF QueueTimeout, CleanupThrows, LetsGo
  <2> QED BY <1>2, <1>7, <1>11, <2>1, <2>2, OthersGrip DEF QueueTimeout, CleanupThrows
<1>12. ASSUME NEW from \in DrivingSteps, NEW to \in DrivingSteps,
              ReadsCursor(p, j, from, to) \/ WritesCursor(p, j, from, to)
       PROVE  LockInv' /\ DriversHold'
  <2>1. to \in RunSteps /\ "cleanup" \in RunSteps
    BY DEF RunSteps, DrivingSteps
  <2>2. Elsewhere
    <3>1. \/ Goes(p, j, to) \/ GoesOk(p, j, "cleanup", FALSE)
      BY <1>12 DEF ReadsCursor, WritesCursor
    <3>2. CASE Goes(p, j, to) BY <1>2, <2>1, <3>2, GoesElsewhere
    <3>3. CASE GoesOk(p, j, "cleanup", FALSE) BY <1>2, <2>1, <3>3, GoesElsewhere
    <3> QED BY <3>1, <3>2, <3>3
  <2>3. grip'[u] = "holding"
    BY <1>1, <1>2, <1>5, <1>12 DEF ReadsCursor, WritesCursor, DriversHold
  <2> QED BY <1>2, <1>7, <1>12, <2>2, <2>3, LockIdle DEF ReadsCursor, WritesCursor
<1>13. CASE WorkEnds(p, j)
  <2>1. PICK ok \in BOOLEAN : GoesOk(p, j, "check", ok) \/ GoesOk(p, j, "cleanup", ok)
    BY <1>13 DEF WorkEnds
  <2>2. Elsewhere
    BY <1>2, <2>1, GoesElsewhere DEF RunSteps
  <2>3. grip'[u] = "holding"
    BY <1>1, <1>2, <1>5, <1>13 DEF WorkEnds, DriversHold, DrivingSteps
  <2> QED BY <1>2, <1>7, <1>13, <2>2, <2>3, LockIdle DEF WorkEnds
<1>14. CASE CleansUp(p, j)
  <2>1. Elsewhere /\ run'[p][j].pc \notin DrivingSteps
    BY <1>2, <1>14, GoesElsewhere DEF CleansUp, RunSteps, DrivingSteps
  <2>2. LockInv'
    BY <1>1, <1>2, <1>14, LockStepKeeps DEF CleansUp
  <2> QED BY <1>2, <1>7, <1>14, <2>1, <2>2, OthersGrip DEF CleansUp
<1>15. CASE RunUnlinks(p, j)
  <2>1. Elsewhere /\ run'[p][j].pc \notin DrivingSteps
    BY <1>15 DEF RunUnlinks, DrivingSteps
  <2>2. LockInv'
    BY <1>1, <1>2, <1>15, LockStepKeeps DEF RunUnlinks
  <2> QED BY <1>2, <1>7, <1>15, <2>1, <2>2, OthersGrip DEF RunUnlinks
<1>16. CASE Settles(p, j) \/ Publishes(p, j)
  <2>1. Elsewhere /\ run'[p][j].pc \notin DrivingSteps
    <3>1. CASE Ends(p, j)
      BY <1>2, <3>1, EndsElsewhere DEF DrivingSteps
    <3>2. CASE Goes(p, j, "publish")
      BY <1>2, <3>2, GoesElsewhere DEF RunSteps, DrivingSteps
    <3> QED BY <1>16, <3>1, <3>2 DEF Settles, Publishes
  <2> QED BY <1>2, <1>7, <1>16, <2>1, LockIdle DEF Settles, Publishes
<1> QED BY <1>8, <1>9, <1>10, <1>11, <1>12, <1>13, <1>14, <1>15, <1>16, <1>17 DEF RunStep, DrivingSteps

\* Chaining a job starts no driving.
LEMMA ScheduleElsewhere ==
    ASSUME run \in RunType, NEW p \in Procs, NEW j \in Jobs, Schedule(p, j)
    PROVE  \A q \in Procs, k \in Jobs : run'[q][k].pc \in DrivingSteps => run[q][k].pc \in DrivingSteps
BY DEF Schedule, RunType, RunRecord, NoRun, DrivingSteps

\* A step after which nobody drives who did not before, with all grips as they were.
LEMMA NobodyNew ==
    ASSUME DriversHold, UNCHANGED grip,
           \A q \in Procs, k \in Jobs : run'[q][k].pc \in DrivingSteps => run[q][k].pc \in DrivingSteps,
           \A q \in Procs : request'[q].pc = "cleanup" => request[q].pc = "cleanup"
    PROVE  DriversHold'
BY JobsAssumption DEF DriversHold, Driving, Users

\* Every step of a request: the stale recovery drives between acquiring the lock and
\* the cleanup (recoverStaleRunningJob).
LEMMA RequestStepHolds ==
    ASSUME JobsInv, NEW p \in Procs, RequestStep(p)
    PROVE  LockInv' /\ DriversHold'
<1> DEFINE u == <<p, Reader>>
<1>1. u \in Users BY DEF Users
<1>2. /\ Typed /\ LockInv /\ DriversHold /\ LockTypeOK /\ run \in RunType
      /\ request \in [Procs -> RequestRecord] /\ CreatesJob /\ grip \in [Users -> GripSteps]
  BY DEF JobsInv, Typed, LockTypeOK, GripSteps, RequestTyped
<1>3. ASSUME NEW pc, Serves(p, pc)
      PROVE  request'[p].pc = pc /\ \A q \in Procs \ {p} : request'[q] = request[q]
  BY <1>2, <1>3 DEF Serves, RequestRecord
<1>4. ASSUME Done(p)
      PROVE  request'[p].pc = "idle" /\ \A q \in Procs \ {p} : request'[q] = request[q]
  BY <1>2, <1>4 DEF Done, NoRequest
<1>5. ASSUME Recovered(p)
      PROVE  request'[p].pc # "cleanup" /\ \A q \in Procs \ {p} : request'[q] = request[q]
  BY <1>3, <1>4, <1>5 DEF Recovered
<1>6. ASSUME UNCHANGED run, \A q \in Procs \ {p} : request'[q] = request[q],
             \A v \in Users \ {u} : grip'[v] = grip[v],
             request'[p].pc = "cleanup" => grip'[u] = "holding"
      PROVE  DriversHold'
  <2>1. OnlyMoves(u)
    BY <1>6, JobsAssumption DEF OnlyMoves, Driving, Users
  <2>2. Driving(u)' <=> request'[p].pc = "cleanup"
    BY JobsAssumption DEF Driving
  <2> QED BY <1>1, <1>2, <1>6, <2>1, <2>2, MoverHolds
<1>7. CASE CreateWrites(p)
  <2>1. request[p].new \in Jobs
    BY <1>2, <1>7 DEF CreateWrites, CreatesJob
  <2>2. \A q \in Procs, k \in Jobs : run'[q][k].pc \in DrivingSteps => run[q][k].pc \in DrivingSteps
    BY <1>2, <1>7, <2>1, ScheduleElsewhere DEF CreateWrites
  <2>3. \A q \in Procs : request'[q].pc = "cleanup" => request[q].pc = "cleanup"
    BY <1>4, <1>7 DEF CreateWrites
  <2> QED BY <1>2, <1>7, <2>2, <2>3, NobodyNew, LockIdle DEF CreateWrites
<1>8. CASE MarksStale(p)
  <2>1. LockInv'
    BY <1>1, <1>2, <1>8, LockStepKeeps DEF MarksStale, LetsGo
  <2> QED BY <1>2, <1>3, <1>6, <1>8, <2>1, OthersGrip DEF MarksStale
<1>9. CASE ReaderAcquires(p)
  <2>1. LockInv'
    BY <1>1, <1>2, <1>9, LockStepKeeps DEF ReaderAcquires
  <2> QED BY <1>2, <1>3, <1>6, <1>9, <2>1, OthersGrip DEF ReaderAcquires
<1>10. CASE SkipsCleanup(p)
  <2>1. LockInv'
    BY <1>1, <1>2, <1>10, LockStepKeeps DEF SkipsCleanup, LetsGo
  <2> QED BY <1>2, <1>5, <1>6, <1>10, <2>1, OthersGrip DEF SkipsCleanup
<1>11. CASE ReaderCleansUp(p)
  <2>1. request'[p].pc = "release" /\ \A q \in Procs \ {p} : request'[q] = request[q]
    BY <1>2, <1>3, <1>11 DEF ReaderCleansUp, RequestRecord
  <2> QED BY <1>2, <1>6, <1>11, <2>1, LockIdle DEF ReaderCleansUp
<1>12. CASE ReaderReleases(p)
  <2>1. LockInv'
    BY <1>1, <1>2, <1>12, LockStepKeeps DEF ReaderReleases
  <2>2. request'[p].pc # "cleanup" /\ \A q \in Procs \ {p} : request'[q] = request[q]
    BY <1>5, <1>12 DEF ReaderReleases
  <2> QED BY <1>2, <1>6, <1>12, <2>1, <2>2, OthersGrip DEF ReaderReleases
<1>13. CASE CancelWrites(p)
  BY <1>2, <1>4, <1>6, <1>13, LockIdle DEF CancelWrites
<1> QED BY <1>7, <1>8, <1>9, <1>10, <1>11, <1>12, <1>13 DEF RequestStep

\* Requests about a job, and its recovery, start no driving.
LEMMA JobStepHolds ==
    ASSUME JobsInv, NEW p \in Procs, NEW j \in Jobs, NEW new \in Jobs \cup {None},
           Reuses(p, j) \/ CancelReads(p, j) \/ ReadsOverdue(p, j, new) \/ Requeues(p, j) \/ FailsInterrupted(p, j)
    PROVE  LockInv' /\ DriversHold'
<1>1. /\ LockInv /\ DriversHold /\ run \in RunType /\ request \in [Procs -> RequestRecord]
  BY DEF JobsInv, Typed, RequestTyped
<1>2. UNCHANGED <<lock, grip, torn>>
  BY DEF Reuses, CancelReads, ReadsOverdue, Requeues, FailsInterrupted
<1>3. \A q \in Procs, k \in Jobs : run'[q][k].pc \in DrivingSteps => run[q][k].pc \in DrivingSteps
  BY <1>1, ScheduleElsewhere DEF Reuses, CancelReads, ReadsOverdue, Requeues, FailsInterrupted
<1>4. \A q \in Procs : request'[q].pc = "cleanup" => request[q].pc = "cleanup"
  BY <1>1 DEF Reuses, CancelReads, ReadsOverdue, Requeues, FailsInterrupted
<1> QED BY <1>1, <1>2, <1>3, <1>4, NobodyNew, LockIdle

\* A process that dies takes its runs and its request with it.
LEMMA ProcessStepHolds ==
    ASSUME JobsInv, NEW p \in Procs,
           (\E s \in Sources : CreateReads(p, s)) \/ Starts(p) \/ Opens(p) \/ Crash(p)
    PROVE  LockInv' /\ DriversHold'
<1>1. /\ LockInv /\ DriversHold /\ LockTypeOK /\ run \in RunType /\ request \in [Procs -> RequestRecord]
  BY DEF JobsInv, Typed, RequestTyped
<1>2. CASE (\E s \in Sources : CreateReads(p, s)) \/ Starts(p) \/ Opens(p)
  <2>1. UNCHANGED <<run, lock, grip, torn>>
    BY <1>2 DEF CreateReads, Starts, Opens
  <2>2. \A q \in Procs : request'[q].pc = "cleanup" => request[q].pc = "cleanup"
    BY <1>1, <1>2 DEF CreateReads, Starts, Opens
  <2> QED BY <1>1, <2>1, <2>2, NobodyNew, LockIdle
<1>3. CASE Crash(p)
  <2> DEFINE U == {p} \X (Jobs \cup {Reader})
  <2>1. U \in SUBSET Users /\ Orphan(U)
    BY <1>3 DEF Crash, Users
  <2>2. LockInv'
    BY <1>1, <2>1, OrphanKeeps
  <2>3. ASSUME NEW v \in Users, Driving(v)' PROVE grip'[v] = "holding"
    <3>1. CASE v[1] = p
      BY <1>1, <1>3, <2>3, <3>1 DEF Crash, Driving, Users, NoRun, NoRequest, DrivingSteps, RunType
    <3>2. CASE v[1] # p
      <4>1. Driving(v)
        BY <1>1, <1>3, <2>3, <3>2 DEF Crash, Driving, Users, RunType
      <4>2. grip'[v] = grip[v]
        BY <2>1, <3>2 DEF Orphan
      <4> QED BY <1>1, <4>1, <4>2 DEF DriversHold
    <3> QED BY <3>1, <3>2
  <2> QED BY <2>2, <2>3 DEF DriversHold
<1> QED BY <1>2, <1>3

LEMMA JobsInvInit == Init => JobsInv
<1> SUFFICES ASSUME Init PROVE JobsInv
  OBVIOUS
<1>1. Typed
  BY TypedInit
<1>2. LockInv
  BY DEF Init, LockInit, LockInv, FileKept
<1>3. \A u \in Users : ~Driving(u)
  BY DEF Init, Driving, Users, NoRun, NoRequest, DrivingSteps
<1> QED BY <1>1, <1>2, <1>3 DEF JobsInv, DriversHold

LEMMA JobsInvNext == JobsInv /\ [Next]_vars => JobsInv'
<1> SUFFICES ASSUME JobsInv, [Next]_vars PROVE JobsInv'
  OBVIOUS
<1>1. Typed'
  BY TypedNext DEF JobsInv
<1>2. CASE UNCHANGED vars
  BY <1>1, <1>2, LockIdle DEF JobsInv, vars, DriversHold, Driving
<1>3. ASSUME NEW u \in Users, ReadsStore(u) PROVE LockInv' /\ DriversHold'
  BY <1>3, LockIdle, NobodyNew DEF JobsInv, ReadsStore
<1>4. CASE Next
  BY <1>1, <1>3, <1>4, RunStepHolds, RequestStepHolds, JobStepHolds, ProcessStepHolds DEF Next, BootStep, JobsInv
<1> QED BY <1>2, <1>4

LEMMA JobsInvHolds == Spec => []JobsInv
BY JobsInvInit, JobsInvNext, PTL DEF Spec

\* Whoever works in the browser is alone in it, until a lock file was removed under the
\* living operation that created it.
THEOREM AloneUntilTornHolds == Spec => []AloneUntilTorn
<1>1. JobsInv => AloneUntilTorn
  <2> SUFFICES ASSUME JobsInv, ~torn, NEW u \in Users, NEW v \in Users, Driving(u), Driving(v) PROVE u = v
    BY DEF AloneUntilTorn
  <2>1. lock = FileOf(u) /\ lock = FileOf(v)
    BY DEF JobsInv, DriversHold, LockInv, FileKept
  <2>2. lock.by = u /\ lock.by = v
    BY <2>1, Files
  <2> QED BY <2>2
<1> QED BY <1>1, JobsInvHolds, PTL

-----------------------------------------------------------------------------
(* Queued jobs: what leaves one without a living taker.                    *)

\* What ForgottenOnlyBy says of one job in one step.
RightlyForgotten(j) ==
    Forgotten(j)' /\ ~Forgotten(j) =>
        \/ \E p \in Procs : Taker(p, j) /\ mode'[p] = "down"
        \/ \E u \in Users : PutsBack(u, j)

\* It holds of a job that is not newly queued, or is so with a taker, and loses none.
LEMMA TakersStay ==
    ASSUME NEW j \in Jobs,
           job'[j] = "queued" =>
               /\ \A p \in Procs : Taker(p, j) => Taker(p, j)'
               /\ job[j] = "queued" \/ (\E p \in Procs : Taker(p, j)') \/ \E u \in Users : PutsBack(u, j)
    PROVE  RightlyForgotten(j)
<1> SUFFICES ASSUME Forgotten(j)', ~Forgotten(j) PROVE \E u \in Users : PutsBack(u, j)
  BY DEF RightlyForgotten
<1>1. job'[j] = "queued" /\ ~\E p \in Procs : Taker(p, j)'
  BY DEF Forgotten
<1>2. \A p \in Procs : ~Taker(p, j)
  BY <1>1
<1>3. job[j] # "queued"
  BY <1>2 DEF Forgotten
<1> QED BY <1>1, <1>3

\* A write queues the job it is about, or puts back what was read (upsertJob).
LEMMA WriteQueues ==
    ASSUME StoreTyped, NEW u \in Users, NEW i \in Jobs, NEW status, Puts(u, i, status)
    PROVE  /\ job'[i] = status
           /\ \A j \in Jobs : job'[j] = "queued" =>
                  job[j] = "queued" \/ PutsBack(u, j) \/ (j = i /\ status = "queued")
<1>1. copy[u] # None /\ copy[u] \in Stores /\ copy'[u] = None
  BY DEF StoreTyped, Puts
<1>2. job'[i] = status /\ \A j \in Jobs \ {i} : job'[j] = copy[u][j]
  BY <1>1 DEF Puts, Stores
<1> QED BY <1>1, <1>2 DEF PutsBack

\* So does every step of a run: it writes its own job as running or ended.
LEMMA RunStepWrites ==
    ASSUME Typed, NEW p \in Procs, NEW j \in Jobs, RunStep(p, j), NEW i \in Jobs, job'[i] = "queued"
    PROVE  job[i] = "queued" \/ PutsBack(<<p, j>>, i)
<1>1. StoreTyped /\ <<p, j>> \in Users
  BY DEF Typed, Users
<1>2. CASE \E status \in {"running", "succeeded", "failed"} : Puts(<<p, j>>, j, status)
  BY <1>1, <1>2, WriteQueues
<1>3. CASE UNCHANGED jobVars
  BY <1>3 DEF jobVars
<1> QED BY <1>2, <1>3 DEF RunStep, Turn, StartRun, RunAcquires, RunRetries, QueueTimeout, ReadsCursor, WritesCursor,
         WorkEnds, CleansUp, CleanupThrows, RunUnlinks, Settles, Publishes

\* A run takes its job until it has written it as running, or has found it ended (runJob).
LEMMA RunStepTakes ==
    ASSUME Typed, NEW p \in Procs, NEW j \in Jobs, RunStep(p, j), NEW i \in Jobs
    PROVE  RightlyForgotten(i)
<1>1. StoreTyped /\ run \in RunType /\ <<p, j>> \in Users
  BY DEF Typed, Users
<1>2. UNCHANGED boot
  BY DEF RunStep, Turn, StartRun, RunAcquires, RunRetries, QueueTimeout, ReadsCursor, WritesCursor, WorkEnds, CleansUp,
         CleanupThrows, RunUnlinks, Settles, Publishes, procVars
<1>3. \A q \in Procs, k \in Jobs : q # p \/ k # j => run'[q][k].pc = run[q][k].pc
  <2>1. CASE Ends(p, j)
    BY <1>1, <2>1, EndsElsewhere
  <2>2. CASE \E pc \in RunSteps, ok \in BOOLEAN : Goes(p, j, pc) \/ GoesOk(p, j, pc, ok)
    BY <1>1, <2>2, GoesElsewhere
  <2>3. CASE UNCHANGED run
    BY <2>3
  <2> QED BY <2>1, <2>2, <2>3 DEF RunStep, Turn, StartRun, RunAcquires, RunRetries, QueueTimeout, ReadsCursor,
             WritesCursor, WorkEnds, CleansUp, CleanupThrows, RunUnlinks, Settles, Publishes, RunSteps
<1>4. job'[i] = "queued" => job[i] = "queued" \/ PutsBack(<<p, j>>, i)
  BY RunStepWrites
<1>5. ASSUME job'[j] = "queued", run[p][j].pc \in {"chained", "start"} PROVE run'[p][j].pc \in {"chained", "start"}
  <2>1. CASE Turn(p, j)
    <3>1. job[j] \in Active
      BY <1>5, <2>1 DEF Turn, jobVars, Active
    <3> QED BY <1>1, <2>1, <3>1, GoesElsewhere DEF Turn, RunSteps
  <2>2. CASE StartRun(p, j)
    BY <1>1, <1>5, <2>2, WriteQueues DEF StartRun
  <2> QED BY <1>5, <2>1, <2>2 DEF RunStep, RunAcquires, RunRetries, QueueTimeout, ReadsCursor, WritesCursor, WorkEnds,
             CleansUp, CleanupThrows, RunUnlinks, Settles, Publishes
<1>6. ASSUME NEW q \in Procs, job'[i] = "queued", Taker(q, i) PROVE Taker(q, i)'
  BY <1>2, <1>3, <1>5, <1>6 DEF Taker
<1> QED BY <1>1, <1>4, <1>6, TakersStay

\* A job is chained: it has a taker, and the takers of the others stay.
LEMMA ScheduleTakes ==
    ASSUME run \in RunType, NEW p \in Procs, NEW j \in Jobs, Schedule(p, j)
    PROVE  /\ run'[p][j].pc = "chained"
           /\ \A q \in Procs, k \in Jobs : run[q][k].pc \in {"chained", "start"} => run'[q][k].pc \in {"chained", "start"}
BY DEF Schedule, RunType, RunRecord, NoRun

\* A request queues the job it creates and chains it; the writes of the others end a job.
LEMMA RequestStepTakes ==
    ASSUME Typed, NEW p \in Procs, RequestStep(p), NEW i \in Jobs
    PROVE  RightlyForgotten(i)
<1> DEFINE u == <<p, Reader>>
<1>1. StoreTyped /\ run \in RunType /\ RequestTyped /\ u \in Users
  BY DEF Typed, Users
<1>2. CASE CreateWrites(p)
  <2>1. PICK j \in Jobs : j = request[p].new
    BY <1>1, <1>2 DEF CreateWrites, RequestTyped, CreatesJob
  <2>2. Schedule(p, j) /\ Puts(u, j, "queued") /\ UNCHANGED boot
    BY <1>2, <2>1 DEF CreateWrites
  <2>3. /\ run'[p][j].pc = "chained"
        /\ \A q \in Procs, k \in Jobs : run[q][k].pc \in {"chained", "start"} => run'[q][k].pc \in {"chained", "start"}
    BY <1>1, <2>2, ScheduleTakes
  <2>4. Taker(p, j)' /\ \A q \in Procs : Taker(q, i) => Taker(q, i)'
    BY <2>2, <2>3 DEF Taker
  <2>5. job'[i] = "queued" => job[i] = "queued" \/ PutsBack(u, i) \/ i = j
    BY <1>1, <2>2, WriteQueues
  <2> QED BY <1>1, <2>4, <2>5, TakersStay
<1>3. CASE ~CreateWrites(p)
  <2>1. UNCHANGED <<boot, run>>
    BY <1>3 DEF RequestStep, MarksStale, ReaderAcquires, SkipsCleanup, ReaderCleansUp, ReaderReleases, CancelWrites, procVars
  <2>2. UNCHANGED jobVars \/ \E j \in Jobs \cup {None}, status \in Terminal : Puts(u, j, status)
    BY <1>1, <1>3 DEF RequestStep, MarksStale, ReaderAcquires, SkipsCleanup, ReaderCleansUp, ReaderReleases, CancelWrites,
           Terminal, RequestTyped, RequestRecord
  <2>3. job'[i] = "queued" => job[i] = "queued" \/ PutsBack(u, i)
    <3>1. CASE UNCHANGED jobVars
      BY <3>1 DEF jobVars
    <3>2. ASSUME NEW j, NEW status \in Terminal, Puts(u, j, status), job'[i] = "queued"
          PROVE  job[i] = "queued" \/ PutsBack(u, i)
      <4>1. copy[u] \in Stores /\ copy'[u] = None
        BY <1>1, <3>2 DEF StoreTyped, Puts
      <4>2. copy[u][i] = "queued"
        BY <3>2, <4>1 DEF Puts, Stores, Terminal
      <4> QED BY <3>2, <4>1, <4>2 DEF PutsBack, Puts
    <3> QED BY <2>2, <3>1, <3>2
  <2> QED BY <1>1, <2>1, <2>3, TakersStay DEF Taker
<1> QED BY <1>2, <1>3

LEMMA JobStepTakes ==
    ASSUME Typed, NEW p \in Procs, NEW j \in Jobs, NEW new \in Jobs \cup {None}, NEW i \in Jobs,
           Reuses(p, j) \/ CancelReads(p, j) \/ ReadsOverdue(p, j, new) \/ Requeues(p, j) \/ FailsInterrupted(p, j)
    PROVE  RightlyForgotten(i)
<1> DEFINE u == <<p, Reader>>
<1>1. StoreTyped /\ run \in RunType /\ ProcsTyped /\ u \in Users
  BY DEF Typed, Users
<1>2. CASE Requeues(p, j)
  <2>1. Schedule(p, j) /\ Puts(u, j, "queued") /\ boot' = [boot EXCEPT ![p].queued = @ \ {j}]
    BY <1>2 DEF Requeues
  <2>2. Taker(p, j)' /\ \A q \in Procs : q # p \/ i # j => (Taker(q, i) => Taker(q, i)')
    BY <1>1, <2>1, ScheduleTakes DEF Taker, ProcsTyped
  <2>3. job'[i] = "queued" => job[i] = "queued" \/ PutsBack(u, i) \/ i = j
    BY <1>1, <2>1, WriteQueues
  <2> QED BY <1>1, <2>2, <2>3, TakersStay
<1>3. CASE FailsInterrupted(p, j)
  <2>1. job'[i] = "queued" => job[i] = "queued" \/ PutsBack(u, i)
    BY <1>1, <1>3, WriteQueues DEF FailsInterrupted
  <2>2. \A q \in Procs : boot'[q].queued = boot[q].queued
    BY <1>1, <1>3 DEF FailsInterrupted, ProcsTyped
  <2> QED BY <1>1, <1>3, <2>1, <2>2, TakersStay DEF FailsInterrupted, Taker
<1>4. CASE Reuses(p, j)
  BY <1>1, <1>4, ScheduleTakes, TakersStay DEF Reuses, Taker, jobVars
<1>5. CASE CancelReads(p, j) \/ ReadsOverdue(p, j, new)
  BY <1>5, TakersStay DEF CancelReads, ReadsOverdue, Taker, jobVars, procVars
<1> QED BY <1>2, <1>3, <1>4, <1>5

\* A process that dies is named by the property, and one that starts has listed what is
\* queued (recoverInterruptedJobs).
LEMMA ProcessStepTakes ==
    ASSUME Typed, NEW p \in Procs, NEW i \in Jobs,
           (\E s \in Sources : CreateReads(p, s)) \/ Starts(p) \/ Opens(p) \/ Crash(p)
    PROVE  RightlyForgotten(i)
<1>1. ProcsTyped /\ run \in RunType
  BY DEF Typed
<1>2. CASE \E s \in Sources : CreateReads(p, s)
  BY <1>2, TakersStay DEF CreateReads, Taker, jobVars, procVars
<1>3. CASE Starts(p)
  <2>1. job[i] = "queued" => i \in boot'[p].queued
    BY <1>1, <1>3 DEF Starts, ProcsTyped, OfStatus
  <2>2. job' = job
    BY <1>3 DEF Starts, jobVars
  <2>3. ASSUME NEW q \in Procs, job[i] = "queued", Taker(q, i) PROVE Taker(q, i)'
    <3>1. CASE q = p BY <2>1, <2>3, <3>1 DEF Taker
    <3>2. CASE q # p BY <1>1, <1>3, <2>3, <3>2 DEF Taker, Starts, ProcsTyped
    <3> QED BY <3>1, <3>2
  <2> QED BY <2>2, <2>3, TakersStay
<1>4. CASE Opens(p)
  BY <1>4, TakersStay DEF Opens, Taker, jobVars
<1>5. CASE Crash(p)
  <2>1. job' = job /\ mode'[p] = "down"
    BY <1>1, <1>5 DEF Crash, ProcsTyped
  <2>2. CASE Taker(p, i)
    BY <2>1, <2>2 DEF RightlyForgotten
  <2>3. CASE ~Taker(p, i)
    <3>1. \A q \in Procs : Taker(q, i) => Taker(q, i)'
      BY <1>1, <1>5, <2>3 DEF Crash, Taker, ProcsTyped, RunType
    <3> QED BY <2>1, <3>1, TakersStay
  <2> QED BY <2>2, <2>3
<1> QED BY <1>2, <1>3, <1>4, <1>5

LEMMA RightlyForgottenNext ==
    ASSUME Typed, [Next]_vars, NEW i \in Jobs
    PROVE  RightlyForgotten(i)
<1>1. CASE UNCHANGED vars
  BY <1>1, TakersStay DEF vars, Taker
<1>2. ASSUME NEW u \in Users, ReadsStore(u) PROVE RightlyForgotten(i)
  BY <1>2, TakersStay DEF ReadsStore, Taker, procVars
<1>3. CASE Next
  BY <1>2, <1>3, RunStepTakes, RequestStepTakes, JobStepTakes, ProcessStepTakes DEF Next, BootStep
<1> QED BY <1>1, <1>3

\* A queued job is left without a living taker only by the death of the process that had
\* it, or by a write of the store from a copy that has it queued.
THEOREM ForgottenOnlyByHolds == Spec => ForgottenOnlyBy
<1>1. Typed /\ [Next]_vars =>
          [\A j \in Jobs : Forgotten(j)' /\ ~Forgotten(j) =>
              \/ \E p \in Procs : Taker(p, j) /\ mode'[p] = "down"
              \/ \E u \in Users : PutsBack(u, j)]_vars
  BY RightlyForgottenNext DEF RightlyForgotten
<1> QED BY <1>1, TypedHolds, PTL DEF Spec, ForgottenOnlyBy
=============================================================================
