--------------------------- MODULE MaterializationJobs ---------------------------
(***************************************************************************)
(* The history materialization service: durable jobs that fetch provider   *)
(* conversations through a managed browser.  The API server and the MCP    *)
(* server each run the service on one store of jobs.  A process runs the   *)
(* jobs scheduled in it one after another on a promise chain; a request    *)
(* that reads a job running for too long marks it failed and starts a new  *)
(* chain, while the old run goes on; a process that starts fails the jobs  *)
(* marked running and schedules the queued ones.  Provider work and the    *)
(* killing of the browser after it happen under the operation lock.        *)
(*                                                                         *)
(* The store is one file of all jobs.  A write of one job reads the file   *)
(* and replaces it later by what was read with that job changed: what      *)
(* others have written in between is undone, a new job's entry too.  All   *)
(* jobs need the browser, of one profile and service, and so one operation *)
(* lock.  Time is not modelled: a running job that is read may always have *)
(* been running for too long.                                              *)
(***************************************************************************)
EXTENDS Naturals, FiniteSets

CONSTANTS Procs,
          NumJobs,           \* bound: jobs ever created
          Sources,           \* source keys of requests
          Serving,           \* processes that run from the start
          Cursored,          \* jobs that keep a cursor in the store (Grok's conversations)
          Reader,            \* the user that is not a run: a request, or a starting process
          None,
          MaxBreadth,        \* bound: processes ever started plus jobs ever created
          MaxMishaps         \* bound: deaths of processes, requests to cancel and browsers
                             \* that survive their cleanup

Jobs == 1..NumJobs
Users == Procs \X (Jobs \cup {Reader})

Active == {"queued", "running"}
Terminal == {"succeeded", "failed", "cancelled"}    \* "succeeded": or skipped
Stores == [Jobs -> {"absent"} \cup Active \cup Terminal]

ASSUME JobsAssumption ==
    /\ Serving \subseteq Procs /\ Cursored \subseteq Jobs
    /\ Reader \notin Jobs /\ None \notin Jobs \cup Sources \cup Users \cup Stores
    /\ {NumJobs, MaxBreadth, MaxMishaps} \subseteq Nat

VARIABLES job,       \* the store: the status of every job ...
          source,    \* ... and its source key, which it keeps
          copy,      \* the store as a user has read it to write it back
          mode,      \* of a process
          boot,      \* what a starting process has listed and not yet recovered
          tail,      \* the job at the end of a process's promise chain
          scheduled, \* a process's scheduledJobIds
          run,       \* the runJob call of a process for a job
          request,   \* the request a process is serving
          used,      \* how much of the bounds is used up
          lock, grip, torn
jobVars == <<job, source, copy>>
procVars == <<mode, boot, tail, scheduled>>
vars == <<job, source, copy, mode, boot, tail, scheduled, run, request, used, lock, grip, torn>>

INSTANCE OperationLock WITH Nobody <- None

RunSteps == {"idle", "chained", "start", "acquire", "begin", "begun", "work",
             "check", "checked", "cleanup", "settle", "publish"}
RequestSteps == {"idle", "mark", "acquire", "cleanup", "release", "create", "cancel"}

TypeOK ==
    /\ job \in Stores
    /\ source \in [Jobs -> Sources \cup {None}]
    /\ copy \in [Users -> Stores \cup {None}]
    /\ mode \in [Procs -> {"off", "booting", "up", "down"}]
    /\ boot \in [Procs -> [queued : SUBSET Jobs, running : SUBSET Jobs]]
    /\ tail \in [Procs -> Jobs \cup {None}]
    /\ scheduled \in [Procs -> SUBSET Jobs]
    /\ run \in [Procs -> [Jobs -> [pc : RunSteps, after : Jobs \cup {None}, ok : BOOLEAN]]]
    /\ request \in [Procs -> [pc : RequestSteps, job : Jobs \cup {None}, new : Jobs \cup {None},
                            source : Sources \cup {None}]]
    /\ used \in 0..MaxMishaps
    /\ LockTypeOK

NoRun == [pc |-> "idle", after |-> None, ok |-> TRUE]
NoRequest == [pc |-> "idle", job |-> None, new |-> None, source |-> None]
NoBoot == [queued |-> {}, running |-> {}]

Init ==
    /\ job = [j \in Jobs |-> "absent"] /\ source = [j \in Jobs |-> None]
    /\ copy = [u \in Users |-> None]
    /\ mode = [p \in Procs |-> IF p \in Serving THEN "up" ELSE "off"]
    /\ boot = [p \in Procs |-> NoBoot]
    /\ tail = [p \in Procs |-> None] /\ scheduled = [p \in Procs |-> {}]
    /\ run = [p \in Procs |-> [j \in Jobs |-> NoRun]]
    /\ request = [p \in Procs |-> NoRequest]
    /\ used = 0
    /\ LockInit

Mishap == used < MaxMishaps /\ used' = used + 1
OfStatus(S) == {j \in Jobs : job[j] \in S}

\* upsertJob: the store as it was read replaces the one there is, with the job changed
Puts(u, j, status) ==
    /\ copy[u] # None
    /\ job' = [copy[u] EXCEPT ![j] = status]
    /\ copy' = [copy EXCEPT ![u] = None]

-----------------------------------------------------------------------------
\* scheduleJob: queue = queue.then(runJob).
\* Bound: a job is scheduled again in a process only when its earlier run there is over.
Schedule(p, j) ==
    /\ run[p][j].pc = "idle"
    /\ scheduled' = [scheduled EXCEPT ![p] = @ \cup {j}]
    /\ run' = [run EXCEPT ![p][j] = [NoRun EXCEPT !.pc = "chained", !.after = tail[p]]]
    /\ tail' = [tail EXCEPT ![p] = j]

Goes(p, j, pc) == run' = [run EXCEPT ![p][j].pc = pc]
GoesOk(p, j, pc, ok) == run' = [run EXCEPT ![p][j].pc = pc, ![p][j].ok = ok]

\* the run is over: the next of its chain may go
Ends(p, j) ==
    /\ run' = [run EXCEPT ![p] = [k \in Jobs |-> IF k = j THEN NoRun
                                     ELSE IF @[k].after = j THEN [@[k] EXCEPT !.after = None] ELSE @[k]]]
    /\ scheduled' = [scheduled EXCEPT ![p] = @ \ {j}]
    /\ tail' = [tail EXCEPT ![p] = IF @ = j THEN None ELSE @]

\* runJob reads the job, and returns if it is not active
Turn(p, j) ==
    /\ run[p][j].pc = "chained" /\ run[p][j].after = None
    /\ IF job[j] \in Active THEN Goes(p, j, "start") /\ UNCHANGED <<scheduled, tail>>
                            ELSE Ends(p, j)
    /\ UNCHANGED <<jobVars, mode, boot, request, used, lock, grip, torn>>

\* the job as read is written back as running
StartRun(p, j) ==
    /\ run[p][j].pc = "start"
    /\ Puts(<<p, j>>, j, "running")
    /\ Goes(p, j, "acquire") /\ Grips(<<p, j>>, "asking")
    /\ UNCHANGED <<source, procVars, request, used, lock, torn>>

\* acquireQueued: attempts until one succeeds ...
RunAcquires(p, j) ==
    /\ run[p][j].pc = "acquire" /\ Acquire(<<p, j>>)
    /\ Goes(p, j, IF grip'[<<p, j>>] # "holding" THEN "acquire" ELSE IF j \in Cursored THEN "begin" ELSE "work")
    /\ UNCHANGED <<jobVars, procVars, request, used>>
RunRetries(p, j) ==
    /\ run[p][j].pc = "acquire" /\ Busy(<<p, j>>) /\ Grips(<<p, j>>, "asking")
    /\ UNCHANGED <<jobVars, procVars, run, request, used, lock, torn>>

\* ... or the time is up on a busy one
QueueTimeout(p, j) ==
    /\ run[p][j].pc = "acquire" /\ Busy(<<p, j>>)
    /\ Grips(<<p, j>>, "out") /\ GoesOk(p, j, "settle", FALSE)
    /\ UNCHANGED <<jobVars, procVars, request, used, lock, torn>>

\* beginAttempt and checkpoint: the cursor of a job that is running is written with the
\* job as read; on any other job they throw
ReadsCursor(p, j, from, to) ==
    /\ run[p][j].pc = from
    /\ IF job[j] = "running" THEN Goes(p, j, to) ELSE GoesOk(p, j, "cleanup", FALSE)
    /\ UNCHANGED <<jobVars, procVars, request, used, lock, grip, torn>>
WritesCursor(p, j, from, to) ==
    /\ run[p][j].pc = from
    /\ Puts(<<p, j>>, j, "running") /\ Goes(p, j, to)
    /\ UNCHANGED <<source, procVars, request, used, lock, grip, torn>>

\* the provider work returns or throws; what returned may itself be a failure.
\* Bound: a run makes one attempt
WorkEnds(p, j) ==
    /\ run[p][j].pc = "work"
    /\ \E ok \in BOOLEAN :
          \/ j \in Cursored /\ GoesOk(p, j, "check", ok)
          \/ (j \in Cursored => ~ok) /\ GoesOk(p, j, "cleanup", ok)
    /\ UNCHANGED <<jobVars, procVars, request, used, lock, grip, torn>>

\* the finally of the provider work kills the browser and then releases the lock
CleansUp(p, j) ==
    /\ run[p][j].pc = "cleanup" /\ Release(<<p, j>>)
    /\ Goes(p, j, "settle")
    /\ UNCHANGED <<jobVars, procVars, request, used>>

\* a browser that survives makes the finally throw, and the lock is not released
CleanupThrows(p, j) ==
    /\ run[p][j].pc = "cleanup" /\ Mishap
    /\ Grips(<<p, j>>, "out") /\ GoesOk(p, j, "settle", FALSE)
    /\ UNCHANGED <<jobVars, procVars, request, lock, torn>>

RunUnlinks(p, j) ==
    /\ run[p][j].pc = "settle" /\ Unlink(<<p, j>>)
    /\ UNCHANGED <<jobVars, procVars, run, request, used>>

\* runJob reads the job again, and leaves one that has ended as it is
Settles(p, j) ==
    /\ run[p][j].pc = "settle" /\ grip[<<p, j>>] = "out"
    /\ IF job[j] \notin Terminal THEN Goes(p, j, "publish") /\ UNCHANGED <<scheduled, tail>>
                                 ELSE Ends(p, j)
    /\ UNCHANGED <<jobVars, mode, boot, request, used, lock, grip, torn>>

Publishes(p, j) ==
    /\ run[p][j].pc = "publish"
    /\ Puts(<<p, j>>, j, IF run[p][j].ok THEN "succeeded" ELSE "failed")
    /\ Ends(p, j)
    /\ UNCHANGED <<source, mode, boot, request, used, lock, grip, torn>>

RunStep(p, j) ==
    \/ Turn(p, j) \/ StartRun(p, j)
    \/ RunAcquires(p, j) \/ RunRetries(p, j) \/ QueueTimeout(p, j)
    \/ ReadsCursor(p, j, "begin", "begun") \/ WritesCursor(p, j, "begun", "work")
    \/ WorkEnds(p, j)
    \/ ReadsCursor(p, j, "check", "checked") \/ WritesCursor(p, j, "checked", "cleanup")
    \/ CleansUp(p, j) \/ CleanupThrows(p, j) \/ RunUnlinks(p, j)
    \/ Settles(p, j) \/ Publishes(p, j)

-----------------------------------------------------------------------------
\* Requests.  Bound: a process serves one at a time, beside its runs.

Idle(p) == mode[p] = "up" /\ request[p].pc = "idle"
Serves(p, pc) == request' = [request EXCEPT ![p].pc = pc]
Done(p) == request' = [request EXCEPT ![p] = NoRequest]

\* the next job: its id is new
Created == {j \in Jobs : source[j] # None \/ \E p \in Procs : request[p].new = j}
Started == {p \in Procs : mode[p] # "off"}
Fresh(j) == Created = 1..(j - 1) /\ j + Cardinality(Started) <= MaxBreadth

\* createJob finds no active job of the source
CreateReads(p, s) ==
    /\ Idle(p) /\ \A i \in OfStatus(Active) : source[i] # s
    /\ \E j \in Jobs :
          /\ Fresh(j)
          /\ request' = [request EXCEPT ![p] = [pc |-> "create", job |-> None, new |-> j, source |-> s]]
    /\ UNCHANGED <<jobVars, procVars, run, used, lock, grip, torn>>

CreateWrites(p) ==
    LET j == request[p].new IN
    /\ request[p].pc = "create"
    /\ Puts(<<p, Reader>>, j, "queued") /\ source' = [source EXCEPT ![j] = request[p].source]
    /\ Schedule(p, j) /\ Done(p)
    /\ UNCHANGED <<mode, boot, used, lock, grip, torn>>

\* createJob finds a queued job of the source, and sees that it is scheduled here too
Reuses(p, j) ==
    /\ Idle(p) /\ job[j] = "queued" /\ j \notin scheduled[p]
    /\ Schedule(p, j)
    /\ UNCHANGED <<jobVars, mode, boot, request, used, lock, grip, torn>>

\* a job is listed or read, and has been running for too long; or createJob finds it to be
\* the active one of the source of a job to create (new)
ReadsOverdue(p, j, new) ==
    /\ Idle(p) /\ job[j] = "running"
    /\ new # None => Fresh(new) /\ \A i \in OfStatus(Active) : source[i] = source[j] => i = j
    /\ request' = [request EXCEPT ![p] = [pc |-> "mark", job |-> j, new |-> new,
                                         source |-> IF new = None THEN None ELSE source[j]]]
    /\ UNCHANGED <<jobVars, procVars, run, used, lock, grip, torn>>

\* recoverStaleRunningJob fails the job as it was read, gives its place in the queue up
\* and tries for the lock
MarksStale(p) ==
    LET j == request[p].job IN
    /\ request[p].pc = "mark"
    /\ Puts(<<p, Reader>>, j, "failed")
    /\ scheduled' = [scheduled EXCEPT ![p] = @ \ {j}]
    /\ tail' = [tail EXCEPT ![p] = IF j \in scheduled[p] THEN None ELSE @]
    /\ Serves(p, "acquire") /\ Grips(<<p, Reader>>, "asking")
    /\ UNCHANGED <<source, mode, boot, run, used, lock, torn>>

ReaderAcquires(p) ==
    /\ request[p].pc = "acquire" /\ Acquire(<<p, Reader>>)
    /\ Serves(p, IF grip'[<<p, Reader>>] = "holding" THEN "cleanup" ELSE "acquire")
    /\ UNCHANGED <<jobVars, procVars, run, used>>

\* after the recovery a creation goes on without another look at the store
Recovered(p) == IF request[p].new = None THEN Done(p) ELSE Serves(p, "create")

\* mutant: the browser is killed although another operation holds the profile
CleansUpAnyway(p) ==
    /\ request[p].pc = "acquire" /\ Busy(<<p, Reader>>) /\ Serves(p, "cleanup")
    /\ UNCHANGED <<jobVars, procVars, run, used, lock, grip, torn>>

\* another operation holds the profile: no cleanup
SkipsCleanup(p) ==
    /\ request[p].pc = "acquire" /\ Busy(<<p, Reader>>)
    /\ Grips(<<p, Reader>>, "out") /\ Recovered(p)
    /\ UNCHANGED <<jobVars, procVars, run, used, lock, torn>>

\* here the lock is released also when the cleanup throws, which ends the request
ReaderCleansUp(p) ==
    /\ request[p].pc = "cleanup"
    /\ \/ Serves(p, "release") /\ UNCHANGED used
       \/ /\ Mishap
          /\ request' = [request EXCEPT ![p].pc = "release", ![p].new = None, ![p].source = None]
    /\ UNCHANGED <<jobVars, procVars, run, lock, grip, torn>>
ReaderReleases(p) ==
    /\ request[p].pc = "release" /\ (Release(<<p, Reader>>) \/ Unlink(<<p, Reader>>))
    /\ IF grip'[<<p, Reader>>] = "out" THEN Recovered(p) ELSE UNCHANGED request
    /\ UNCHANGED <<jobVars, procVars, run, used>>

\* cancelJob refuses a job that is not queued
CancelReads(p, j) ==
    /\ Idle(p) /\ job[j] = "queued" /\ Mishap
    /\ request' = [request EXCEPT ![p] = [pc |-> "cancel", job |-> j, new |-> None, source |-> None]]
    /\ UNCHANGED <<jobVars, procVars, run, lock, grip, torn>>
CancelWrites(p) ==
    /\ request[p].pc = "cancel"
    /\ Puts(<<p, Reader>>, request[p].job, "cancelled") /\ Done(p)
    /\ UNCHANGED <<source, procVars, run, used, lock, grip, torn>>

RequestStep(p) ==
    \/ CreateWrites(p) \/ MarksStale(p)
    \/ ReaderAcquires(p) \/ SkipsCleanup(p) \/ ReaderCleansUp(p) \/ ReaderReleases(p)
    \/ CancelWrites(p)

-----------------------------------------------------------------------------
\* Processes.

\* recoverInterruptedJobs lists the jobs before anything is served ...
Starts(p) ==
    /\ \/ mode[p] = "down"
       \/ mode[p] = "off" /\ Cardinality(Started) + Cardinality(Created) < MaxBreadth
    /\ mode' = [mode EXCEPT ![p] = "booting"]
    /\ boot' = [boot EXCEPT ![p] = [queued |-> OfStatus({"queued"}), running |-> OfStatus({"running"})]]
    /\ UNCHANGED <<jobVars, tail, scheduled, run, request, used, lock, grip, torn>>

\* mutant: a queued job is written back and not scheduled
RequeuesOnly(p, j) ==
    /\ j \in boot[p].queued /\ Puts(<<p, Reader>>, j, "queued")
    /\ boot' = [boot EXCEPT ![p].queued = @ \ {j}]
    /\ UNCHANGED <<source, mode, tail, scheduled, run, request, used, lock, grip, torn>>

\* ... puts a queued one back and schedules it ...
Requeues(p, j) ==
    /\ j \in boot[p].queued
    /\ Puts(<<p, Reader>>, j, "queued") /\ Schedule(p, j)
    /\ boot' = [boot EXCEPT ![p].queued = @ \ {j}]
    /\ UNCHANGED <<source, mode, request, used, lock, grip, torn>>

\* mutant: a running one gets a status of its own, which no reader knows
MarksInterrupted(p, j) ==
    /\ j \in boot[p].running /\ Puts(<<p, Reader>>, j, "interrupted")
    /\ boot' = [boot EXCEPT ![p].running = @ \ {j}]
    /\ UNCHANGED <<source, mode, tail, scheduled, run, request, used, lock, grip, torn>>

\* ... and fails a running one, whoever runs it
FailsInterrupted(p, j) ==
    /\ j \in boot[p].running
    /\ Puts(<<p, Reader>>, j, "failed")
    /\ boot' = [boot EXCEPT ![p].running = @ \ {j}]
    /\ UNCHANGED <<source, mode, tail, scheduled, run, request, used, lock, grip, torn>>

Opens(p) ==
    /\ mode[p] = "booting" /\ boot[p] = NoBoot
    /\ mode' = [mode EXCEPT ![p] = "up"]
    /\ UNCHANGED <<jobVars, boot, tail, scheduled, run, request, used, lock, grip, torn>>

BootStep(p) == Opens(p) \/ \E j \in Jobs : Requeues(p, j) \/ FailsInterrupted(p, j)

Crash(p) ==
    /\ mode[p] \in {"booting", "up"} /\ Mishap
    /\ mode' = [mode EXCEPT ![p] = "down"] /\ boot' = [boot EXCEPT ![p] = NoBoot]
    /\ tail' = [tail EXCEPT ![p] = None] /\ scheduled' = [scheduled EXCEPT ![p] = {}]
    /\ run' = [run EXCEPT ![p] = [j \in Jobs |-> NoRun]]
    /\ request' = [request EXCEPT ![p] = NoRequest]
    /\ Orphan({p} \X (Jobs \cup {Reader}))
    /\ copy' = [u \in Users |-> IF u[1] = p THEN None ELSE copy[u]]
    /\ UNCHANGED <<job, source>>

-----------------------------------------------------------------------------
\* Whoever is about to write a job.
Writing(u) ==
    LET p == u[1] IN
    IF u[2] = Reader THEN request[p].pc \in {"mark", "create", "cancel"} \/ boot[p] # NoBoot
                     ELSE run[p][u[2]].pc \in {"start", "begun", "checked", "publish"}

\* upsertJob reads the store
ReadsStore(u) ==
    /\ Writing(u) /\ copy[u] = None
    /\ copy' = [copy EXCEPT ![u] = job]
    /\ UNCHANGED <<job, source, procVars, run, request, used, lock, grip, torn>>

Next ==
    \/ \E p \in Procs :
          \/ \E s \in Sources : CreateReads(p, s)
          \/ Starts(p) \/ BootStep(p) \/ Crash(p) \/ RequestStep(p)
          \/ \E j \in Jobs :
                \/ RunStep(p, j)
                \/ Reuses(p, j) \/ CancelReads(p, j)
                \/ \E new \in Jobs \cup {None} : ReadsOverdue(p, j, new)
    \/ \E u \in Users : ReadsStore(u)

Spec == Init /\ [][Next]_vars

-----------------------------------------------------------------------------
DrivingSteps == {"begin", "begun", "work", "check", "checked", "cleanup"}

\* in the browser, or killing it
Driving(u) == IF u[2] = Reader THEN request[u[1]].pc = "cleanup" ELSE run[u[1]][u[2]].pc \in DrivingSteps

\* Whoever works in the managed browser is alone in it: while a run works there no other
\* run does, of this process or another, and no stale recovery kills the browser under it
\* (the finally of runJob and recoverStaleRunningJob), whatever was marked stale, failed by
\* a starting process, cancelled or left by a dead one; until a lock file has been removed
\* under the living operation that created it, which the dispatcher's acquire can do.
AloneUntilTorn == torn \/ \A u, v \in Users : Driving(u) /\ Driving(v) => u = v

Taker(p, j) == j \in boot[p].queued \/ run[p][j].pc \in {"chained", "start"}
Forgotten(j) == job[j] = "queued" /\ \A p \in Procs : ~Taker(p, j)

\* a write by u makes the job queued again, as u has read it
PutsBack(u, j) ==
    /\ copy[u] # None /\ copy'[u] = None
    /\ copy[u][j] = "queued" /\ job[j] # "queued"

\* A job stored as queued that no living process has chained, or listed to requeue, stays
\* so for ever unless a server starts or its source is requested again (the
\* scheduler summary calls it stale).  Two things only bring that about: the death of the process that
\* had it, and the write of a job by one that had read the store while this one was queued,
\* which undoes what was written since.  No cancellation, stale recovery, reset of the
\* queue, restart, reuse or run of the job itself does (scheduleJob, recoverInterruptedJobs,
\* recoverStaleRunningJob, upsertJob).
ForgottenOnlyBy ==
    [][\A j \in Jobs : Forgotten(j)' /\ ~Forgotten(j) =>
            \/ \E p \in Procs : Taker(p, j) /\ mode'[p] = "down"
            \/ \E u \in Users : PutsBack(u, j)]_vars
=============================================================================
