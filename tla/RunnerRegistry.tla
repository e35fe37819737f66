----------------------------- MODULE RunnerRegistry -----------------------------
(***************************************************************************)
(* The registry of runners: one record per API server on disk, written by  *)
(* the server's own start, heartbeat loop, drains and shutdown, marked     *)
(* stale by the liveness sweep of any server, and deleted by the           *)
(* compaction any server performs when it starts (runnersControl.ts,       *)
(* runnersStore.ts, their callers in serviceHost.ts and                    *)
(* responsesServer.ts).                                                    *)
(*                                                                         *)
(* A server has three threads of control that interleave at every await:   *)
(* main (start, compaction, close), beat (the heartbeat timer) and drain   *)
(* (sweeps and activity records).  A heartbeat made at t expires at t + 1. *)
(***************************************************************************)
EXTENDS Integers, FiniteSets

CONSTANTS
    Servers,      \* API servers; a server's runner has the server's name
    Missing,      \* "there is no record"
    KeepNewest,   \* the number of stale records compaction retains
    CommitWindow, \* are revision check and rename of a write separate steps?
    MaxClock,     \* bound: time; servers start and heartbeat before it
    MaxStarts,    \* bound: server starts
    MaxBeats,     \* bound: heartbeats
    MaxActivity   \* bound: activity records

ASSUME RegistryAssumption ==
    /\ KeepNewest \in Nat
    /\ CommitWindow \in BOOLEAN
    /\ {MaxClock, MaxStarts, MaxBeats, MaxActivity} \subseteq Nat

VARIABLES
    record,   \* record[r]: the stored record of runner r
    clock,
    thread,   \* thread[a]: what thread a is doing, and on what it has read
    used,     \* how much of each bound has been used
    overrun   \* history: has a server renamed its stale mark over a record of another
              \* server that had changed since the revision check?

vars == <<record, clock, thread, used, overrun>>

Threads == Servers \X {"main", "beat", "drain"}
RunnerRecords == [revision : Nat, status : {"active", "stale"},
                  heartbeatAt : Nat, expiresAt : Nat]

ASSUME MissingAssumption == Missing \notin RunnerRecords

MainPcs == {"down", "registerWrite", "renew", "renewWrite", "compact", "delete",
            "serving", "closing", "closeWrite", "closed"}
LoopPcs == {"idle", "retry", "write", "mark", "markWrite"}

(***************************************************************************)
(* at: the time the operation took at its start; target: the runner it     *)
(* writes; seen: the record it read; tries: lost races so far; todo: the   *)
(* runners it has yet to mark or delete; checked: its write has passed the *)
(* revision check.                                                         *)
(***************************************************************************)
ThreadStates == [pc : MainPcs \cup LoopPcs, at : Nat, target : Servers,
                 seen : RunnerRecords \cup {Missing}, tries : Nat,
                 todo : SUBSET Servers, checked : BOOLEAN]

Rest(h, l) == [pc |-> l, at |-> 0, target |-> h, seen |-> Missing, tries |-> 0,
               todo |-> {}, checked |-> FALSE]

TypeOK ==
    /\ record \in [Servers -> RunnerRecords \cup {Missing}]
    /\ clock \in Nat
    /\ thread \in [Threads -> ThreadStates]
    /\ used \in [starts : Nat, beats : Nat, activity : Nat]
    /\ overrun \in BOOLEAN

Init ==
    /\ record = [r \in Servers |-> Missing]
    /\ clock = 0
    /\ thread = [a \in Threads |-> Rest(a[1], IF a[2] = "main" THEN "down" ELSE "idle")]
    /\ used = [starts |-> 0, beats |-> 0, activity |-> 0]
    /\ overrun = FALSE

--------------------------------------------------------------------------------
Main(h) == <<h, "main">>
Beat(h) == <<h, "beat">>
DrainOf(h) == <<h, "drain">>

At(a, l) == thread[a].pc = l
Serving(h) == At(Main(h), "serving")

Become(a, state) == thread' = [thread EXCEPT ![a] = state]
Goto(a, l) == Become(a, [thread[a] EXCEPT !.pc = l])

Active(rec) == rec # Missing /\ rec.status = "active"
Revision(rec) == IF rec = Missing THEN 0 ELSE rec.revision

\* mutant of Queued: no queue, only the revision check
NoQueue(a) == FALSE

\* withRunnerWriteQueue: another write of this process to the same runner is under way
Queued(a) ==
    \E b \in Threads \ {a} :
        b[1] = a[1] /\ thread[b].checked /\ thread[b].target = thread[a].target

(***************************************************************************)
(* writeExecutionRunnerStoredRecordNow: rec replaces the record a has      *)
(* read; a becomes ok when the write lands and bad when it is refused.     *)
(* Renaming into a directory that compaction has removed may fail too.     *)
(***************************************************************************)
Write(a, rec, ok, bad) ==
    LET r == thread[a].target
        expected == Revision(thread[a].seen)
        lands == /\ record' = [record EXCEPT ![r] = [rec EXCEPT !.revision = expected + 1]]
                 /\ overrun' = (overrun \/ (a[1] # r /\ Revision(record[r]) # expected))
                 /\ Become(a, ok)
    IN
    /\ ~Queued(a)
    /\ \/ ~CommitWindow /\ Revision(record[r]) = expected /\ lands
       \/ /\ CommitWindow /\ ~thread[a].checked /\ Revision(record[r]) = expected
          /\ Become(a, [thread[a] EXCEPT !.checked = TRUE])
          /\ UNCHANGED <<record, overrun>>
       \/ thread[a].checked /\ lands
       \/ /\ thread[a].checked /\ record[r] = Missing
          /\ Become(a, bad)
          /\ UNCHANGED <<record, overrun>>
       \/ /\ ~thread[a].checked /\ Revision(record[r]) # expected
          /\ Become(a, bad)
          /\ UNCHANGED <<record, overrun>>

(***************************************************************************)
(* updateRunnerWithRevisionRetry: RUNNER_UPDATE_MAX_ATTEMPTS reads and     *)
(* writes, then give up.                                                   *)
(***************************************************************************)
MaxAttempts == 3

Update(a, rec, done, again, failed) ==
    Write(a, rec, done,
          IF thread[a].tries + 1 < MaxAttempts
          THEN [thread[a] EXCEPT !.pc = again, !.tries = @ + 1, !.checked = FALSE,
                                 !.seen = Missing]
          ELSE failed)

\* the next read of the record, or the exception that it is gone
Reread(a, l, failed) ==
    Become(a, IF record[thread[a].target] = Missing THEN failed
              ELSE [thread[a] EXCEPT !.pc = l, !.seen = record[thread[a].target]])

\* the records the operations write, from the one read and the time taken
Heartbeat(state) == [revision |-> 0, status |-> "active",
                     heartbeatAt |-> state.at, expiresAt |-> state.at + 1]

\* mutant of Stale: a status the schema does not know
StaleExpired(state) == [state.seen EXCEPT !.status = "expired", !.expiresAt = state.at]

\* mutant of Stale: the expiry stays as it was
StaleKeepsExpiry(state) == [state.seen EXCEPT !.status = "stale"]

\* markRunnerStale
Stale(state) == [state.seen EXCEPT !.status = "stale", !.expiresAt = state.at]

--------------------------------------------------------------------------------
(***************************************************************************)
(* Starting a server: registerLocalRunner heartbeats a record it finds and *)
(* registers a new one otherwise; compactStaleRunners follows.  A server   *)
(* that cannot register does not start.                                    *)
(***************************************************************************)
StartServer(h) ==
    /\ At(Main(h), "down") /\ clock < MaxClock /\ used.starts < MaxStarts
    /\ used' = [used EXCEPT !.starts = @ + 1]
    /\ Become(Main(h), [Rest(h, IF record[h] = Missing THEN "registerWrite" ELSE "renew")
                          EXCEPT !.at = clock])
    /\ UNCHANGED <<record, clock, overrun>>

RegisterRunner(h) ==
    /\ At(Main(h), "registerWrite")
    /\ Write(Main(h), Heartbeat(thread[Main(h)]), Rest(h, "compact"), Rest(h, "down"))
    /\ UNCHANGED <<clock, used>>

RenewRead(h) ==
    /\ At(Main(h), "renew")
    /\ Reread(Main(h), "renewWrite", Rest(h, "down"))
    /\ UNCHANGED <<record, clock, used, overrun>>

RenewWrite(h) ==
    /\ At(Main(h), "renewWrite")
    /\ Update(Main(h), Heartbeat(thread[Main(h)]), Rest(h, "compact"), "renew",
              Rest(h, "down"))
    /\ UNCHANGED <<clock, used>>

StaleRunners == {r \in Servers : record[r] # Missing /\ record[r].status = "stale"}

\* old: all stale runners but the KeepNewest with the newest heartbeats
Surplus(old) ==
    LET kept == StaleRunners \ old IN
    /\ old \subseteq StaleRunners
    /\ \A r \in old, s \in kept : record[r].heartbeatAt <= record[s].heartbeatAt
    /\ Cardinality(kept) <= KeepNewest
    /\ old # {} => Cardinality(kept) = KeepNewest

ListSurplus(h) ==
    /\ At(Main(h), "compact")
    /\ \E old \in SUBSET Servers :
         /\ Surplus(old)
         /\ Become(Main(h), IF old = {} THEN Rest(h, "serving")
                            ELSE [Rest(h, "delete") EXCEPT !.todo = old])
    /\ UNCHANGED <<record, clock, used, overrun>>

DeleteRunner(h) ==
    /\ At(Main(h), "delete")
    /\ \E r \in thread[Main(h)].todo :
         LET left == thread[Main(h)].todo \ {r} IN
         /\ record' = [record EXCEPT ![r] = Missing]
         /\ Become(Main(h), IF left = {} THEN Rest(h, "serving")
                            ELSE [Rest(h, "delete") EXCEPT !.todo = left])
    /\ UNCHANGED <<clock, used, overrun>>

--------------------------------------------------------------------------------
(***************************************************************************)
(* The heartbeat loop.  A heartbeat of a record that is gone, or one that  *)
(* loses three races, throws; the error is logged and the timer goes on.   *)
(***************************************************************************)
HeartbeatRunner(h) ==
    /\ Serving(h) /\ At(Beat(h), "idle") /\ record[h] # Missing
    /\ clock < MaxClock /\ used.beats < MaxBeats
    /\ used' = [used EXCEPT !.beats = @ + 1]
    /\ Become(Beat(h), [Rest(h, "write") EXCEPT !.at = clock, !.seen = record[h]])
    /\ UNCHANGED <<record, clock, overrun>>

HeartbeatRetry(h) ==
    /\ At(Beat(h), "retry")
    /\ Reread(Beat(h), "write", Rest(h, "idle"))
    /\ UNCHANGED <<record, clock, used, overrun>>

HeartbeatWrite(h) ==
    /\ At(Beat(h), "write")
    /\ Update(Beat(h), Heartbeat(thread[Beat(h)]), Rest(h, "idle"), "retry",
              Rest(h, "idle"))
    /\ UNCHANGED <<clock, used>>

--------------------------------------------------------------------------------
(***************************************************************************)
(* Drains: the sweep takes the runners to mark from one listing, and       *)
(* markRunnerStale reads each again without asking whether it still has    *)
(* expired.  A lost race, or a record that is gone, ends the sweep.        *)
(***************************************************************************)

\* mutant of ExpireRunners: a server looks only at its own runner
ExpireOwnRunner(h) ==
    /\ Serving(h) /\ At(DrainOf(h), "idle")
    /\ Active(record[h]) /\ record[h].expiresAt <= clock
    /\ Become(DrainOf(h), [Rest(h, "mark") EXCEPT !.at = clock, !.todo = {h}])
    /\ UNCHANGED <<record, clock, used, overrun>>

ExpireRunners(h) ==
    LET expired == {r \in Servers : Active(record[r]) /\ record[r].expiresAt <= clock}
    IN
    /\ Serving(h) /\ At(DrainOf(h), "idle") /\ expired # {}
    /\ Become(DrainOf(h), [Rest(h, "mark") EXCEPT !.at = clock, !.todo = expired])
    /\ UNCHANGED <<record, clock, used, overrun>>

MarkRead(h) ==
    /\ At(DrainOf(h), "mark")
    /\ \E r \in thread[DrainOf(h)].todo :
         Become(DrainOf(h),
                IF record[r] = Missing THEN Rest(h, "idle")
                ELSE [thread[DrainOf(h)] EXCEPT !.pc = "markWrite", !.target = r,
                                                !.seen = record[r]])
    /\ UNCHANGED <<record, clock, used, overrun>>

MarkWrite(h) ==
    LET d == thread[DrainOf(h)]
        left == d.todo \ {d.target}
    IN
    /\ At(DrainOf(h), "markWrite")
    /\ Write(DrainOf(h), Stale(d),
             IF left = {} THEN Rest(h, "idle")
             ELSE [Rest(h, "mark") EXCEPT !.at = d.at, !.todo = left],
             Rest(h, "idle"))
    /\ UNCHANGED <<clock, used>>

\* recordRunnerActivity leaves status, heartbeat and expiry as they were read
RecordActivity(h) ==
    /\ Serving(h) /\ At(DrainOf(h), "idle") /\ record[h] # Missing
    /\ used.activity < MaxActivity
    /\ used' = [used EXCEPT !.activity = @ + 1]
    /\ Become(DrainOf(h), [Rest(h, "write") EXCEPT !.seen = record[h]])
    /\ UNCHANGED <<record, clock, overrun>>

ActivityRetry(h) ==
    /\ At(DrainOf(h), "retry")
    /\ Reread(DrainOf(h), "write", Rest(h, "idle"))
    /\ UNCHANGED <<record, clock, used, overrun>>

ActivityWrite(h) ==
    /\ At(DrainOf(h), "write")
    /\ Update(DrainOf(h), thread[DrainOf(h)].seen, Rest(h, "idle"), "retry",
              Rest(h, "idle"))
    /\ UNCHANGED <<clock, used>>

--------------------------------------------------------------------------------
(***************************************************************************)
(* Closing a server stops the timers, waits for the drain queue and marks  *)
(* the runner stale.  A heartbeat in flight goes on, and when it wins the  *)
(* race the revision mismatch is ignored.                                  *)
(***************************************************************************)
CloseServer(h) ==
    /\ Serving(h)
    /\ Goto(Main(h), "closing")
    /\ UNCHANGED <<record, clock, used, overrun>>

CloseRead(h) ==
    /\ At(Main(h), "closing") /\ At(DrainOf(h), "idle")
    /\ Become(Main(h), IF record[h] = Missing THEN Rest(h, "closed")
                       ELSE [Rest(h, "closeWrite") EXCEPT !.at = clock, !.seen = record[h]])
    /\ UNCHANGED <<record, clock, used, overrun>>

CloseWrite(h) ==
    /\ At(Main(h), "closeWrite")
    /\ Write(Main(h), Stale(thread[Main(h)]), Rest(h, "closed"), Rest(h, "closed"))
    /\ UNCHANGED <<clock, used>>

ExitServer(h) ==
    /\ At(Main(h), "closed") /\ At(Beat(h), "idle")
    /\ Goto(Main(h), "down")
    /\ UNCHANGED <<record, clock, used, overrun>>

\* the process dies at any await
CrashServer(h) ==
    /\ ~At(Main(h), "down")
    /\ thread' = [a \in Threads |->
                    IF a[1] # h THEN thread[a]
                    ELSE Rest(h, IF a[2] = "main" THEN "down" ELSE "idle")]
    /\ UNCHANGED <<record, clock, used, overrun>>

Tick ==
    /\ clock < MaxClock
    /\ clock' = clock + 1
    /\ UNCHANGED <<record, thread, used, overrun>>

--------------------------------------------------------------------------------
Boot(h) ==
    \/ RegisterRunner(h) \/ RenewRead(h) \/ RenewWrite(h)
    \/ ListSurplus(h) \/ DeleteRunner(h)

Loop(h) ==
    \/ HeartbeatRunner(h) \/ HeartbeatRetry(h) \/ HeartbeatWrite(h)

DrainPass(h) ==
    \/ ExpireRunners(h) \/ MarkRead(h) \/ MarkWrite(h)
    \/ RecordActivity(h) \/ ActivityRetry(h) \/ ActivityWrite(h)

Close(h) == CloseRead(h) \/ CloseWrite(h) \/ ExitServer(h)

Next ==
    \/ \E h \in Servers :
         \/ StartServer(h) \/ Boot(h) \/ Loop(h) \/ DrainPass(h)
         \/ CloseServer(h) \/ Close(h) \/ CrashServer(h)
    \/ Tick

Spec == Init /\ [][Next]_vars

(***************************************************************************)
(* Fairness: what a server has begun goes on unless the server dies, its   *)
(* timers keep firing, and time passes.  Nobody has to start or close a    *)
(* server.                                                                 *)
(***************************************************************************)
FairSpec ==
    /\ Spec
    /\ \A h \in Servers : WF_vars(Boot(h)) /\ WF_vars(Loop(h)) /\ WF_vars(DrainPass(h))
    /\ \A h \in Servers : WF_vars(Close(h))
    /\ WF_vars(Tick)

--------------------------------------------------------------------------------
(***************************************************************************)
(* Properties.                                                             *)
(***************************************************************************)
\* A runner that is marked stale has expired, also in a record that was written from
\* an old read: claims and repair, which look at either field, agree on it.
StaleMeansExpired ==
    \A r \in Servers : record[r] # Missing /\ record[r].status = "stale"
                         => record[r].expiresAt <= clock

\* An accepted heartbeat is not undone: nothing but a stale mark or a deletion shortens
\* the life of an active record, in particular no activity record or retried heartbeat
\* that was built from an older read, though the revision check and the rename of a
\* write are apart: the writes of one process to one runner are queued.  This holds
\* until a mark of another process overruns its check; a mark takes the revision back,
\* and an old read can then pass for a fresh one.
HeartbeatNotUndone ==
    [][~overrun' => \A r \in Servers :
          Active(record[r]) /\ Active(record'[r])
            => record'[r].expiresAt >= record[r].expiresAt]_vars

\* The runner of a server that stays down is eventually stale or gone for good, as long
\* as another server stays up, even when the shutdown mark lost a race or never came.
DeadRunnersGoStale ==
    \A r, h \in Servers :
        (<>[]At(Main(r), "down") /\ <>[]Serving(h)) => <>[]~Active(record[r])
================================================================================
