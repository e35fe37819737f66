-------------------------- MODULE RunnerRegistryProofs --------------------------
(***************************************************************************)
(* Type correctness of the registry, StaleMeansExpired and                 *)
(* HeartbeatNotUndone, for any number of servers and with or without the   *)
(* commit window.  The first invariant is a type invariant over sharper    *)
(* types: a record is sound when a stale status comes with an expiry in    *)
(* the past, and a thread is sound when what it has read is, its time is   *)
(* not in the future, and it has read something where it is about to write *)
(* it back.  The second one orders what a server's drain holds, the stored *)
(* record and the heartbeat under way, by revision and by expiry.          *)
(***************************************************************************)
EXTENDS RunnerRegistry, TLAPS

\* what an operation hands to a write, which gives it the next revision
Writable(now) == {x \in RunnerRecords : x.status = "stale" => x.expiresAt <= now}

SoundRecords(now) == {x \in Writable(now) : x.revision > 0}

SoundThreads(now) ==
    {t \in ThreadStates : /\ t.at <= now
                          /\ t.seen \in SoundRecords(now) \cup {Missing}
                          /\ t.pc \in {"write", "markWrite", "closeWrite"}
                               => t.seen # Missing}

\* what is on disk and what the threads hold
Stored == record \in [Servers -> SoundRecords(clock) \cup {Missing}]
Held == thread \in [Threads -> SoundThreads(clock)]

RegistryInv ==
    /\ Stored
    /\ Held
    /\ clock \in Nat
    /\ used \in [starts : Nat, beats : Nat, activity : Nat]
    /\ overrun \in BOOLEAN

--------------------------------------------------------------------------------
Pcs == MainPcs \cup LoopPcs
Resting == Pcs \ {"write", "markWrite", "closeWrite"}

\* A thread at rest, or with a time and a list of runners, is sound.
LEMMA RestSound ==
    ASSUME clock \in Nat, NEW h \in Servers, NEW l \in Resting,
           NEW t \in Nat, t <= clock, NEW s \in SUBSET Servers
    PROVE  /\ Rest(h, l) \in SoundThreads(clock)
           /\ [Rest(h, l) EXCEPT !.at = t] \in SoundThreads(clock)
           /\ [Rest(h, l) EXCEPT !.todo = s] \in SoundThreads(clock)
           /\ [Rest(h, l) EXCEPT !.at = t, !.todo = s] \in SoundThreads(clock)
<1>1. l \in MainPcs \cup LoopPcs /\ l \notin {"write", "markWrite", "closeWrite"}
  BY DEF Resting, Pcs
<1>2. Rest(h, l) \in ThreadStates /\ Rest(h, l).at = 0
        /\ Rest(h, l).seen = Missing /\ Rest(h, l).pc = l
  BY <1>1 DEF Rest, ThreadStates
<1>3. ASSUME NEW q \in ThreadStates, q.at <= clock, q.seen = Missing, q.pc = l
      PROVE  q \in SoundThreads(clock)
  BY <1>1, <1>3 DEF SoundThreads
<1>4. ASSUME NEW q \in ThreadStates, q.at <= clock, q.seen = Missing, q.pc = l
      PROVE  /\ [q EXCEPT !.at = t] \in SoundThreads(clock)
             /\ [q EXCEPT !.todo = s] \in SoundThreads(clock)
             /\ [q EXCEPT !.at = t, !.todo = s] \in SoundThreads(clock)
  <2>1. [q EXCEPT !.at = t] \in SoundThreads(clock)
    BY <1>1, <1>4 DEF SoundThreads, ThreadStates
  <2>2. [q EXCEPT !.todo = s] \in SoundThreads(clock)
    BY <1>1, <1>4 DEF SoundThreads, ThreadStates
  <2>3. [q EXCEPT !.at = t, !.todo = s] \in SoundThreads(clock)
    BY <1>1, <1>4 DEF SoundThreads, ThreadStates
  <2> QED BY <2>1, <2>2, <2>3
<1>5. 0 <= clock OBVIOUS
<1> QED BY <1>2, <1>3, <1>4, <1>5

\* So is one that has just read a record.
LEMMA ReadSound ==
    ASSUME clock \in Nat, NEW h \in Servers, NEW l \in Pcs,
           NEW t \in Nat, t <= clock, NEW x \in SoundRecords(clock)
    PROVE  /\ [Rest(h, l) EXCEPT !.seen = x] \in SoundThreads(clock)
           /\ [Rest(h, l) EXCEPT !.at = t, !.seen = x] \in SoundThreads(clock)
<1>1. x \in RunnerRecords BY DEF SoundRecords, Writable
<1>2. x # Missing BY <1>1, MissingAssumption
<1>3. Rest(h, l) \in ThreadStates /\ Rest(h, l).at = 0
  BY DEF Rest, ThreadStates, Pcs
<1>4. ASSUME NEW q \in ThreadStates, q.at <= clock
      PROVE  /\ [q EXCEPT !.seen = x] \in SoundThreads(clock)
             /\ [q EXCEPT !.at = t, !.seen = x] \in SoundThreads(clock)
  <2>1. [q EXCEPT !.seen = x] \in SoundThreads(clock)
    BY <1>1, <1>2, <1>4 DEF SoundThreads, ThreadStates
  <2>2. [q EXCEPT !.at = t, !.seen = x] \in SoundThreads(clock)
    BY <1>1, <1>2, <1>4 DEF SoundThreads, ThreadStates
  <2> QED BY <2>1, <2>2
<1>5. 0 <= clock OBVIOUS
<1> QED BY <1>3, <1>4, <1>5

LEMMA ThreadNames ==
    ASSUME NEW h \in Servers
    PROVE  Main(h) \in Threads /\ Beat(h) \in Threads /\ DrainOf(h) \in Threads
  BY DEF Threads, Main, Beat, DrainOf

\* A thread becoming a sound state keeps the threads sound.
LEMMA BecomeSound ==
    ASSUME Held, NEW a \in Threads, NEW t \in SoundThreads(clock), Become(a, t),
           clock' = clock
    PROVE  Held'
  BY DEF Held, Become, SoundThreads

\* A write of a sound record leaves sound records and threads.
LEMMA WriteSound ==
    ASSUME RegistryInv, NEW a \in Threads, NEW rec \in Writable(clock),
           NEW ok \in SoundThreads(clock), NEW bad \in SoundThreads(clock),
           Write(a, rec, ok, bad), UNCHANGED clock
    PROVE  Stored' /\ Held'
<1>1. thread[a] \in SoundThreads(clock) /\ thread[a] \in ThreadStates
  BY DEF RegistryInv, Held, SoundThreads
<1>2. Revision(thread[a].seen) \in Nat
  BY <1>1, MissingAssumption DEF ThreadStates, Revision, RunnerRecords
<1>3. ASSUME record' = [record EXCEPT ![thread[a].target] =
                          [rec EXCEPT !.revision = Revision(thread[a].seen) + 1]],
             Become(a, ok)
      PROVE  Stored' /\ Held'
  <2>1. [rec EXCEPT !.revision = Revision(thread[a].seen) + 1] \in SoundRecords(clock)
    BY <1>2 DEF SoundRecords, Writable, RunnerRecords
  <2>2. Stored' BY <1>3, <2>1 DEF RegistryInv, Stored, SoundRecords, Writable
  <2> QED BY <1>3, <2>2, BecomeSound DEF RegistryInv
<1>4. ASSUME Become(a, [thread[a] EXCEPT !.checked = TRUE]), UNCHANGED record
      PROVE  Stored' /\ Held'
  <2>1. [thread[a] EXCEPT !.checked = TRUE] \in SoundThreads(clock)
    BY <1>1 DEF SoundThreads, ThreadStates
  <2>2. Stored' BY <1>4 DEF RegistryInv, Stored, SoundRecords, Writable
  <2> QED BY <1>4, <2>1, <2>2, BecomeSound DEF RegistryInv
<1>5. ASSUME Become(a, bad), UNCHANGED record PROVE Stored' /\ Held'
  <2>1. Stored' BY <1>5 DEF RegistryInv, Stored, SoundRecords, Writable
  <2> QED BY <1>5, <2>1, BecomeSound DEF RegistryInv
<1> QED BY <1>3, <1>4, <1>5 DEF Write

\* The same for an update that is retried at a pc that reads again.
LEMMA UpdateSound ==
    ASSUME RegistryInv, NEW a \in Threads, NEW rec \in Writable(clock),
           NEW ok \in SoundThreads(clock), NEW again \in Resting,
           NEW bad \in SoundThreads(clock),
           Update(a, rec, ok, again, bad), UNCHANGED clock
    PROVE  Stored' /\ Held'
<1> DEFINE retry == [thread[a] EXCEPT !.pc = again, !.tries = @ + 1, !.checked = FALSE,
                                      !.seen = Missing]
<1>1. thread[a] \in SoundThreads(clock)
  BY DEF RegistryInv, Held
<1>2. retry \in SoundThreads(clock)
  <2>1. again \in MainPcs \cup LoopPcs /\ again \notin {"write", "markWrite", "closeWrite"}
    BY DEF Resting, Pcs
  <2>2. thread[a] \in ThreadStates /\ thread[a].at <= clock BY <1>1 DEF SoundThreads
  <2>3. thread[a].tries + 1 \in Nat BY <2>2 DEF ThreadStates
  <2>4. retry \in ThreadStates BY <2>1, <2>2, <2>3 DEF ThreadStates
  <2>5. retry.pc = again /\ retry.at = thread[a].at /\ retry.seen = Missing
    BY <2>2 DEF ThreadStates
  <2> HIDE DEF retry
  <2> QED BY <2>1, <2>2, <2>4, <2>5 DEF SoundThreads
<1>3. Write(a, rec, ok, IF thread[a].tries + 1 < MaxAttempts THEN retry ELSE bad)
  BY DEF Update
<1>4. (IF thread[a].tries + 1 < MaxAttempts THEN retry ELSE bad) \in SoundThreads(clock)
  BY <1>2
<1> HIDE DEF retry
<1> QED BY <1>3, <1>4, WriteSound

\* A read that finds the record, or throws.
LEMMA RereadSound ==
    ASSUME RegistryInv, NEW a \in Threads, NEW l \in Pcs,
           NEW failed \in SoundThreads(clock), Reread(a, l, failed), UNCHANGED clock
    PROVE  Held'
<1>1. thread[a] \in SoundThreads(clock) /\ thread[a].target \in Servers
  BY DEF RegistryInv, Held, SoundThreads, ThreadStates
<1>2. CASE record[thread[a].target] = Missing
  BY <1>2, BecomeSound DEF RegistryInv, Reread
<1>3. CASE record[thread[a].target] # Missing
  <2>1. record[thread[a].target] \in SoundRecords(clock)
    BY <1>1, <1>3 DEF RegistryInv, Stored
  <2>2. [thread[a] EXCEPT !.pc = l, !.seen = record[thread[a].target]]
          \in SoundThreads(clock)
    BY <1>1, <1>3, <2>1 DEF SoundThreads, ThreadStates, SoundRecords, Writable, Pcs
  <2> QED BY <1>3, <2>2, BecomeSound DEF RegistryInv, Reread
<1> QED BY <1>2, <1>3

\* The records that heartbeats and stale marks write are sound.
LEMMA WrittenSound ==
    ASSUME clock \in Nat, NEW t \in SoundThreads(clock)
    PROVE  /\ Heartbeat(t) \in Writable(clock)
           /\ t.seen # Missing => Stale(t) \in Writable(clock)
<1>1. Heartbeat(t) \in Writable(clock)
  BY DEF Heartbeat, SoundRecords, Writable, RunnerRecords, SoundThreads, ThreadStates
<1>2. ASSUME t.seen # Missing PROVE Stale(t) \in Writable(clock)
  <2>1. t.seen \in RunnerRecords /\ t.at \in Nat /\ t.at <= clock
    BY <1>2 DEF SoundThreads, ThreadStates
  <2> QED BY <2>1 DEF Stale, SoundRecords, Writable, RunnerRecords
<1> QED BY <1>1, <1>2

--------------------------------------------------------------------------------
\* What the invariant says of one thread.
LEMMA ThreadFacts ==
    ASSUME RegistryInv, NEW a \in Threads
    PROVE  /\ thread[a] \in SoundThreads(clock)
           /\ thread[a].at \in Nat /\ thread[a].at <= clock
           /\ thread[a].todo \in SUBSET Servers /\ thread[a].target \in Servers
           /\ thread[a].pc \in {"write", "markWrite", "closeWrite"}
                => thread[a].seen # Missing /\ thread[a].seen \in SoundRecords(clock)
<1>1. thread[a] \in SoundThreads(clock) BY DEF RegistryInv, Held
<1>2. thread[a] \in ThreadStates BY <1>1 DEF SoundThreads
<1> QED BY <1>1, <1>2 DEF SoundThreads, ThreadStates

\* Labels at which nothing has to have been read.
LEMMA RestingLabels ==
    /\ {"down", "registerWrite", "renew", "compact", "delete", "serving", "closing",
         "closed", "idle", "retry", "mark"} \subseteq Resting
    /\ {"renewWrite", "write", "markWrite", "closeWrite"} \subseteq Pcs
  BY DEF Resting, Pcs, MainPcs, LoopPcs

\* A step of one thread that leaves the records alone.
LEMMA ThreadStep ==
    ASSUME RegistryInv, NEW a \in Threads, NEW t \in SoundThreads(clock), Become(a, t),
           UNCHANGED <<record, clock>>
    PROVE  Stored' /\ Held'
<1>1. Held' BY BecomeSound DEF RegistryInv
<1>2. Stored' BY DEF RegistryInv, Stored, SoundRecords, Writable
<1> QED BY <1>1, <1>2

\* Starting a server keeps records and threads sound.
LEMMA BootSound ==
    ASSUME RegistryInv, NEW h \in Servers, UNCHANGED clock, StartServer(h) \/ Boot(h)
    PROVE  Stored' /\ Held'
<1> USE ThreadNames, RestingLabels
<1>c. clock \in Nat /\ clock <= clock BY DEF RegistryInv
<1>r. ASSUME NEW l \in Resting PROVE Rest(h, l) \in SoundThreads(clock)
  BY <1>c, RestSound
<1>a. Main(h) \in Threads OBVIOUS
<1>f. Heartbeat(thread[Main(h)]) \in Writable(clock)
  BY <1>a, <1>c, ThreadFacts, WrittenSound
<1>1. ASSUME StartServer(h) PROVE Stored' /\ Held'
  <2> DEFINE l == IF record[h] = Missing THEN "registerWrite" ELSE "renew"
  <2>1. l \in Resting OBVIOUS
  <2>2. Become(Main(h), [Rest(h, l) EXCEPT !.at = clock]) /\ UNCHANGED record
    BY <1>1 DEF StartServer
  <2> HIDE DEF l
  <2>3. [Rest(h, l) EXCEPT !.at = clock] \in SoundThreads(clock)
    BY <1>c, <2>1, RestSound
  <2> QED BY <1>a, <2>2, <2>3, ThreadStep
<1>2. ASSUME RegisterRunner(h) PROVE Stored' /\ Held'
  BY <1>2, <1>a, <1>f, <1>r, WriteSound DEF RegisterRunner
<1>3. ASSUME RenewRead(h) PROVE Stored' /\ Held'
  <2>1. Held' BY <1>3, <1>a, <1>r, RereadSound DEF RenewRead
  <2>2. Stored' BY <1>3 DEF RenewRead, RegistryInv, Stored, SoundRecords, Writable
  <2> QED BY <2>1, <2>2
<1>4. ASSUME RenewWrite(h) PROVE Stored' /\ Held'
  BY <1>4, <1>a, <1>f, <1>r, UpdateSound DEF RenewWrite
<1>5. ASSUME ListSurplus(h) PROVE Stored' /\ Held'
  <2>1. PICK old \in SUBSET Servers :
          Become(Main(h), IF old = {} THEN Rest(h, "serving")
                          ELSE [Rest(h, "delete") EXCEPT !.todo = old])
    BY <1>5 DEF ListSurplus
  <2>2. [Rest(h, "delete") EXCEPT !.todo = old] \in SoundThreads(clock)
    BY <1>c, RestSound
  <2>3. CASE old = {} BY <1>5, <1>a, <1>r, <2>1, <2>3, ThreadStep DEF ListSurplus
  <2>4. CASE old # {} BY <1>5, <1>a, <2>1, <2>2, <2>4, ThreadStep DEF ListSurplus
  <2> QED BY <2>3, <2>4
<1>6. ASSUME DeleteRunner(h) PROVE Stored' /\ Held'
  <2>1. PICK r \in thread[Main(h)].todo :
          /\ record' = [record EXCEPT ![r] = Missing]
          /\ Become(Main(h), IF thread[Main(h)].todo \ {r} = {} THEN Rest(h, "serving")
                             ELSE [Rest(h, "delete") EXCEPT
                                     !.todo = thread[Main(h)].todo \ {r}])
    BY <1>6 DEF DeleteRunner
  <2>2. thread[Main(h)].todo \ {r} \in SUBSET Servers BY <1>a, ThreadFacts
  <2>3. [Rest(h, "delete") EXCEPT !.todo = thread[Main(h)].todo \ {r}]
          \in SoundThreads(clock)
    BY <1>c, <2>2, RestSound
  <2>4. Held'
    <3>1. CASE thread[Main(h)].todo \ {r} = {}
      BY <1>a, <1>r, <2>1, <3>1, BecomeSound DEF RegistryInv
    <3>2. CASE thread[Main(h)].todo \ {r} # {}
      BY <1>a, <2>1, <2>3, <3>2, BecomeSound DEF RegistryInv
    <3> QED BY <3>1, <3>2
  <2>5. Stored' BY <2>1 DEF RegistryInv, Stored, SoundRecords, Writable
  <2> QED BY <2>4, <2>5
<1> QED BY <1>1, <1>2, <1>3, <1>4, <1>5, <1>6 DEF Boot

\* So does the heartbeat loop.
LEMMA LoopSound ==
    ASSUME RegistryInv, NEW h \in Servers, UNCHANGED clock, Loop(h)
    PROVE  Stored' /\ Held'
<1> USE ThreadNames, RestingLabels
<1>c. clock \in Nat /\ clock <= clock BY DEF RegistryInv
<1>r. Rest(h, "idle") \in SoundThreads(clock) BY <1>c, RestSound
<1>a. Beat(h) \in Threads OBVIOUS
<1>1. ASSUME HeartbeatRunner(h) PROVE Stored' /\ Held'
  <2>1. record[h] \in SoundRecords(clock)
    BY <1>1 DEF HeartbeatRunner, RegistryInv, Stored
  <2>2. [Rest(h, "write") EXCEPT !.at = clock, !.seen = record[h]] \in SoundThreads(clock)
    BY <1>c, <2>1, ReadSound
  <2> QED BY <1>1, <1>a, <2>2, ThreadStep DEF HeartbeatRunner
<1>2. ASSUME HeartbeatRetry(h) PROVE Stored' /\ Held'
  <2>1. Held' BY <1>2, <1>a, <1>r, RereadSound DEF HeartbeatRetry
  <2>2. Stored' BY <1>2 DEF HeartbeatRetry, RegistryInv, Stored, SoundRecords, Writable
  <2> QED BY <2>1, <2>2
<1>3. ASSUME HeartbeatWrite(h) PROVE Stored' /\ Held'
  <2>1. Heartbeat(thread[Beat(h)]) \in Writable(clock)
    BY <1>a, <1>c, ThreadFacts, WrittenSound
  <2> QED BY <1>3, <1>a, <1>r, <2>1, UpdateSound DEF HeartbeatWrite
<1> QED BY <1>1, <1>2, <1>3 DEF Loop

\* So do sweeps and activity records.
LEMMA DrainSound ==
    ASSUME RegistryInv, NEW h \in Servers, UNCHANGED clock, DrainPass(h)
    PROVE  Stored' /\ Held'
<1> USE ThreadNames, RestingLabels
<1> DEFINE a == DrainOf(h)
<1>c. clock \in Nat /\ clock <= clock BY DEF RegistryInv
<1>r. Rest(h, "idle") \in SoundThreads(clock) BY <1>c, RestSound
<1>a. a \in Threads OBVIOUS
<1>f. /\ thread[a] \in SoundThreads(clock)
      /\ thread[a].at \in Nat /\ thread[a].at <= clock
      /\ thread[a].todo \in SUBSET Servers
  BY <1>a, ThreadFacts
<1>1. ASSUME ExpireRunners(h) PROVE Stored' /\ Held'
  <2> DEFINE expired == {r \in Servers : Active(record[r]) /\ record[r].expiresAt <= clock}
  <2>1. Become(a, [Rest(h, "mark") EXCEPT !.at = clock, !.todo = expired])
    BY <1>1 DEF ExpireRunners
  <2>2. expired \in SUBSET Servers OBVIOUS
  <2> HIDE DEF expired
  <2>3. [Rest(h, "mark") EXCEPT !.at = clock, !.todo = expired] \in SoundThreads(clock)
    BY <1>c, <2>2, RestSound
  <2> QED BY <1>1, <1>a, <2>1, <2>3, ThreadStep DEF ExpireRunners
<1>2. ASSUME MarkRead(h) PROVE Stored' /\ Held'
  <2>1. PICK r \in thread[a].todo :
          Become(a, IF record[r] = Missing THEN Rest(h, "idle")
                    ELSE [thread[a] EXCEPT !.pc = "markWrite", !.target = r,
                                           !.seen = record[r]])
    BY <1>2 DEF MarkRead
  <2>2. CASE record[r] = Missing
    BY <1>2, <1>a, <1>r, <2>1, <2>2, ThreadStep DEF MarkRead
  <2>3. CASE record[r] # Missing
    <3>1. record[r] \in SoundRecords(clock) /\ r \in Servers
      BY <1>f, <2>3 DEF RegistryInv, Stored
    <3>2. record[r] \in RunnerRecords BY <3>1 DEF SoundRecords, Writable
    <3>3. thread[a] \in ThreadStates BY <1>f DEF SoundThreads
    <3>4. [thread[a] EXCEPT !.pc = "markWrite", !.target = r, !.seen = record[r]]
            \in SoundThreads(clock)
      BY <1>f, <2>3, <3>1, <3>2, <3>3 DEF SoundThreads, ThreadStates, Pcs
    <3> QED BY <1>2, <1>a, <2>1, <2>3, <3>4, ThreadStep DEF MarkRead
  <2> QED BY <2>2, <2>3
<1>3. ASSUME MarkWrite(h) PROVE Stored' /\ Held'
  <2> DEFINE left == thread[a].todo \ {thread[a].target}
             ok == IF left = {} THEN Rest(h, "idle")
                   ELSE [Rest(h, "mark") EXCEPT !.at = thread[a].at, !.todo = left]
  <2>1. Write(a, Stale(thread[a]), ok, Rest(h, "idle")) BY <1>3 DEF MarkWrite
  <2>2. left \in SUBSET Servers BY <1>f
  <2>3. ok \in SoundThreads(clock)
    <3> HIDE DEF left
    <3>1. [Rest(h, "mark") EXCEPT !.at = thread[a].at, !.todo = left] \in SoundThreads(clock)
      BY <1>c, <1>f, <2>2, RestSound
    <3> QED BY <1>r, <3>1
  <2>4. Stale(thread[a]) \in Writable(clock)
    <3>1. thread[a].seen # Missing BY <1>3, <1>a, ThreadFacts DEF MarkWrite, At
    <3> QED BY <1>c, <1>f, <3>1, WrittenSound
  <2> HIDE DEF ok
  <2> QED BY <1>a, <1>r, <2>1, <2>3, <2>4, WriteSound
<1>4. ASSUME RecordActivity(h) PROVE Stored' /\ Held'
  <2>1. record[h] \in SoundRecords(clock)
    BY <1>4 DEF RecordActivity, RegistryInv, Stored
  <2>2. [Rest(h, "write") EXCEPT !.seen = record[h]] \in SoundThreads(clock)
    BY <1>c, <2>1, ReadSound
  <2> QED BY <1>4, <1>a, <2>2, ThreadStep DEF RecordActivity
<1>5. ASSUME ActivityRetry(h) PROVE Stored' /\ Held'
  <2>1. Held' BY <1>5, <1>a, <1>r, RereadSound DEF ActivityRetry
  <2>2. Stored' BY <1>5 DEF ActivityRetry, RegistryInv, Stored, SoundRecords, Writable
  <2> QED BY <2>1, <2>2
<1>6. ASSUME ActivityWrite(h) PROVE Stored' /\ Held'
  <2>1. thread[a].seen \in Writable(clock)
    BY <1>6, <1>a, ThreadFacts DEF ActivityWrite, At, SoundRecords
  <2> QED BY <1>6, <1>a, <1>r, <2>1, UpdateSound DEF ActivityWrite
<1> QED BY <1>1, <1>2, <1>3, <1>4, <1>5, <1>6 DEF DrainPass

\* So do shutdown and crash.
LEMMA CloseSound ==
    ASSUME RegistryInv, NEW h \in Servers, UNCHANGED clock,
           CloseServer(h) \/ Close(h) \/ CrashServer(h)
    PROVE  Stored' /\ Held'
<1> USE ThreadNames, RestingLabels
<1> DEFINE a == Main(h)
<1>c. clock \in Nat /\ clock <= clock BY DEF RegistryInv
<1>r. ASSUME NEW l \in Resting PROVE Rest(h, l) \in SoundThreads(clock)
  BY <1>c, RestSound
<1>a. a \in Threads OBVIOUS
<1>f. thread[a] \in SoundThreads(clock) BY <1>a, ThreadFacts
<1>g. ASSUME NEW l \in Resting PROVE [thread[a] EXCEPT !.pc = l] \in SoundThreads(clock)
  <2>1. l \in MainPcs \cup LoopPcs /\ l \notin {"write", "markWrite", "closeWrite"}
    BY DEF Resting, Pcs
  <2> QED BY <1>f, <2>1 DEF SoundThreads, ThreadStates
<1>1. ASSUME CloseServer(h) PROVE Stored' /\ Held'
  <2>1. [thread[a] EXCEPT !.pc = "closing"] \in SoundThreads(clock) BY <1>g
  <2> QED BY <1>1, <1>a, <2>1, ThreadStep DEF CloseServer, Goto
<1>2. ASSUME CloseRead(h) PROVE Stored' /\ Held'
  <2>1. CASE record[h] = Missing
    BY <1>2, <1>a, <1>r, <2>1, ThreadStep DEF CloseRead
  <2>2. CASE record[h] # Missing
    <3>1. record[h] \in SoundRecords(clock) BY <2>2 DEF RegistryInv, Stored
    <3>2. [Rest(h, "closeWrite") EXCEPT !.at = clock, !.seen = record[h]]
            \in SoundThreads(clock)
      BY <1>c, <3>1, ReadSound
    <3> QED BY <1>2, <1>a, <2>2, <3>2, ThreadStep DEF CloseRead
  <2> QED BY <2>1, <2>2
<1>3. ASSUME CloseWrite(h) PROVE Stored' /\ Held'
  <2>1. thread[a].seen # Missing BY <1>3, <1>a, ThreadFacts DEF CloseWrite, At
  <2>2. Stale(thread[a]) \in Writable(clock) BY <1>c, <1>f, <2>1, WrittenSound
  <2> QED BY <1>3, <1>a, <1>r, <2>2, WriteSound DEF CloseWrite
<1>4. ASSUME ExitServer(h) PROVE Stored' /\ Held'
  <2>1. [thread[a] EXCEPT !.pc = "down"] \in SoundThreads(clock) BY <1>g
  <2> QED BY <1>4, <1>a, <2>1, ThreadStep DEF ExitServer, Goto
<1>5. ASSUME CrashServer(h) PROVE Stored' /\ Held'
  <2>1. Rest(h, "down") \in SoundThreads(clock) /\ Rest(h, "idle") \in SoundThreads(clock)
    BY <1>r
  <2>2. \A b \in Threads : thread'[b] \in SoundThreads(clock)
    BY <1>5, <2>1 DEF CrashServer, RegistryInv, Held
  <2>3. thread' \in [Threads -> SoundThreads(clock)]
    BY <1>5, <2>2 DEF CrashServer
  <2>4. Held' BY <2>3 DEF Held, SoundThreads, SoundRecords, Writable
  <2>5. Stored' BY <1>5 DEF CrashServer, RegistryInv, Stored, SoundRecords, Writable
  <2> QED BY <2>4, <2>5
<1> QED BY <1>1, <1>2, <1>3, <1>4, <1>5 DEF Close

\* What is sound stays sound as time passes.
LEMMA SoundnessIsMonotone ==
    ASSUME NEW n \in Nat
    PROVE  /\ SoundRecords(n) \subseteq SoundRecords(n + 1)
           /\ SoundThreads(n) \subseteq SoundThreads(n + 1)
<1>1. SoundRecords(n) \subseteq SoundRecords(n + 1)
  BY DEF SoundRecords, Writable, RunnerRecords
<1>2. ASSUME NEW t \in SoundThreads(n) PROVE t \in SoundThreads(n + 1)
  <2>1. t \in ThreadStates /\ t.at \in Nat BY DEF SoundThreads, ThreadStates
  <2>2. t.at <= n + 1 BY <2>1 DEF SoundThreads
  <2> QED BY <1>1, <2>1, <2>2 DEF SoundThreads
<1> QED BY <1>1, <1>2

--------------------------------------------------------------------------------
\* The registry starts empty and with all threads at rest.
LEMMA RegistryInit == Init => RegistryInv
<1> SUFFICES ASSUME Init PROVE RegistryInv OBVIOUS
<1>1. clock \in Nat /\ clock = 0 /\ 0 <= clock BY DEF Init
<1>2. ASSUME NEW a \in Threads PROVE thread[a] \in SoundThreads(clock)
  <2>1. a[1] \in Servers BY DEF Threads
  <2>2. /\ Rest(a[1], "down") \in SoundThreads(clock)
        /\ Rest(a[1], "idle") \in SoundThreads(clock)
    BY <1>1, <2>1, RestSound, RestingLabels
  <2> QED BY <2>2 DEF Init
<1>3. Held BY <1>2 DEF Init, Held
<1> QED BY <1>1, <1>3 DEF Init, RegistryInv, Stored

\* Every step keeps the invariant.
LEMMA RegistryStep == RegistryInv /\ [Next]_vars => RegistryInv'
<1> SUFFICES ASSUME RegistryInv, [Next]_vars PROVE RegistryInv' OBVIOUS
<1>t. clock \in Nat /\ used \in [starts : Nat, beats : Nat, activity : Nat]
  BY DEF RegistryInv
<1>1. ASSUME Tick PROVE RegistryInv'
  <2>1. clock' = clock + 1 /\ clock' \in Nat BY <1>1, <1>t DEF Tick
  <2>2. Stored' BY <1>1, <1>t, <2>1, SoundnessIsMonotone DEF Tick, RegistryInv, Stored
  <2>3. Held' BY <1>1, <1>t, <2>1, SoundnessIsMonotone DEF Tick, RegistryInv, Held
  <2> QED BY <1>1, <1>t, <2>1, <2>2, <2>3 DEF Tick, RegistryInv
<1>2. ASSUME UNCHANGED vars PROVE RegistryInv'
  BY <1>2 DEF vars, RegistryInv, Stored, Held
<1>3. ASSUME NEW h \in Servers,
             StartServer(h) \/ Boot(h) \/ Loop(h) \/ DrainPass(h)
               \/ CloseServer(h) \/ Close(h) \/ CrashServer(h)
      PROVE  RegistryInv'
  <2>1. UNCHANGED clock
    BY <1>3 DEF StartServer, Boot, Loop, DrainPass, CloseServer, Close, CrashServer,
                RegisterRunner, RenewRead, RenewWrite, ListSurplus, DeleteRunner,
                HeartbeatRunner, HeartbeatRetry, HeartbeatWrite, ExpireRunners, MarkRead,
                MarkWrite, RecordActivity, ActivityRetry, ActivityWrite, CloseRead,
                CloseWrite, ExitServer
  <2>2. used' \in [starts : Nat, beats : Nat, activity : Nat]
    <3>1. CASE StartServer(h)
      <4>1. used' = [used EXCEPT !.starts = @ + 1] BY <3>1 DEF StartServer
      <4> QED BY <1>t, <4>1
    <3>2. CASE HeartbeatRunner(h)
      <4>1. used' = [used EXCEPT !.beats = @ + 1] BY <3>2 DEF HeartbeatRunner
      <4> QED BY <1>t, <4>1
    <3>3. CASE RecordActivity(h)
      <4>1. used' = [used EXCEPT !.activity = @ + 1] BY <3>3 DEF RecordActivity
      <4> QED BY <1>t, <4>1
    <3>4. CASE \/ Boot(h) \/ HeartbeatRetry(h) \/ HeartbeatWrite(h)
      <4>1. used' = used
        BY <3>4 DEF Boot, RegisterRunner, RenewRead, RenewWrite, ListSurplus, DeleteRunner,
                    HeartbeatRetry, HeartbeatWrite
      <4> QED BY <1>t, <4>1
    <3>5. CASE \/ ExpireRunners(h) \/ MarkRead(h) \/ MarkWrite(h)
               \/ ActivityRetry(h) \/ ActivityWrite(h)
      <4>1. used' = used
        BY <3>5 DEF ExpireRunners, MarkRead, MarkWrite, ActivityRetry, ActivityWrite
      <4> QED BY <1>t, <4>1
    <3>6. CASE CloseServer(h) \/ Close(h) \/ CrashServer(h)
      <4>1. used' = used
        BY <3>6 DEF CloseServer, Close, CrashServer, CloseRead, CloseWrite, ExitServer
      <4> QED BY <1>t, <4>1
    <3> QED BY <1>3, <3>1, <3>2, <3>3, <3>4, <3>5, <3>6 DEF Loop, DrainPass
  <2>3. Stored' /\ Held'
    <3>1. CASE StartServer(h) \/ Boot(h) BY <2>1, <3>1, BootSound
    <3>2. CASE Loop(h) BY <2>1, <3>2, LoopSound
    <3>3. CASE DrainPass(h) BY <2>1, <3>3, DrainSound
    <3>4. CASE CloseServer(h) \/ Close(h) \/ CrashServer(h) BY <2>1, <3>4, CloseSound
    <3> QED BY <1>3, <3>1, <3>2, <3>3, <3>4
  <2>4. overrun' \in BOOLEAN
    <3>1. overrun \in BOOLEAN BY DEF RegistryInv
    <3>2. ASSUME NEW a, NEW rec, NEW ok, NEW bad, Write(a, rec, ok, bad)
          PROVE  overrun' \in BOOLEAN
      BY <3>1, <3>2 DEF Write
    <3>3. ASSUME NEW a, NEW rec, NEW ok, NEW again, NEW bad, Update(a, rec, ok, again, bad)
          PROVE  overrun' \in BOOLEAN
      BY <3>2, <3>3 DEF Update
    <3>4. CASE StartServer(h) \/ Boot(h)
      BY <3>1, <3>2, <3>3, <3>4
         DEF StartServer, Boot, RegisterRunner, RenewRead, RenewWrite, ListSurplus,
             DeleteRunner
    <3>5. CASE Loop(h)
      BY <3>1, <3>3, <3>5 DEF Loop, HeartbeatRunner, HeartbeatRetry, HeartbeatWrite
    <3>6. CASE DrainPass(h)
      BY <3>1, <3>2, <3>3, <3>6
         DEF DrainPass, ExpireRunners, MarkRead, MarkWrite, RecordActivity, ActivityRetry,
             ActivityWrite
    <3>7. CASE CloseServer(h) \/ Close(h) \/ CrashServer(h)
      BY <3>1, <3>2, <3>7 DEF CloseServer, Close, CloseRead, CloseWrite, ExitServer, CrashServer
    <3> QED BY <1>3, <3>4, <3>5, <3>6, <3>7
  <2>5. clock' \in Nat BY <1>t, <2>1
  <2> QED BY <2>2, <2>3, <2>4, <2>5 DEF RegistryInv
<1> QED BY <1>1, <1>2, <1>3 DEF Next

\* The sharper types are types, and say what StaleMeansExpired says.
LEMMA RegistryInvGives == RegistryInv => TypeOK /\ StaleMeansExpired
<1> SUFFICES ASSUME RegistryInv PROVE TypeOK /\ StaleMeansExpired OBVIOUS
<1>1. record \in [Servers -> RunnerRecords \cup {Missing}]
  BY DEF RegistryInv, Stored, SoundRecords, Writable
<1>2. thread \in [Threads -> ThreadStates] BY DEF RegistryInv, Held, SoundThreads
<1>3. StaleMeansExpired BY DEF RegistryInv, Stored, SoundRecords, Writable, StaleMeansExpired
<1> QED BY <1>1, <1>2, <1>3 DEF RegistryInv, TypeOK

LEMMA RegistryInvHolds == Spec => []RegistryInv
  BY RegistryInit, RegistryStep, PTL DEF Spec

\* The registry keeps its types, for any number of servers, restarts and heartbeats.
THEOREM RegistryTyped == Spec => []TypeOK
  BY RegistryInvHolds, RegistryInvGives, PTL

\* A stale runner is expired under every interleaving of starts, heartbeats, sweeps,
\* activity records, compactions, shutdowns and crashes, also when the revision check
\* and the rename of a write are apart.
THEOREM StaleMeansExpiredHolds == Spec => []StaleMeansExpired
  BY RegistryInvHolds, RegistryInvGives, PTL

--------------------------------------------------------------------------------
(***************************************************************************)
(* Heartbeats are not undone.                                              *)
(*                                                                         *)
(* A heartbeat's own write cannot shorten a life: while it is under way    *)
(* nobody else of its server raises the expiry, and other servers only     *)
(* mark the record stale or delete it.  The hazard is an activity record,  *)
(* which writes back the expiry it has read.  So the invariant is about    *)
(* a drain that holds an active record to write: the revision it has read  *)
(* is not ahead of the stored one, the same revision means the same        *)
(* expiry, and once its check has passed no later heartbeat can land, for  *)
(* the queue of the process keeps the two from being checked together.     *)
(***************************************************************************)
Booting == {"down", "registerWrite", "renew", "renewWrite", "compact", "delete"}

\* runner r's record rec and its server's threads m, b and d, at time now
InOrder(r, rec, m, b, d, now) ==
    LET live == Active(rec)
        held == d.pc = "write" /\ Active(d.seen)
        beating == b.pc \in {"write", "retry"}
    IN
    /\ m.target = r /\ b.target = r
    /\ d.pc \in {"write", "retry"} => d.target = r
    /\ b.checked => b.pc = "write"
    /\ d.checked => d.pc \in {"write", "markWrite"}
    /\ m.checked => m.pc \in {"registerWrite", "renewWrite", "closeWrite"}
    /\ m.pc \in Booting => b.pc = "idle" /\ d.pc = "idle"
    /\ m.pc \in {"closeWrite", "closed"} => d.pc = "idle"
    \* an expiry is at most that of a heartbeat made now, or of the one under way
    /\ live => rec.expiresAt <= now + 1
    /\ held => d.seen.expiresAt <= now + 1
    /\ live /\ m.pc \in {"registerWrite", "renew", "renewWrite"}
         => rec.expiresAt <= m.at + 1
    /\ live /\ beating => rec.expiresAt <= b.at + 1
    /\ held /\ beating => d.seen.expiresAt <= b.at + 1
    \* what a drain holds is not ahead of the record, and is replaced by nothing older
    /\ held /\ rec # Missing => d.seen.revision <= rec.revision
    /\ held /\ live /\ d.seen.revision = rec.revision => d.seen.expiresAt = rec.expiresAt
    /\ held /\ live /\ d.checked => d.seen.expiresAt >= rec.expiresAt
    /\ held /\ b.checked => d.seen.revision <= b.seen.revision
    /\ live /\ b.checked => rec.revision = b.seen.revision

InOrderAt(r) ==
    InOrder(r, record[r], thread[Main(r)], thread[Beat(r)], thread[DrainOf(r)], clock)

KeptAt(r) ==
    Active(record[r]) /\ Active(record'[r]) => record'[r].expiresAt >= record[r].expiresAt

\* The three threads of a server are three, and no thread belongs to two servers.
LEMMA NamesDiffer ==
    ASSUME NEW h \in Servers
    PROVE  /\ Main(h)[1] = h /\ Beat(h)[1] = h /\ DrainOf(h)[1] = h
           /\ Main(h) # Beat(h) /\ Main(h) # DrainOf(h) /\ Beat(h) # DrainOf(h)
           /\ \A a \in Threads : a[1] = h => a \in {Main(h), Beat(h), DrainOf(h)}
  BY DEF Main, Beat, DrainOf, Threads

LEMMA BecomeOne ==
    ASSUME RegistryInv, NEW a \in Threads, NEW t, Become(a, t)
    PROVE  thread'[a] = t /\ \A b \in Threads \ {a} : thread'[b] = thread[b]
  BY DEF RegistryInv, Held, Become

\* what the invariant says of a server's threads and record
LEMMA ServerTypes ==
    ASSUME RegistryInv, NEW r \in Servers
    PROVE  /\ thread[Main(r)] \in ThreadStates /\ thread[Beat(r)] \in ThreadStates
           /\ thread[DrainOf(r)] \in ThreadStates
           /\ clock \in Nat
           /\ record[r] # Missing => record[r] \in RunnerRecords /\ record[r].revision > 0
           /\ \A a \in Threads : thread[a].seen # Missing =>
                 thread[a].seen \in RunnerRecords /\ thread[a].seen.revision > 0
  BY ThreadNames DEF RegistryInv, Held, Stored, SoundThreads, SoundRecords, Writable

\* a stale record in place of the one before, with the next revision
Marked(old, new) ==
    /\ old # Missing /\ new # Missing
    /\ new.status = "stale" /\ new.revision = old.revision + 1

\* Marking or deleting the record of a server whose threads do nothing keeps its order.
LEMMA OrderElsewhere ==
    ASSUME RegistryInv, NEW a \in Threads, NEW t, Become(a, t), clock' = clock,
           NEW r \in Servers, a[1] # r, InOrderAt(r),
           record'[r] \in {record[r], Missing} \/ Marked(record[r], record'[r])
    PROVE  InOrderAt(r)' /\ KeptAt(r)
<1>1. /\ thread'[Main(r)] = thread[Main(r)] /\ thread'[Beat(r)] = thread[Beat(r)]
      /\ thread'[DrainOf(r)] = thread[DrainOf(r)]
  BY NamesDiffer, ThreadNames, BecomeOne
<1>2. InOrderAt(r)' = InOrder(r, record'[r], thread[Main(r)], thread[Beat(r)],
                              thread[DrainOf(r)], clock)
  BY <1>1 DEF InOrderAt, InOrder
<1> USE ServerTypes DEF Active
<1>3. CASE record'[r] = record[r] BY <1>2, <1>3 DEF InOrderAt, KeptAt, RunnerRecords
<1>4. CASE record'[r] = Missing BY <1>2, <1>4 DEF InOrderAt, InOrder, KeptAt
<1>5. CASE Marked(record[r], record'[r])
  <2>1. thread[DrainOf(r)].seen # Missing => thread[DrainOf(r)].seen.revision \in Nat
    BY ThreadNames DEF RunnerRecords
  <2>2. record[r].revision \in Nat BY <1>5 DEF Marked, RunnerRecords
  <2> QED BY <1>2, <1>5, <2>1, <2>2 DEF InOrderAt, InOrder, KeptAt, Marked
<1> QED BY <1>3, <1>4, <1>5

\* what a write may do: land, pass its check, or be refused
Lands(a, rec, ok) ==
    LET r == thread[a].target
        expected == Revision(thread[a].seen)
    IN
    /\ thread[a].checked \/ Revision(record[r]) = expected
    /\ record' = [record EXCEPT ![r] = [rec EXCEPT !.revision = expected + 1]]
    /\ overrun' = (overrun \/ (a[1] # r /\ Revision(record[r]) # expected))
    /\ Become(a, ok)

Checks(a) ==
    /\ Revision(record[thread[a].target]) = Revision(thread[a].seen)
    /\ Become(a, [thread[a] EXCEPT !.checked = TRUE])
    /\ UNCHANGED <<record, overrun>>

Refuses(a, bad) == Become(a, bad) /\ UNCHANGED <<record, overrun>>

LEMMA WriteCases ==
    ASSUME NEW a, NEW rec, NEW ok, NEW bad, Write(a, rec, ok, bad)
    PROVE  ~Queued(a) /\ (Lands(a, rec, ok) \/ Checks(a) \/ Refuses(a, bad))
  BY DEF Write, Lands, Checks, Refuses

\* Refused updates are retried or given up.
LEMMA UpdateCases ==
    ASSUME RegistryInv, NEW a \in Threads, NEW rec, NEW ok, NEW again, NEW failed,
           Update(a, rec, ok, again, failed)
    PROVE  /\ ~Queued(a)
           /\ \/ Lands(a, rec, ok) \/ Checks(a) \/ Refuses(a, failed)
              \/ Refuses(a, [thread[a] EXCEPT !.pc = again, !.tries = @ + 1,
                                              !.checked = FALSE, !.seen = Missing])
<1>1. CASE thread[a].tries + 1 < MaxAttempts BY <1>1, WriteCases DEF Update
<1>2. CASE ~(thread[a].tries + 1 < MaxAttempts) BY <1>2, WriteCases DEF Update
<1> QED BY <1>1, <1>2

\* Two threads of one server are not both past the check of a write to one runner.
LEMMA QueueAlone ==
    ASSUME RegistryInv, NEW a \in Threads, ~Queued(a), NEW b \in Threads \ {a}, b[1] = a[1]
    PROVE  ~(thread[b].checked /\ thread[b].target = thread[a].target)
  BY DEF Queued

--------------------------------------------------------------------------------
\* A server that starts: its other threads are idle.
LEMMA BootOrder ==
    ASSUME RegistryInv, NEW h \in Servers, clock' = clock, InOrderAt(h),
           StartServer(h) \/ Boot(h)
    PROVE  InOrderAt(h)' /\ KeptAt(h)
<1> DEFINE m == thread[Main(h)]
           b == thread[Beat(h)]
           d == thread[DrainOf(h)]
<1> USE DEF Active
<1>1. /\ Main(h) \in Threads /\ Main(h) # Beat(h) /\ Main(h) # DrainOf(h)
      /\ Beat(h) \in Threads /\ DrainOf(h) \in Threads
  BY ThreadNames, NamesDiffer
<1>2. m \in ThreadStates /\ b \in ThreadStates /\ d \in ThreadStates /\ clock \in Nat
  BY ServerTypes
<1>3. record[h] # Missing => record[h] \in RunnerRecords BY ServerTypes
<1>4. m.pc \in Booting /\ b.pc = "idle" /\ d.pc = "idle" /\ m.target = h /\ b.target = h
      /\ ~b.checked /\ ~d.checked
  BY DEF StartServer, Boot, RegisterRunner, RenewRead, RenewWrite, ListSurplus,
         DeleteRunner, At, Booting, InOrderAt, InOrder
<1>5. ASSUME NEW t, Become(Main(h), t), t.target = h,
             t.checked => t.pc \in {"registerWrite", "renewWrite"},
             t.pc \in Booting \cup {"serving"},
             Active(record'[h]) => /\ record'[h].expiresAt <= clock + 1
                                   /\ t.pc \in {"registerWrite", "renew", "renewWrite"}
                                        => record'[h].expiresAt <= t.at + 1
      PROVE  InOrderAt(h)'
  <2>1. thread'[Main(h)] = t /\ thread'[Beat(h)] = b /\ thread'[DrainOf(h)] = d
    BY <1>1, <1>5, BecomeOne
  <2> QED BY <1>4, <1>5, <2>1 DEF InOrderAt, InOrder, Booting
<1>6. Active(record[h]) =>
        /\ record[h].expiresAt <= clock + 1
        /\ m.pc \in {"registerWrite", "renew", "renewWrite"}
             => record[h].expiresAt <= m.at + 1
  BY DEF InOrderAt, InOrder
<1>7. ASSUME NEW t, Become(Main(h), t), t.target = h,
             t.checked => t.pc \in {"registerWrite", "renewWrite"},
             t.pc \in Booting \cup {"serving"},
             t.pc \in {"registerWrite", "renew", "renewWrite"}
               => \/ t.at = clock
                  \/ t.at = m.at /\ m.pc \in {"registerWrite", "renew", "renewWrite"},
             record'[h] \in {record[h], Missing}
      PROVE  InOrderAt(h)' /\ KeptAt(h)
  <2>1. Active(record'[h]) => record'[h] = record[h] BY <1>7
  <2>2. Active(record'[h]) => /\ record'[h].expiresAt <= clock + 1
                              /\ t.pc \in {"registerWrite", "renew", "renewWrite"}
                                   => record'[h].expiresAt <= t.at + 1
    BY <1>6, <1>7, <2>1
  <2>3. KeptAt(h) BY <1>3, <1>7 DEF KeptAt, RunnerRecords
  <2> QED BY <1>5, <1>7, <2>2, <2>3
<1>8. \A l \in Booting \cup {"serving"} :
         /\ Rest(h, l).pc = l /\ Rest(h, l).target = h /\ ~Rest(h, l).checked
  BY DEF Rest
<1>9. CASE StartServer(h)
  <2> DEFINE t(l) == [Rest(h, l) EXCEPT !.at = clock]
  <2>1. PICK l \in {"registerWrite", "renew"} : Become(Main(h), t(l))
    BY <1>9 DEF StartServer
  <2>2. t(l).pc = l /\ t(l).target = h /\ ~t(l).checked /\ t(l).at = clock BY DEF Rest
  <2>3. record'[h] \in {record[h], Missing} BY <1>9 DEF StartServer
  <2> HIDE DEF t
  <2> QED BY <1>7, <2>1, <2>2, <2>3 DEF Booting
\* a heartbeat under way lands, passes its check or is refused
<1>10. ASSUME NEW again \in {"renew"}, m.pc \in {"registerWrite", "renewWrite"},
              \/ Lands(Main(h), Heartbeat(m), Rest(h, "compact")) \/ Checks(Main(h))
              \/ Refuses(Main(h), Rest(h, "down"))
              \/ Refuses(Main(h), [m EXCEPT !.pc = again, !.tries = @ + 1,
                                            !.checked = FALSE, !.seen = Missing])
       PROVE  InOrderAt(h)' /\ KeptAt(h)
  <2>1. {"compact", "down", "renew"} \subseteq Booting BY DEF Booting
  <2>2. CASE Lands(Main(h), Heartbeat(m), Rest(h, "compact"))
    <3>1. record'[h] = [Heartbeat(m) EXCEPT !.revision = Revision(m.seen) + 1]
      BY <1>4, <2>2 DEF Lands, RegistryInv, Stored
    <3>2. record'[h].expiresAt = m.at + 1 BY <3>1 DEF Heartbeat
    <3>3. m.at \in Nat /\ m.at <= clock BY <1>1, ThreadFacts
    <3>4. KeptAt(h) BY <1>6, <1>10, <3>2 DEF KeptAt
    <3> DEFINE t == Rest(h, "compact")
    <3>5. Become(Main(h), t) BY <2>2 DEF Lands
    <3>6. t.pc = "compact" /\ t.target = h /\ ~t.checked BY DEF Rest
    <3> HIDE DEF t
    <3>7. record'[h].expiresAt <= clock + 1 BY <1>2, <3>2, <3>3
    <3>8. t.pc \in Booting \cup {"serving"} BY <3>6, <2>1
    <3> QED BY <1>5, <3>4, <3>5, <3>6, <3>7, <3>8
  <2>3. CASE Checks(Main(h))
    <3> DEFINE t == [m EXCEPT !.checked = TRUE]
    <3>1. t.pc = m.pc /\ t.target = h /\ t.at = m.at BY <1>2, <1>4 DEF ThreadStates
    <3>2. Become(Main(h), t) /\ record' = record BY <2>3 DEF Checks
    <3> HIDE DEF t
    <3> QED BY <1>4, <1>7, <1>10, <3>1, <3>2
  <2>4. CASE Refuses(Main(h), Rest(h, "down"))
    BY <1>7, <1>8, <2>1, <2>4 DEF Refuses
  <2>5. CASE Refuses(Main(h), [m EXCEPT !.pc = again, !.tries = @ + 1, !.checked = FALSE,
                                        !.seen = Missing])
    <3> DEFINE t == [m EXCEPT !.pc = again, !.tries = @ + 1, !.checked = FALSE,
                              !.seen = Missing]
    <3>1. t.pc = "renew" /\ t.target = h /\ t.at = m.at /\ ~t.checked
      BY <1>2, <1>4 DEF ThreadStates
    <3>2. Become(Main(h), t) /\ record' = record BY <2>5 DEF Refuses
    <3> HIDE DEF t
    <3> QED BY <1>7, <1>10, <2>1, <3>1, <3>2
  <2> QED BY <1>10, <2>2, <2>3, <2>4, <2>5
<1>11. CASE RegisterRunner(h)
  BY <1>10, <1>11, WriteCases DEF RegisterRunner, At
<1>12. CASE RenewRead(h)
  <2> DEFINE t == [m EXCEPT !.pc = "renewWrite", !.seen = record[h]]
  <2>1. CASE Become(Main(h), Rest(h, "down"))
    BY <1>7, <1>8, <1>12, <2>1 DEF RenewRead, Booting
  <2>2. CASE Become(Main(h), t)
    <3>1. t.pc = "renewWrite" /\ t.target = h /\ t.at = m.at /\ t.checked = m.checked
      BY <1>2, <1>4 DEF ThreadStates
    <3>2. m.pc = "renew" /\ record' = record BY <1>12 DEF RenewRead, At
    <3> HIDE DEF t
    <3> QED BY <1>7, <2>2, <3>1, <3>2 DEF Booting
  <2> QED BY <1>4, <1>12, <2>1, <2>2 DEF RenewRead, Reread
<1>13. CASE RenewWrite(h)
  BY <1>1, <1>10, <1>13, UpdateCases DEF RenewWrite, At
<1>14. CASE ListSurplus(h)
  <2>1. PICK old :
          Become(Main(h), IF old = {} THEN Rest(h, "serving")
                          ELSE [Rest(h, "delete") EXCEPT !.todo = old])
    BY <1>14 DEF ListSurplus
  <2> DEFINE t == IF old = {} THEN Rest(h, "serving")
                  ELSE [Rest(h, "delete") EXCEPT !.todo = old]
  <2>2. t.pc \in {"serving", "delete"} /\ t.target = h /\ ~t.checked BY DEF Rest
  <2>3. Become(Main(h), t) /\ record' = record BY <1>14, <2>1 DEF ListSurplus
  <2> HIDE DEF t
  <2> QED BY <1>7, <2>2, <2>3 DEF Booting
<1>15. CASE DeleteRunner(h)
  <2>1. PICK r \in m.todo :
          /\ record' = [record EXCEPT ![r] = Missing]
          /\ Become(Main(h), IF m.todo \ {r} = {} THEN Rest(h, "serving")
                             ELSE [Rest(h, "delete") EXCEPT !.todo = m.todo \ {r}])
    BY <1>15 DEF DeleteRunner
  <2> DEFINE t == IF m.todo \ {r} = {} THEN Rest(h, "serving")
                  ELSE [Rest(h, "delete") EXCEPT !.todo = m.todo \ {r}]
  <2>2. t.pc \in {"serving", "delete"} /\ t.target = h /\ ~t.checked BY DEF Rest
  <2>3. record'[h] \in {record[h], Missing} BY <2>1 DEF RegistryInv, Stored
  <2>4. Become(Main(h), t) BY <2>1
  <2> HIDE DEF t
  <2> QED BY <1>7, <2>2, <2>3, <2>4 DEF Booting
<1> QED BY <1>9, <1>11, <1>12, <1>13, <1>14, <1>15 DEF Boot

\* The heartbeat loop: a heartbeat lands over a record that it renews.
LEMMA LoopOrder ==
    ASSUME RegistryInv, NEW h \in Servers, clock' = clock, InOrderAt(h), Loop(h)
    PROVE  InOrderAt(h)' /\ KeptAt(h)
<1> DEFINE m == thread[Main(h)]
           b == thread[Beat(h)]
           d == thread[DrainOf(h)]
<1> USE DEF Active
<1>1. /\ Beat(h) \in Threads /\ Main(h) # Beat(h) /\ Beat(h) # DrainOf(h)
      /\ Main(h) \in Threads /\ DrainOf(h) \in Threads
      /\ DrainOf(h)[1] = Beat(h)[1]
  BY ThreadNames, NamesDiffer
<1>2. m \in ThreadStates /\ b \in ThreadStates /\ d \in ThreadStates /\ clock \in Nat
  BY ServerTypes
<1>3. /\ record[h] # Missing => record[h] \in RunnerRecords /\ record[h].revision > 0
      /\ b.seen # Missing => b.seen \in RunnerRecords /\ b.seen.revision > 0
      /\ d.seen # Missing => d.seen \in RunnerRecords /\ d.seen.revision > 0
  BY <1>1, ServerTypes
<1>4. InOrder(h, record[h], m, b, d, clock) BY DEF InOrderAt
<1>5. m.pc \notin Booting
  BY <1>4 DEF Loop, HeartbeatRunner, HeartbeatRetry, HeartbeatWrite, Serving, At,
              InOrder, Booting
<1>6. ASSUME NEW t, Become(Beat(h), t), InOrder(h, record'[h], m, t, d, clock)
      PROVE  InOrderAt(h)'
  <2>1. thread'[Main(h)] = m /\ thread'[Beat(h)] = t /\ thread'[DrainOf(h)] = d
    BY <1>1, <1>6, BecomeOne
  <2> QED BY <1>6, <2>1 DEF InOrderAt, InOrder
\* no step but a landing write changes the record
<1>7. ASSUME record' = record PROVE KeptAt(h) BY <1>3, <1>7 DEF KeptAt, RunnerRecords
<1>8. Rest(h, "idle").pc = "idle" /\ Rest(h, "idle").target = h /\ ~Rest(h, "idle").checked
  BY DEF Rest
<1>9. ASSUME NEW t, t.pc = "idle", t.target = h, ~t.checked
      PROVE  InOrder(h, record[h], m, t, d, clock)
  BY <1>4, <1>5, <1>9 DEF InOrder
<1>10. ASSUME NEW t, t.pc \in {"write", "retry"}, t.target = h, ~t.checked,
              t.at = clock \/ (t.at = b.at /\ b.pc \in {"write", "retry"})
       PROVE  InOrder(h, record[h], m, t, d, clock)
  BY <1>4, <1>5, <1>10 DEF InOrder
<1>11. CASE HeartbeatRunner(h)
  <2> DEFINE t == [Rest(h, "write") EXCEPT !.at = clock, !.seen = record[h]]
  <2>1. t.pc = "write" /\ t.target = h /\ ~t.checked /\ t.at = clock BY DEF Rest
  <2>2. Become(Beat(h), t) /\ record' = record BY <1>11 DEF HeartbeatRunner
  <2> HIDE DEF t
  <2> QED BY <1>6, <1>7, <1>10, <2>1, <2>2
<1>12. CASE HeartbeatRetry(h)
  <2> DEFINE t == [b EXCEPT !.pc = "write", !.seen = record[b.target]]
  <2>1. b.pc = "retry" /\ record' = record BY <1>12 DEF HeartbeatRetry, At
  <2>2. CASE Become(Beat(h), Rest(h, "idle")) BY <1>6, <1>7, <1>8, <1>9, <2>1, <2>2
  <2>3. CASE Become(Beat(h), t)
    <3>1. t.pc = "write" /\ t.target = h /\ ~t.checked /\ t.at = b.at
      BY <1>2, <1>4, <2>1 DEF ThreadStates, InOrder
    <3> HIDE DEF t
    <3> QED BY <1>6, <1>7, <1>10, <2>1, <2>3, <3>1
  <2> QED BY <1>12, <2>2, <2>3 DEF HeartbeatRetry, Reread
<1>13. CASE HeartbeatWrite(h)
  <2>1. b.pc = "write" BY <1>13 DEF HeartbeatWrite, At
  <2>2. b.target = h /\ b.at \in Nat /\ b.at <= clock /\ b.seen # Missing
    BY <1>1, <1>4, <2>1, ThreadFacts DEF InOrder
  <2> DEFINE again == [b EXCEPT !.pc = "retry", !.tries = @ + 1, !.checked = FALSE,
                                !.seen = Missing]
  <2>3. /\ ~Queued(Beat(h))
        /\ \/ Lands(Beat(h), Heartbeat(b), Rest(h, "idle")) \/ Checks(Beat(h))
           \/ Refuses(Beat(h), Rest(h, "idle")) \/ Refuses(Beat(h), again)
    BY <1>1, <1>13, UpdateCases DEF HeartbeatWrite
  <2>4. CASE Lands(Beat(h), Heartbeat(b), Rest(h, "idle"))
    <3>1. record'[h] = [Heartbeat(b) EXCEPT !.revision = b.seen.revision + 1]
      BY <2>2, <2>4 DEF Lands, RegistryInv, Stored, Revision
    <3>2. /\ record'[h].expiresAt = b.at + 1 /\ record'[h].status = "active"
          /\ record'[h].revision = b.seen.revision + 1
      BY <3>1 DEF Heartbeat
    <3>3. KeptAt(h) BY <1>4, <2>1, <3>2 DEF KeptAt, InOrder
    <3>4. d.pc = "write" => d.target = h /\ ~d.checked
      BY <1>1, <1>4, <2>2, <2>3, QueueAlone DEF InOrder
    <3>5. d.pc = "write" /\ Active(d.seen) => d.seen.revision <= b.seen.revision
      <4>1. CASE b.checked BY <1>4, <4>1 DEF InOrder
      <4>2. CASE ~b.checked
        <5>1. Revision(record[h]) = b.seen.revision
          BY <2>2, <2>4, <4>2 DEF Lands, Revision
        <5>2. record[h] # Missing /\ record[h].revision = b.seen.revision
          BY <1>3, <2>2, <5>1 DEF Revision
        <5> QED BY <1>4, <5>2 DEF InOrder
      <4> QED BY <4>1, <4>2
    <3> DEFINE t == Rest(h, "idle")
    <3> HIDE DEF t
    <3>6. d.pc = "write" /\ Active(d.seen)
            => /\ d.seen.revision <= record'[h].revision
               /\ d.seen.revision # record'[h].revision
      BY <1>3, <2>2, <3>2, <3>5 DEF RunnerRecords
    <3>7. record'[h].expiresAt <= clock + 1 BY <1>2, <2>2, <3>2
    <3>8. t.pc = "idle" /\ t.target = h /\ ~t.checked BY DEF t, Rest
    <3>9. InOrder(h, record'[h], m, t, d, clock)
      BY <1>4, <1>5, <3>4, <3>6, <3>7, <3>8 DEF InOrder, Booting
    <3> QED BY <1>6, <2>4, <3>3, <3>9 DEF Lands, t
  <2>5. CASE Checks(Beat(h))
    <3> DEFINE t == [b EXCEPT !.checked = TRUE]
    <3>1. t.pc = "write" /\ t.target = h /\ t.at = b.at /\ t.seen = b.seen /\ t.checked
      BY <1>2, <2>1, <2>2 DEF ThreadStates
    <3>2. record[h] # Missing /\ record[h].revision = b.seen.revision
      BY <1>3, <2>2, <2>5 DEF Checks, Revision
    <3>3. Become(Beat(h), t) /\ record' = record BY <2>5 DEF Checks
    <3> HIDE DEF t
    <3>4. InOrder(h, record[h], m, t, d, clock) BY <1>4, <2>1, <3>1, <3>2 DEF InOrder, Booting
    <3> QED BY <1>6, <1>7, <3>3, <3>4
  <2>6. CASE Refuses(Beat(h), Rest(h, "idle"))
    BY <1>6, <1>7, <1>8, <1>9, <2>6 DEF Refuses
  <2>7. CASE Refuses(Beat(h), again)
    <3>1. again.pc = "retry" /\ again.target = h /\ ~again.checked /\ again.at = b.at
      BY <1>2, <2>2 DEF ThreadStates
    <3>2. Become(Beat(h), again) /\ record' = record BY <2>7 DEF Refuses
    <3> HIDE DEF again
    <3> QED BY <1>6, <1>7, <1>10, <2>1, <3>1, <3>2
  <2> QED BY <2>3, <2>4, <2>5, <2>6, <2>7
<1> QED BY <1>11, <1>12, <1>13 DEF Loop

\* A drain marks the record, or writes back an expiry no heartbeat has passed.
LEMMA DrainOrder ==
    ASSUME RegistryInv, NEW h \in Servers, clock' = clock, InOrderAt(h), DrainPass(h)
    PROVE  InOrderAt(h)' /\ KeptAt(h)
<1> DEFINE m == thread[Main(h)]
           b == thread[Beat(h)]
           d == thread[DrainOf(h)]
<1> USE DEF Active
<1>1. /\ Beat(h) \in Threads /\ Main(h) # DrainOf(h) /\ Beat(h) # DrainOf(h)
      /\ Main(h) \in Threads /\ DrainOf(h) \in Threads
      /\ DrainOf(h)[1] = Beat(h)[1] /\ DrainOf(h)[1] = Main(h)[1]
  BY ThreadNames, NamesDiffer
<1>2. m \in ThreadStates /\ b \in ThreadStates /\ d \in ThreadStates /\ clock \in Nat
  BY ServerTypes
<1>3. /\ record[h] # Missing => record[h] \in RunnerRecords /\ record[h].revision > 0
      /\ b.seen # Missing => b.seen \in RunnerRecords /\ b.seen.revision > 0
      /\ d.seen # Missing => d.seen \in RunnerRecords /\ d.seen.revision > 0
  <2>1. record[h] # Missing => record[h] \in RunnerRecords /\ record[h].revision > 0
    BY ServerTypes
  <2>2. \A a \in Threads : thread[a].seen # Missing =>
           thread[a].seen \in RunnerRecords /\ thread[a].seen.revision > 0
    BY ServerTypes
  <2> QED BY <1>1, <2>1, <2>2
<1>4. InOrder(h, record[h], m, b, d, clock) BY DEF InOrderAt
<1>5. m.pc \notin Booting /\ m.pc \notin {"closeWrite", "closed"}
  BY <1>4 DEF DrainPass, ExpireRunners, MarkRead, MarkWrite, RecordActivity,
              ActivityRetry, ActivityWrite, Serving, At, InOrder, Booting
<1>6. ASSUME NEW t, Become(DrainOf(h), t), InOrder(h, record'[h], m, b, t, clock)
      PROVE  InOrderAt(h)'
  <2>1. thread'[Main(h)] = m /\ thread'[Beat(h)] = b /\ thread'[DrainOf(h)] = t
    BY <1>1, <1>6, BecomeOne
  <2> QED BY <1>6, <2>1 DEF InOrderAt, InOrder
<1>7. ASSUME record'[h] = record[h] PROVE KeptAt(h) BY <1>3, <1>7 DEF KeptAt, RunnerRecords
<1>8. Rest(h, "idle").pc = "idle" /\ ~Rest(h, "idle").checked
  BY DEF Rest
\* a drain that holds no activity record
<1>9. ASSUME NEW t, t.pc \notin {"write", "retry"}, t.checked => t.pc = "markWrite"
      PROVE  InOrder(h, record[h], m, b, t, clock)
  BY <1>4, <1>5, <1>9 DEF InOrder
<1>10. ASSUME NEW t, t.pc = "retry", t.target = h, ~t.checked
       PROVE  InOrder(h, record[h], m, b, t, clock)
  BY <1>4, <1>5, <1>10 DEF InOrder
\* a drain that has read the record
<1>11. ASSUME NEW t, t.pc = "write", t.target = h, ~t.checked, t.seen = record[h]
       PROVE  InOrder(h, record[h], m, b, t, clock)
  BY <1>3, <1>4, <1>5, <1>11 DEF InOrder, RunnerRecords
<1>12. CASE ExpireRunners(h)
  <2>1. PICK s : Become(DrainOf(h), [Rest(h, "mark") EXCEPT !.at = clock, !.todo = s])
    BY <1>12 DEF ExpireRunners
  <2> DEFINE t == [Rest(h, "mark") EXCEPT !.at = clock, !.todo = s]
  <2>2. t.pc = "mark" /\ ~t.checked BY DEF Rest
  <2>3. record' = record BY <1>12 DEF ExpireRunners
  <2> HIDE DEF t
  <2>4. Become(DrainOf(h), t) BY <2>1 DEF t
  <2> QED BY <1>6, <1>7, <1>9, <2>2, <2>3, <2>4
<1>13. CASE MarkRead(h)
  <2>1. PICK r \in d.todo :
          Become(DrainOf(h), IF record[r] = Missing THEN Rest(h, "idle")
                             ELSE [d EXCEPT !.pc = "markWrite", !.target = r,
                                            !.seen = record[r]])
    BY <1>13 DEF MarkRead
  <2> DEFINE t == [d EXCEPT !.pc = "markWrite", !.target = r, !.seen = record[r]]
  <2>2. d.pc = "mark" /\ record' = record BY <1>13 DEF MarkRead, At
  <2>3. t.pc = "markWrite" BY <1>2 DEF ThreadStates
  <2>4. CASE Become(DrainOf(h), Rest(h, "idle")) BY <1>6, <1>7, <1>8, <1>9, <2>2, <2>4
  <2>5. CASE Become(DrainOf(h), t)
    <3> HIDE DEF t
    <3> QED BY <1>6, <1>7, <1>9, <2>2, <2>3, <2>5
  <2> QED BY <2>1, <2>4, <2>5
<1>14. CASE MarkWrite(h)
  <2> DEFINE left == d.todo \ {d.target}
             ok == IF left = {} THEN Rest(h, "idle")
                   ELSE [Rest(h, "mark") EXCEPT !.at = d.at, !.todo = left]
  <2>1. d.pc = "markWrite" BY <1>14 DEF MarkWrite, At
  <2>2. ok.pc \in {"idle", "mark"} /\ ~ok.checked BY DEF Rest
  <2>3. \/ Lands(DrainOf(h), Stale(d), ok) \/ Checks(DrainOf(h))
        \/ Refuses(DrainOf(h), Rest(h, "idle"))
    BY <1>14, WriteCases DEF MarkWrite
  <2> HIDE DEF ok
  <2>4. CASE Lands(DrainOf(h), Stale(d), ok)
    <3>1. CASE d.target # h
      <4>1. record'[h] = record[h] BY <2>4, <3>1 DEF Lands, RegistryInv, Stored
      <4> QED BY <1>6, <1>7, <1>9, <2>2, <2>4, <4>1 DEF Lands
    <3>2. CASE d.target = h
      <4>1. d.seen \in RunnerRecords BY <1>1, <1>3, <2>1, ThreadFacts
      <4>2. record'[h].status = "stale"
        BY <2>4, <3>2, <4>1 DEF Lands, RegistryInv, Stored, Stale, RunnerRecords
      <4>3. InOrder(h, record'[h], m, b, ok, clock)
        BY <1>4, <1>5, <2>2, <4>2 DEF InOrder
      <4> QED BY <1>6, <2>4, <4>2, <4>3 DEF Lands, KeptAt
    <3> QED BY <3>1, <3>2
  <2>5. CASE Checks(DrainOf(h))
    <3> DEFINE t == [d EXCEPT !.checked = TRUE]
    <3>1. t.pc = "markWrite" BY <1>2, <2>1 DEF ThreadStates
    <3>2. Become(DrainOf(h), t) /\ record' = record BY <2>5 DEF Checks
    <3> HIDE DEF t
    <3> QED BY <1>6, <1>7, <1>9, <3>1, <3>2
  <2>6. CASE Refuses(DrainOf(h), Rest(h, "idle"))
    BY <1>6, <1>7, <1>8, <1>9, <2>6 DEF Refuses
  <2> QED BY <2>3, <2>4, <2>5, <2>6
<1>15. CASE RecordActivity(h)
  <2> DEFINE t == [Rest(h, "write") EXCEPT !.seen = record[h]]
  <2>1. t.pc = "write" /\ t.target = h /\ ~t.checked /\ t.seen = record[h] BY DEF Rest
  <2>2. Become(DrainOf(h), t) /\ record' = record BY <1>15 DEF RecordActivity
  <2> HIDE DEF t
  <2> QED BY <1>6, <1>7, <1>11, <2>1, <2>2
<1>16. CASE ActivityRetry(h)
  <2> DEFINE t == [d EXCEPT !.pc = "write", !.seen = record[d.target]]
  <2>1. d.pc = "retry" /\ record' = record BY <1>16 DEF ActivityRetry, At
  <2>2. CASE Become(DrainOf(h), Rest(h, "idle")) BY <1>6, <1>7, <1>8, <1>9, <2>1, <2>2
  <2>3. CASE Become(DrainOf(h), t)
    <3>1. t.pc = "write" /\ t.target = h /\ ~t.checked /\ t.seen = record[h]
      BY <1>2, <1>4, <2>1 DEF ThreadStates, InOrder
    <3> HIDE DEF t
    <3> QED BY <1>6, <1>7, <1>11, <2>1, <2>3, <3>1
  <2> QED BY <1>16, <2>2, <2>3 DEF ActivityRetry, Reread
<1>17. CASE ActivityWrite(h)
  <2>1. d.pc = "write" BY <1>17 DEF ActivityWrite, At
  <2>2. d.target = h /\ d.seen \in RunnerRecords /\ d.seen # Missing
    BY <1>1, <1>3, <1>4, <2>1, ThreadFacts DEF InOrder
  <2> DEFINE again == [d EXCEPT !.pc = "retry", !.tries = @ + 1, !.checked = FALSE,
                                !.seen = Missing]
  <2>3. /\ ~Queued(DrainOf(h))
        /\ \/ Lands(DrainOf(h), d.seen, Rest(h, "idle")) \/ Checks(DrainOf(h))
           \/ Refuses(DrainOf(h), Rest(h, "idle")) \/ Refuses(DrainOf(h), again)
    BY <1>1, <1>17, UpdateCases DEF ActivityWrite
  <2>4. CASE Lands(DrainOf(h), d.seen, Rest(h, "idle"))
    <3>1. record'[h] = [d.seen EXCEPT !.revision = d.seen.revision + 1]
      BY <2>2, <2>4 DEF Lands, RegistryInv, Stored, Revision
    <3>2. /\ record'[h].expiresAt = d.seen.expiresAt
          /\ record'[h].status = d.seen.status /\ record'[h] # Missing
      BY <2>2, <3>1, MissingAssumption DEF RunnerRecords
    <3>3. ~b.checked
      <4>1. ~(thread[Beat(h)].checked /\ thread[Beat(h)].target = thread[DrainOf(h)].target)
        BY <1>1, <2>3, QueueAlone
      <4>2. b.target = d.target BY <1>4, <2>2 DEF InOrder
      <4> QED BY <4>1, <4>2
    <3>4. Active(record[h]) /\ Active(d.seen) => d.seen.expiresAt >= record[h].expiresAt
      <4>1. CASE d.checked BY <1>4, <2>1, <4>1 DEF InOrder
      <4>2. CASE ~d.checked
        <5>1. record[h] # Missing => record[h].revision = d.seen.revision
          BY <2>2, <2>4, <4>2 DEF Lands, Revision
        <5> QED BY <1>4, <2>1, <2>2, <5>1 DEF InOrder, RunnerRecords
      <4> QED BY <4>1, <4>2
    <3>5. KeptAt(h) BY <2>2, <3>2, <3>4 DEF KeptAt
    <3>6. InOrder(h, record'[h], m, b, Rest(h, "idle"), clock)
      BY <1>4, <1>5, <1>8, <2>1, <2>2, <3>2, <3>3 DEF InOrder, Booting
    <3> QED BY <1>6, <2>4, <3>5, <3>6 DEF Lands
  <2>5. CASE Checks(DrainOf(h))
    <3> DEFINE t == [d EXCEPT !.checked = TRUE]
    <3>1. t.pc = "write" /\ t.target = h /\ t.seen = d.seen /\ t.checked
      BY <1>2, <2>1, <2>2 DEF ThreadStates
    <3>2. record[h] # Missing => record[h].revision = d.seen.revision
      BY <2>2, <2>5 DEF Checks, Revision
    <3>3. Become(DrainOf(h), t) /\ record' = record BY <2>5 DEF Checks
    <3> HIDE DEF t
    <3>4. InOrder(h, record[h], m, b, t, clock)
      BY <1>4, <1>5, <2>1, <2>2, <3>1, <3>2 DEF InOrder, Booting, RunnerRecords
    <3> QED BY <1>6, <1>7, <3>3, <3>4
  <2>6. CASE Refuses(DrainOf(h), Rest(h, "idle"))
    BY <1>6, <1>7, <1>8, <1>9, <2>6 DEF Refuses
  <2>7. CASE Refuses(DrainOf(h), again)
    <3>1. again.pc = "retry" /\ again.target = h /\ ~again.checked
      BY <1>2, <2>2 DEF ThreadStates
    <3>2. Become(DrainOf(h), again) /\ record' = record BY <2>7 DEF Refuses
    <3> HIDE DEF again
    <3> QED BY <1>6, <1>7, <1>10, <3>1, <3>2
  <2> QED BY <2>3, <2>4, <2>5, <2>6, <2>7
<1> QED BY <1>12, <1>13, <1>14, <1>15, <1>16, <1>17 DEF DrainPass

\* A server that closes marks its record once no drain is left.
LEMMA CloseOrder ==
    ASSUME RegistryInv, NEW h \in Servers, clock' = clock, InOrderAt(h),
           CloseServer(h) \/ Close(h)
    PROVE  InOrderAt(h)' /\ KeptAt(h)
<1> DEFINE m == thread[Main(h)]
           b == thread[Beat(h)]
           d == thread[DrainOf(h)]
<1> USE DEF Active
<1>1. /\ Beat(h) \in Threads /\ Main(h) # DrainOf(h) /\ Main(h) # Beat(h)
      /\ Main(h) \in Threads /\ DrainOf(h) \in Threads
  BY ThreadNames, NamesDiffer
<1>2. m \in ThreadStates /\ clock \in Nat
  BY ServerTypes
<1>3. /\ record[h] # Missing => record[h] \in RunnerRecords
      /\ m.seen # Missing => m.seen \in RunnerRecords
  BY <1>1, ServerTypes
<1>4. InOrder(h, record[h], m, b, d, clock) BY DEF InOrderAt
<1>5. ASSUME NEW t, Become(Main(h), t), InOrder(h, record'[h], t, b, d, clock)
      PROVE  InOrderAt(h)'
  <2>1. thread'[Main(h)] = t /\ thread'[Beat(h)] = b /\ thread'[DrainOf(h)] = d
    BY <1>1, <1>5, BecomeOne
  <2> QED BY <1>5, <2>1 DEF InOrderAt, InOrder
<1>6. ASSUME record' = record PROVE KeptAt(h) BY <1>3, <1>6 DEF KeptAt, RunnerRecords
\* the shutdown goes on with no drain under way, or ends with no heartbeat either
<1>7. ASSUME NEW t, t.target = h, t.checked => t.pc = "closeWrite",
             \/ t.pc = "closing"
             \/ t.pc \in {"closeWrite", "closed"} /\ d.pc = "idle"
             \/ t.pc = "down" /\ d.pc = "idle" /\ b.pc = "idle"
      PROVE  InOrder(h, record[h], t, b, d, clock)
  BY <1>4, <1>7 DEF InOrder, Booting
<1>8. /\ Rest(h, "closed").pc = "closed" /\ Rest(h, "closed").target = h
      /\ ~Rest(h, "closed").checked
  BY DEF Rest
<1>9. CASE CloseServer(h)
  <2> DEFINE t == [m EXCEPT !.pc = "closing"]
  <2>1. m.pc = "serving" /\ Become(Main(h), t) /\ record' = record
    BY <1>9 DEF CloseServer, Goto, Serving, At
  <2>2. t.pc = "closing" /\ t.target = h /\ ~t.checked
    BY <1>2, <1>4, <2>1 DEF ThreadStates, InOrder
  <2> HIDE DEF t
  <2> QED BY <1>5, <1>6, <1>7, <2>1, <2>2
<1>10. CASE CloseRead(h)
  <2> DEFINE t == [Rest(h, "closeWrite") EXCEPT !.at = clock, !.seen = record[h]]
  <2>1. d.pc = "idle" /\ record' = record BY <1>10 DEF CloseRead, At
  <2>2. t.pc = "closeWrite" /\ t.target = h /\ ~t.checked BY DEF Rest
  <2>3. CASE Become(Main(h), Rest(h, "closed")) BY <1>5, <1>6, <1>7, <1>8, <2>1, <2>3
  <2>4. CASE Become(Main(h), t)
    <3> HIDE DEF t
    <3> QED BY <1>5, <1>6, <1>7, <2>1, <2>2, <2>4
  <2> QED BY <1>10, <2>3, <2>4 DEF CloseRead
<1>11. CASE CloseWrite(h)
  <2> DEFINE ok == Rest(h, "closed")
  <2> HIDE DEF ok
  <2>1. m.pc = "closeWrite" /\ m.target = h /\ d.pc = "idle"
    BY <1>4, <1>11 DEF CloseWrite, At, InOrder
  <2>2. ok.pc = "closed" /\ ok.target = h /\ ~ok.checked BY <1>8 DEF ok
  <2>3. Lands(Main(h), Stale(m), ok) \/ Checks(Main(h)) \/ Refuses(Main(h), ok)
    BY <1>11, WriteCases DEF CloseWrite, ok
  <2>4. CASE Lands(Main(h), Stale(m), ok)
    <3>1. m.seen \in RunnerRecords BY <1>1, <1>3, <2>1, ThreadFacts
    <3>2. record'[h].status = "stale"
      BY <2>1, <2>4, <3>1 DEF Lands, RegistryInv, Stored, Stale, RunnerRecords
    <3>3. InOrder(h, record'[h], ok, b, d, clock)
      BY <1>4, <2>1, <2>2, <3>2 DEF InOrder, Booting
    <3> QED BY <1>5, <2>4, <3>2, <3>3 DEF Lands, KeptAt
  <2>5. CASE Checks(Main(h))
    <3> DEFINE t == [m EXCEPT !.checked = TRUE]
    <3>1. t.pc = "closeWrite" /\ t.target = h BY <1>2, <2>1 DEF ThreadStates
    <3>2. Become(Main(h), t) /\ record' = record BY <2>5 DEF Checks
    <3> HIDE DEF t
    <3> QED BY <1>5, <1>6, <1>7, <2>1, <3>1, <3>2
  <2>6. CASE Refuses(Main(h), ok)
    BY <1>5, <1>6, <1>7, <2>1, <2>2, <2>6 DEF Refuses
  <2> QED BY <2>3, <2>4, <2>5, <2>6
<1>12. CASE ExitServer(h)
  <2> DEFINE t == [m EXCEPT !.pc = "down"]
  <2>1. /\ m.pc = "closed" /\ b.pc = "idle" /\ Become(Main(h), t) /\ record' = record
    BY <1>12 DEF ExitServer, Goto, At
  <2>2. t.pc = "down" /\ t.target = h /\ ~t.checked /\ d.pc = "idle"
    BY <1>2, <1>4, <2>1 DEF ThreadStates, InOrder
  <2> HIDE DEF t
  <2> QED BY <1>5, <1>6, <1>7, <2>1, <2>2
<1> QED BY <1>9, <1>10, <1>11, <1>12 DEF Close

\* What a server does to the record of another one: a deletion, or a mark.
LEMMA OthersOrder ==
    ASSUME RegistryInv, NEW h \in Servers, clock' = clock, ~overrun', InOrderAt(h),
           StartServer(h) \/ Boot(h) \/ Loop(h) \/ DrainPass(h) \/ CloseServer(h)
             \/ Close(h),
           NEW r \in Servers, r # h, InOrderAt(r)
    PROVE  InOrderAt(r)' /\ KeptAt(r)
<1> USE ThreadNames, NamesDiffer
<1>1. InOrder(h, record[h], thread[Main(h)], thread[Beat(h)], thread[DrainOf(h)], clock)
  BY DEF InOrderAt
<1>2. ASSUME NEW a \in {Main(h), Beat(h), DrainOf(h)}, NEW t, Become(a, t),
             record'[r] \in {record[r], Missing} \/ Marked(record[r], record'[r])
      PROVE  InOrderAt(r)' /\ KeptAt(r)
  BY <1>2, OrderElsewhere
\* a write to the server's own record
<1>3. ASSUME NEW a \in {Main(h), Beat(h), DrainOf(h)}, NEW rec, NEW ok, NEW t,
             thread[a].target = h, Lands(a, rec, ok) \/ Checks(a) \/ Refuses(a, t)
      PROVE  InOrderAt(r)' /\ KeptAt(r)
  <2>1. record'[r] = record[r] BY <1>3 DEF Lands, Checks, Refuses, RegistryInv, Stored
  <2> QED BY <1>2, <1>3, <2>1 DEF Lands, Checks, Refuses
<1>4. ASSUME NEW a \in {Main(h), Beat(h), DrainOf(h)}, NEW rec, NEW ok, NEW again, NEW failed,
             thread[a].target = h, Update(a, rec, ok, again, failed)
      PROVE  InOrderAt(r)' /\ KeptAt(r)
  <2> DEFINE retry == [thread[a] EXCEPT !.pc = again, !.tries = @ + 1, !.checked = FALSE,
                                        !.seen = Missing]
  <2>1. a \in Threads OBVIOUS
  <2>2. Lands(a, rec, ok) \/ Checks(a) \/ Refuses(a, failed) \/ Refuses(a, retry)
    BY <1>4, <2>1, UpdateCases
  <2> HIDE DEF retry
  <2> QED BY <1>3, <1>4, <2>2
<1>5. thread[Main(h)].target = h /\ thread[Beat(h)].target = h BY <1>1 DEF InOrder
<1>6. CASE StartServer(h) BY <1>2, <1>6 DEF StartServer
<1>7. CASE RegisterRunner(h) BY <1>3, <1>5, <1>7, WriteCases DEF RegisterRunner
<1>8. CASE RenewRead(h) BY <1>2, <1>8 DEF RenewRead, Reread
<1>9. CASE RenewWrite(h) BY <1>4, <1>5, <1>9 DEF RenewWrite
<1>10. CASE ListSurplus(h) BY <1>2, <1>10 DEF ListSurplus
<1>11. CASE DeleteRunner(h)
  <2>1. record'[r] \in {record[r], Missing} BY <1>11 DEF DeleteRunner, RegistryInv, Stored
  <2> QED BY <1>2, <1>11, <2>1 DEF DeleteRunner
<1>12. CASE HeartbeatRunner(h) BY <1>2, <1>12 DEF HeartbeatRunner
<1>13. CASE HeartbeatRetry(h) BY <1>2, <1>13 DEF HeartbeatRetry, Reread
<1>14. CASE HeartbeatWrite(h) BY <1>4, <1>5, <1>14 DEF HeartbeatWrite
<1>15. CASE ExpireRunners(h) BY <1>2, <1>15 DEF ExpireRunners
<1>16. CASE MarkRead(h) BY <1>2, <1>16 DEF MarkRead
<1>17. CASE MarkWrite(h)
  <2> DEFINE d == thread[DrainOf(h)]
  <2>1. PICK ok : \/ Lands(DrainOf(h), Stale(d), ok) \/ Checks(DrainOf(h))
                  \/ Refuses(DrainOf(h), Rest(h, "idle"))
    <3>1. PICK ok : Write(DrainOf(h), Stale(d), ok, Rest(h, "idle"))
      BY <1>17 DEF MarkWrite
    <3> QED BY <3>1, WriteCases
  <2>2. CASE d.target = h BY <1>3, <2>1, <2>2
  <2>3. CASE Checks(DrainOf(h)) \/ Refuses(DrainOf(h), Rest(h, "idle"))
    BY <1>2, <2>3 DEF Checks, Refuses
  <2>4. CASE d.target # h /\ Lands(DrainOf(h), Stale(d), ok)
    <3>1. d.seen # Missing /\ d.seen \in RunnerRecords /\ d.seen.revision > 0
      BY <1>17, ThreadFacts, ServerTypes DEF MarkWrite, At
    <3>2. CASE d.target # r
      <4>1. record'[r] = record[r] BY <2>4, <3>2 DEF Lands, RegistryInv, Stored
      <4> QED BY <1>2, <2>4, <4>1 DEF Lands
    <3>3. CASE d.target = r
      <4>1. Revision(record[r]) = d.seen.revision
        BY <2>4, <3>1, <3>3 DEF Lands, Revision
      <4>2. record[r] # Missing /\ record[r].revision = d.seen.revision
        BY <3>1, <4>1 DEF Revision
      <4>3. record'[r] = [Stale(d) EXCEPT !.revision = d.seen.revision + 1]
        BY <2>4, <3>1, <3>3 DEF Lands, RegistryInv, Stored, Revision
      <4>4. record'[r] \in RunnerRecords /\ record'[r].status = "stale"
              /\ record'[r].revision = d.seen.revision + 1
        <5>1. d.at \in Nat /\ d.seen.revision + 1 \in Nat
          BY <3>1, ThreadFacts DEF RunnerRecords
        <5>2. Stale(d) \in RunnerRecords /\ Stale(d).status = "stale"
          BY <3>1, <5>1 DEF Stale, RunnerRecords
        <5> QED BY <4>3, <5>1, <5>2 DEF RunnerRecords
      <4>5. Marked(record[r], record'[r]) BY <4>2, <4>4, MissingAssumption DEF Marked
      <4> QED BY <1>2, <2>4, <4>5 DEF Lands
    <3> QED BY <3>2, <3>3
  <2> QED BY <2>1, <2>2, <2>3, <2>4
<1>18. CASE RecordActivity(h) BY <1>2, <1>18 DEF RecordActivity
<1>19. CASE ActivityRetry(h) BY <1>2, <1>19 DEF ActivityRetry, Reread
<1>20. CASE ActivityWrite(h) BY <1>1, <1>4, <1>20 DEF ActivityWrite, At, InOrder
<1>21. CASE CloseServer(h) BY <1>2, <1>21 DEF CloseServer, Goto
<1>22. CASE CloseRead(h) BY <1>2, <1>22 DEF CloseRead
<1>23. CASE CloseWrite(h) BY <1>3, <1>5, <1>23, WriteCases DEF CloseWrite
<1>24. CASE ExitServer(h) BY <1>2, <1>24 DEF ExitServer, Goto
<1> QED
  BY <1>6, <1>7, <1>8, <1>9, <1>10, <1>11, <1>12, <1>13, <1>14, <1>15, <1>16, <1>17,
     <1>18, <1>19, <1>20, <1>21, <1>22, <1>23, <1>24 DEF Boot, Loop, DrainPass, Close

\* A crash loses what the threads hold, and time only makes room.
LEMMA CrashOrder ==
    ASSUME RegistryInv, NEW h \in Servers, CrashServer(h), NEW r \in Servers, InOrderAt(r)
    PROVE  InOrderAt(r)' /\ KeptAt(r)
<1> USE DEF Active
<1>1. KeptAt(r)
  <2>1. record[r] # Missing => record[r].expiresAt \in Nat BY ServerTypes DEF RunnerRecords
  <2>2. record' = record BY DEF CrashServer
  <2> QED BY <2>1, <2>2 DEF KeptAt
<1>2. CASE r = h
  <2>1. /\ thread'[Main(h)] = Rest(h, "down") /\ thread'[Beat(h)] = Rest(h, "idle")
        /\ thread'[DrainOf(h)] = Rest(h, "idle")
    <3>1. \A a \in Threads :
             a[1] = h => thread'[a] = Rest(h, IF a[2] = "main" THEN "down" ELSE "idle")
      BY DEF CrashServer
    <3>2. /\ Main(h) \in Threads /\ Beat(h) \in Threads /\ DrainOf(h) \in Threads
          /\ Main(h)[1] = h /\ Beat(h)[1] = h /\ DrainOf(h)[1] = h
      BY ThreadNames, NamesDiffer
    <3>3. Main(h)[2] = "main" /\ Beat(h)[2] # "main" /\ DrainOf(h)[2] # "main"
      BY DEF Main, Beat, DrainOf
    <3> QED BY <3>1, <3>2, <3>3
  <2>2. record' = record /\ clock' = clock BY DEF CrashServer
  <2> QED BY <1>1, <1>2, <2>1, <2>2 DEF InOrderAt, InOrder, Rest
<1>3. CASE r # h
  <2>1. /\ thread'[Main(r)] = thread[Main(r)] /\ thread'[Beat(r)] = thread[Beat(r)]
        /\ thread'[DrainOf(r)] = thread[DrainOf(r)]
    <3>1. /\ Main(r) \in Threads /\ Beat(r) \in Threads /\ DrainOf(r) \in Threads
          /\ Main(r)[1] = r /\ Beat(r)[1] = r /\ DrainOf(r)[1] = r
      BY ThreadNames, NamesDiffer
    <3> QED BY <1>3, <3>1 DEF CrashServer
  <2>2. record' = record /\ clock' = clock BY DEF CrashServer
  <2> QED BY <1>1, <2>1, <2>2 DEF InOrderAt, InOrder
<1> QED BY <1>2, <1>3

LEMMA TickOrder ==
    ASSUME RegistryInv, Tick, NEW r \in Servers, InOrderAt(r)
    PROVE  InOrderAt(r)' /\ KeptAt(r)
<1> USE DEF Active
<1>1. /\ clock \in Nat /\ clock' = clock + 1
      /\ record[r] # Missing => record[r].expiresAt \in Nat
      /\ thread[DrainOf(r)].seen # Missing => thread[DrainOf(r)].seen.expiresAt \in Nat
  BY ServerTypes, ThreadNames DEF Tick, RunnerRecords
<1> QED BY <1>1 DEF Tick, InOrderAt, InOrder, KeptAt

InOrderEverywhere == ~overrun => \A r \in Servers : InOrderAt(r)

LEMMA OrderInit == ASSUME Init PROVE InOrderEverywhere
<1>1. ASSUME NEW r \in Servers PROVE InOrderAt(r)
  <2>1. /\ thread[Main(r)] = Rest(r, "down") /\ thread[Beat(r)] = Rest(r, "idle")
        /\ thread[DrainOf(r)] = Rest(r, "idle")
    <3>1. \A a \in Threads :
             thread[a] = Rest(a[1], IF a[2] = "main" THEN "down" ELSE "idle")
      BY DEF Init
    <3>2. /\ Main(r) \in Threads /\ Beat(r) \in Threads /\ DrainOf(r) \in Threads
          /\ Main(r)[1] = r /\ Beat(r)[1] = r /\ DrainOf(r)[1] = r
      BY ThreadNames, NamesDiffer
    <3>3. Main(r)[2] = "main" /\ Beat(r)[2] # "main" /\ DrainOf(r)[2] # "main"
      BY DEF Main, Beat, DrainOf
    <3> QED BY <3>1, <3>2, <3>3
  <2> QED BY <2>1 DEF Init, InOrderAt, InOrder, Rest, Active
<1> QED BY <1>1 DEF InOrderEverywhere

\* Nothing takes an overrun back.
LEMMA OverrunStays == ASSUME RegistryInv, [Next]_vars PROVE overrun => overrun'
<1>1. ASSUME NEW a, NEW rec, NEW ok, NEW bad, Write(a, rec, ok, bad)
      PROVE  overrun => overrun'
  BY <1>1 DEF Write
<1>2. ASSUME NEW a, NEW rec, NEW ok, NEW again, NEW bad, Update(a, rec, ok, again, bad)
      PROVE  overrun => overrun'
  BY <1>1, <1>2 DEF Update
<1>3. CASE \E h \in Servers : StartServer(h) \/ Boot(h)
  BY <1>1, <1>2, <1>3
     DEF StartServer, Boot, RegisterRunner, RenewRead, RenewWrite, ListSurplus, DeleteRunner
<1>4. CASE \E h \in Servers : Loop(h)
  BY <1>2, <1>4 DEF Loop, HeartbeatRunner, HeartbeatRetry, HeartbeatWrite
<1>5. CASE \E h \in Servers : DrainPass(h)
  BY <1>1, <1>2, <1>5
     DEF DrainPass, ExpireRunners, MarkRead, MarkWrite, RecordActivity, ActivityRetry,
         ActivityWrite
<1>6. CASE \E h \in Servers : CloseServer(h) \/ Close(h) \/ CrashServer(h)
  BY <1>1, <1>6 DEF CloseServer, Close, CloseRead, CloseWrite, ExitServer, CrashServer
<1>7. CASE Tick \/ UNCHANGED vars BY <1>7 DEF Tick, vars
<1> QED BY <1>3, <1>4, <1>5, <1>6, <1>7 DEF Next

\* A step keeps every record in order and undoes no heartbeat.
LEMMA OrderStep ==
    ASSUME RegistryInv, InOrderEverywhere, [Next]_vars, ~overrun'
    PROVE  \A r \in Servers : InOrderAt(r)' /\ KeptAt(r)
<1>1. \A r \in Servers : InOrderAt(r) BY OverrunStays DEF InOrderEverywhere
<1>2. SUFFICES ASSUME NEW r \in Servers PROVE InOrderAt(r)' /\ KeptAt(r) OBVIOUS
<1>3. ASSUME NEW h \in Servers,
             StartServer(h) \/ Boot(h) \/ Loop(h) \/ DrainPass(h) \/ CloseServer(h)
               \/ Close(h)
      PROVE  InOrderAt(r)' /\ KeptAt(r)
  <2>1. clock' = clock
    BY <1>3 DEF StartServer, Boot, RegisterRunner, RenewRead, RenewWrite, ListSurplus,
       DeleteRunner, Loop, HeartbeatRunner, HeartbeatRetry, HeartbeatWrite, DrainPass,
       ExpireRunners, MarkRead, MarkWrite, RecordActivity, ActivityRetry, ActivityWrite,
       CloseServer, Close, CloseRead, CloseWrite, ExitServer
  <2>2. CASE r = h
    BY <1>1, <1>3, <2>1, <2>2, BootOrder, LoopOrder, DrainOrder, CloseOrder
  <2>3. CASE r # h BY <1>1, <1>3, <2>1, <2>3, OthersOrder
  <2> QED BY <2>2, <2>3
<1>4. CASE Tick BY <1>1, <1>4, TickOrder
<1>5. CASE UNCHANGED vars
  <2>1. record' = record /\ thread' = thread /\ clock' = clock BY <1>5 DEF vars
  <2>2. InOrderAt(r)' BY <1>1, <2>1 DEF InOrderAt, InOrder
  <2>3. KeptAt(r) BY <2>1, ServerTypes DEF KeptAt, RunnerRecords, Active
  <2> QED BY <2>2, <2>3
<1> QED BY <1>1, <1>3, <1>4, <1>5, CrashOrder DEF Next

LEMMA InOrderHolds == Spec => []InOrderEverywhere
<1>1. Init => InOrderEverywhere BY OrderInit
<1>2. RegistryInv /\ InOrderEverywhere /\ [Next]_vars => InOrderEverywhere'
  BY OrderStep DEF InOrderEverywhere
<1> QED BY <1>1, <1>2, RegistryInvHolds, PTL DEF Spec

\* An accepted heartbeat keeps its runner alive for as long as it promised: no activity
\* record, retried heartbeat or renewal takes the expiry of an active record back.
THEOREM HeartbeatNotUndoneHolds == Spec => HeartbeatNotUndone
<1>1. RegistryInv /\ InOrderEverywhere /\ [Next]_vars
        => [~overrun' => \A r \in Servers :
              Active(record[r]) /\ Active(record'[r])
                => record'[r].expiresAt >= record[r].expiresAt]_vars
  BY OrderStep DEF KeptAt
<1> QED BY <1>1, RegistryInvHolds, InOrderHolds, PTL DEF Spec, HeartbeatNotUndone
================================================================================
