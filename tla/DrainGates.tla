------------------------------- MODULE DrainGates -------------------------------
(***************************************************************************)
(* How a service host decides which queued runs may start: a response      *)
(* batch is created child by child, a drain pass plans a bounded number of *)
(* candidates, asks the batch gate and the tenant gate about each, and     *)
(* starts the admitted ones.  Browser-backed runs are started without      *)
(* waiting for them, so the gate of the next run races with the lease of   *)
(* the last one.                                                           *)
(*                                                                         *)
(* One API server and its queue of drains: the background timer's, those   *)
(* of a created response or batch, the recovery after a restart.  Drains   *)
(* of one run that race are the subject of ExecutionRun, as is what        *)
(* happens inside an execution, which here acquires the lease, starts the  *)
(* step and ends.  Runs are numbered in the order of their createdAt, have *)
(* one step each and belong to one ChatGPT tenant.  Time is measured by    *)
(* ages that saturate once they are out of every window.                   *)
(***************************************************************************)
EXTENDS Integers, FiniteSets, FiniteSetsExt, Sequences, SequencesExt

CONSTANTS NumRuns,       \* runs that will ever be created
          Batch,         \* those of them that are children of the response batch
          Browser,       \* those of them that are browser-backed
          NumMembers,    \* runnable members of the batch's dispatch pool
          OneShotAgent,  \* the member one-shot responses are sent to
          None,
          RecoverRuns,   \* recoverRunsOnStartMaxRuns
          BatchLimit,    \* limits.maxConcurrentRuns of the batch
          BatchRate,     \* limits.maxBrowserInteractionsPerMinute of the batch
          TenantLimit,   \* tenantLimits.maxConcurrentChats
          HourLimit,     \* tenantLimits.maxChatsPerHour
          Minute,        \* 60_000 ms in ticks: the rate window and the reservation TTL
          Hour,          \* HOUR_MS in ticks
          MaxCrashes,    \* bound on crashes of the server
          MaxCancels     \* bound on cancelled runs

ASSUME GatesAssumption ==
    /\ NumRuns \in Nat \ {0} /\ Batch \subseteq 1..NumRuns /\ Browser \subseteq 1..NumRuns
    /\ NumMembers \in Nat \ {0} /\ OneShotAgent \in 0..(NumMembers - 1) /\ None \notin Int
    /\ {RecoverRuns, BatchLimit, BatchRate, TenantLimit, HourLimit} \subseteq Nat \ {0}
    /\ {Minute, Hour, MaxCrashes, MaxCancels} \subseteq Nat /\ Minute <= Hour

VARIABLES status,    \* stored status of every run
          lease,     \* its lease in the store: none, held, or lapsed but still active
          started,   \* age of the run's latest step-started event
          agent,     \* dispatch-pool member the run was sent to
          batch,     \* createBatch: where it is, its assignments and the loads it saw
          queue,     \* drainQueue: the drains waiting for their turn
          pass,      \* the drain at work: what it is, where, planned candidates, budget
          exec,      \* executeCurrentRun of every run
          reserved,  \* reservationsByTenant: the age of a run's reservation, or None
          crashes
vars == <<status, lease, started, agent, batch, queue, pass, exec, reserved, crashes>>

Runs == 1..NumRuns
Members == 0..(NumMembers - 1)
Terminal == {"succeeded", "failed", "cancelled"}
Old == Hour + 1
Ages == 0..Old

\* a drain of every candidate, or of the run just created
Drains == [kind : {"background", "batch", "recovery"}, run : {None}]
            \cup [kind : {"create"}, run : Runs]
Drain(kind, run) == [kind |-> kind, run |-> run]

\* mutant of MaxRuns: the batch's drain is not capped by its own limit
MaxRunsUncapped(drain) ==
    CASE drain.kind = "batch" -> Cardinality(Batch)
      [] drain.kind = "recovery" -> RecoverRuns
      [] OTHER -> 1

\* its maxRuns: the batch route's initialBatchMaxRuns, the recovery's cap, or one
MaxRuns(drain) ==
    CASE drain.kind = "batch" -> Min({Cardinality(Batch), BatchLimit})
      [] drain.kind = "recovery" -> RecoverRuns
      [] OTHER -> 1
MaxLeft == Max({MaxRuns(d) : d \in Drains})

NoPass == [drain |-> Drain("background", None), pc |-> "idle", todo |-> <<>>, left |-> 0, count |-> 0]

TypeOK ==
    /\ status \in [Runs -> {"absent", "planned", "running"} \cup Terminal]
    /\ lease \in [Runs -> {"none", "held", "lapsed"}]
    /\ started \in [Runs -> Ages]
    /\ agent \in [Runs -> Members \cup {None}]
    /\ batch \in [pc : {"resolve", "create", "written", "lost"},
                  assigned : [Batch -> Members], base : [Members -> 0..NumRuns]]
    /\ queue \in Seq(Drains)
    /\ pass \in [drain : Drains, todo : Seq(Runs), left : 0..MaxLeft, count : 0..NumRuns,
                 pc : {"idle", "inspect", "claim", "batch", "rate", "tenant", "await", "settle"}]
    /\ pass.todo = <<>> <=> pass.pc \in {"idle", "inspect", "settle"}
    /\ exec \in [Runs -> {"none", "starting", "leased", "working"}]
    /\ reserved \in [Runs -> Ages \cup {None}]
    /\ crashes \in 0..MaxCrashes

Init ==
    /\ status = [r \in Runs |-> "absent"]
    /\ lease = [r \in Runs |-> "none"]
    /\ started = [r \in Runs |-> Old]
    /\ agent = [r \in Runs |-> None]
    /\ batch = [pc |-> "resolve", assigned |-> [r \in Batch |-> 0], base |-> [m \in Members |-> 0]]
    /\ queue = <<>>
    /\ pass = NoPass
    /\ exec = [r \in Runs |-> "none"]
    /\ reserved = [r \in Runs |-> None]
    /\ crashes = 0

--------------------------------------------------------------------------------
\* The dispatch pool and the batch.

\* countActiveMemberRuns
MemberLoad(m) ==
    Cardinality({r \in Runs : /\ agent[r] = m
                              /\ status[r] \notin Terminal \cup {"absent"}
                              /\ lease[r] # "none" \/ status[r] = "running"})

\* mutant of ChooseNextMemberIndex: the most loaded member
ChooseMostLoaded(load, cursor) ==
    LET high == Max(Range(load))
    IN Min({m \in Members : load[m] = high})

\* chooseNextMemberIndex: the first least loaded member from the cursor on
ChooseNextMemberIndex(load, cursor) ==
    LET low == Min(Range(load))
        turn(offset) == (cursor + offset) % NumMembers
    IN turn(Min({offset \in Members : load[turn(offset)] = low}))

\* one turn of the loop of resolveResponseBatchDispatchPool
DispatchNext(before) ==
    LET m == ChooseNextMemberIndex(before.load, before.cursor)
    IN [load |-> [before.load EXCEPT ![m] = @ + 1], cursor |-> (m + 1) % NumMembers, member |-> m]

\* the loop over the batch's requests, in the order in which their runs will be created
Dispatched(base) ==
    LET after[r \in 0..NumRuns] ==
          IF r = 0 THEN [load |-> base, cursor |-> 0, member |-> 0]
          ELSE IF r \in Batch THEN DispatchNext(after[r - 1])
          ELSE after[r - 1]
    IN after
ResolveDispatchPool(base) == [r \in Batch |-> Dispatched(base)[r].member]

ResolveDispatch ==
    /\ batch.pc = "resolve"
    /\ LET base == [m \in Members |-> MemberLoad(m)]
       IN batch' = [pc |-> "create", assigned |-> ResolveDispatchPool(base), base |-> base]
    /\ UNCHANGED <<status, lease, started, agent, queue, pass, exec, reserved, crashes>>

\* createdAt orders the runs; children a crash kept from being created are skipped
NextToCreate(r) ==
    /\ status[r] = "absent"
    /\ \A q \in 1..(r - 1) : status[q] # "absent" \/ (q \in Batch /\ batch.pc = "lost")

\* createBatch awaits createResponse for one child after another
CreateChild(r) ==
    /\ batch.pc = "create"
    /\ NextToCreate(r)
    /\ status' = [status EXCEPT ![r] = "planned"]
    /\ agent' = [agent EXCEPT ![r] = batch.assigned[r]]
    /\ UNCHANGED <<lease, started, batch, queue, pass, exec, reserved, crashes>>

\* the batch record is written after its last child, and the route drains the queue
WriteBatch ==
    /\ batch.pc = "create"
    /\ \A r \in Batch : status[r] # "absent"
    /\ batch' = [batch EXCEPT !.pc = "written"]
    /\ queue' = Append(queue, Drain("batch", None))
    /\ UNCHANGED <<status, lease, started, agent, pass, exec, reserved, crashes>>

\* a one-shot response; a chat completion drains its own run, a
\* response is left to the background drain
CreateResponse(r) ==
    /\ NextToCreate(r)
    /\ status' = [status EXCEPT ![r] = "planned"]
    /\ agent' = [agent EXCEPT ![r] = OneShotAgent]
    /\ queue' \in {queue, Append(queue, Drain("create", r))}
    /\ UNCHANGED <<lease, started, batch, pass, exec, reserved, crashes>>

--------------------------------------------------------------------------------
\* The gates.  Each counts from its own listing of the store.

HoldsLease(r) == status[r] \notin Terminal /\ lease[r] # "none"

\* countActiveBatchRuns and the first check of the batch gate
BelowBatchLimit(r) ==
    r \in Batch => Cardinality({q \in Batch \ {r} : HoldsLease(q)}) < BatchLimit

\* mutant of BelowBatchRate: only runs that still run are counted
BelowLiveRate(r) ==
    r \in Batch => Cardinality({q \in Batch : started[q] <= Minute /\ HoldsLease(q)}) < BatchRate

\* countRecentlyStartedBatchRuns and the second check
BelowBatchRate(r) ==
    r \in Batch => Cardinality({q \in Batch : started[q] <= Minute}) < BatchRate

\* pruneTenantReservations
KeepsReservation(r, at) ==
    /\ at # None
    /\ status[r] \notin Terminal
    /\ at > Minute => lease[r] # "none" \/ status[r] = "running"
Pruned == [r \in Runs |-> IF KeepsReservation(r, reserved[r]) THEN reserved[r] ELSE None]

\* mutant of ActiveChats: leases only, no reservations
LeasedChats(r, kept) == {q \in Runs \ {r} : HoldsLease(q)}

\* countActiveTenantChats
ActiveChats(r, kept) ==
    {q \in Runs \ {r} : HoldsLease(q) \/ (kept[q] # None /\ kept[q] <= Minute)}

\* mutant of StartedChats: a chat that has ended is no longer counted
StartedLive(kept) ==
    {q \in Runs : status[q] \notin Terminal /\ (started[q] <= Hour \/ (kept[q] # None /\ kept[q] <= Hour))}

\* countTenantStartedChats
StartedChats(kept) ==
    {q \in Runs : started[q] <= Hour \/ (kept[q] # None /\ kept[q] <= Hour)}

\* mutant of TenantAdmits: a run tried again does not count itself against the hour
AdmitsAgain(r, kept) ==
    /\ Cardinality(ActiveChats(r, kept)) < TenantLimit
    /\ Cardinality(StartedChats(kept) \ {r}) < HourLimit

TenantAdmits(r, kept) ==
    /\ Cardinality(ActiveChats(r, kept)) < TenantLimit
    /\ Cardinality(StartedChats(kept)) < HourLimit

--------------------------------------------------------------------------------
\* drainRunsUntilIdleQueued and its passes, drainRunsOnce.

\* the timer is set again when its drain is over
BackgroundDrain ==
    LET drain == Drain("background", None)
    IN
    /\ ~Contains(queue, drain) /\ ~(pass.pc # "idle" /\ pass.drain = drain)
    /\ queue' = Append(queue, drain)
    /\ UNCHANGED <<status, lease, started, agent, batch, pass, exec, reserved, crashes>>

BeginDrain ==
    /\ pass.pc = "idle" /\ queue # <<>>
    /\ pass' = [NoPass EXCEPT !.pc = "inspect", !.drain = Head(queue), !.left = MaxRuns(Head(queue))]
    /\ queue' = Tail(queue)
    /\ UNCHANGED <<status, lease, started, agent, batch, exec, reserved, crashes>>

Listed(r) == pass.drain.run \in {None, r}

\* classifyHostDrainCandidate, once the lapsed leases are expired
RunnableRun(r) == Listed(r) /\ status[r] = "planned" /\ lease[r] # "held"
StrandedRun(r) == Listed(r) /\ status[r] = "running" /\ lease[r] # "held"

\* the runs of a set in the order of their createdAt
ByCreation(S) ==
    CHOOSE s \in [1..Cardinality(S) -> S] : \A i, j \in DOMAIN s : i < j => s[i] < s[j]

FirstOf(s, n) == SubSeq(s, 1, Min({n, Len(s)}))

\* mutant of ActionablePlan: no slot for a stranded run
PlanRunnable(runnable, stranded) == FirstOf(runnable, pass.left)

\* createActionableExecutionPlan: the oldest runnable runs first, but one slot of
\* several is kept for a stranded run
ActionablePlan(runnable, stranded) ==
    IF runnable # <<>> /\ stranded # <<>> /\ pass.left > 1
    THEN Append(FirstOf(runnable, pass.left - 1), Head(stranded))
    ELSE FirstOf(runnable \o stranded, pass.left)

Deferred(r) == pass.left > 1 /\ r \in Browser

Goto(pc) == pass' = [pass EXCEPT !.pc = pc]

\* past the candidate at the head: on to the next, or to the end of the pass
Advance(executed) ==
    LET rest == Tail(pass.todo)
    IN pass' = [pass EXCEPT !.pc = IF rest # <<>> THEN "claim" ELSE "settle", !.todo = rest,
                            !.count = @ + executed]

\* inspectHostDrainCandidates expires the lapsed leases and sorts what it finds; a pass
\* without a candidate executes nothing and ends the drain
InspectCandidates ==
    LET plan == ActionablePlan(ByCreation({r \in Runs : RunnableRun(r)}),
                               ByCreation({r \in Runs : StrandedRun(r)}))
    IN
    /\ pass.pc = "inspect"
    /\ lease' = [r \in Runs |-> IF Listed(r) /\ lease[r] = "lapsed" THEN "none" ELSE lease[r]]
    /\ pass' = IF plan = <<>> THEN NoPass ELSE [pass EXCEPT !.pc = "claim", !.todo = plan, !.count = 0]
    /\ UNCHANGED <<status, started, agent, batch, queue, exec, reserved, crashes>>

\* selectStoredExecutionRunLocalClaim reads the run again; a stranded one is recovered.  A
\* lease a former process of this server has left waits here to lapse; ExecutionRun adopts it.
SelectLocalClaim ==
    LET r == Head(pass.todo)
        claimed == status[r] \notin Terminal /\ lease[r] = "none"
    IN
    /\ pass.pc = "claim"
    /\ status' = [status EXCEPT ![r] = IF claimed THEN "planned" ELSE @]
    /\ IF claimed THEN Goto("batch") ELSE Advance(0)
    /\ UNCHANGED <<lease, started, agent, batch, queue, exec, reserved, crashes>>

BatchConcurrencyGate ==
    /\ pass.pc = "batch"
    /\ IF BelowBatchLimit(Head(pass.todo)) THEN Goto("rate") ELSE Advance(0)
    /\ UNCHANGED <<status, lease, started, agent, batch, queue, exec, reserved, crashes>>

BatchRateGate ==
    /\ pass.pc = "rate"
    /\ IF BelowBatchRate(Head(pass.todo)) THEN Goto("tenant") ELSE Advance(0)
    /\ UNCHANGED <<status, lease, started, agent, batch, queue, exec, reserved, crashes>>

\* the tenant gate decides and reserves without another await; an admitted run is
\* started in the same turn, and awaited here only when it is not deferred
TenantGate ==
    LET r == Head(pass.todo)
    IN
    /\ pass.pc = "tenant"
    /\ IF TenantAdmits(r, Pruned)
       THEN /\ reserved' = [Pruned EXCEPT ![r] = 0]
            /\ exec' = [exec EXCEPT ![r] = "starting"]
            /\ IF Deferred(r) THEN Advance(1) ELSE Goto("await")
       ELSE /\ reserved' = Pruned
            /\ Advance(0)
            /\ UNCHANGED exec
    /\ UNCHANGED <<status, lease, started, agent, batch, queue, crashes>>

AwaitExecution ==
    /\ pass.pc = "await"
    /\ exec[Head(pass.todo)] = "none"
    /\ Advance(1)
    /\ UNCHANGED <<status, lease, started, agent, batch, queue, exec, reserved, crashes>>

\* Promise.all over the deferred executions; the drain passes again while passes execute
\* something and runs are left in its budget
SettleDeferred ==
    /\ pass.pc = "settle"
    /\ \A r \in Runs : exec[r] = "none"
    /\ pass' = IF pass.count > 0 /\ pass.count < pass.left
               THEN [pass EXCEPT !.pc = "inspect", !.left = @ - pass.count]
               ELSE NoPass
    /\ UNCHANGED <<status, lease, started, agent, batch, queue, exec, reserved, crashes>>

--------------------------------------------------------------------------------
\* executeCurrentRun, and the process it runs in.

\* the runner activity is recorded, the run read again and its lease acquired; a run
\* cancelled since is returned as it is
AcquireLease(r) ==
    /\ exec[r] = "starting"
    /\ IF status[r] = "planned"
       THEN /\ lease' = [lease EXCEPT ![r] = "held"]
            /\ exec' = [exec EXCEPT ![r] = "leased"]
       ELSE /\ exec' = [exec EXCEPT ![r] = "none"]
            /\ UNCHANGED lease
    /\ UNCHANGED <<status, started, agent, batch, queue, pass, reserved, crashes>>

StartStep(r) ==
    /\ exec[r] = "leased"
    /\ status[r] = "planned"
    /\ status' = [status EXCEPT ![r] = "running"]
    /\ started' = [started EXCEPT ![r] = 0]
    /\ exec' = [exec EXCEPT ![r] = "working"]
    /\ UNCHANGED <<lease, agent, batch, queue, pass, reserved, crashes>>

\* the outcome is stored and the lease released; a cancelled run only loses its lease
EndRun(r) ==
    /\ \/ exec[r] = "working" /\ status[r] = "running" /\ \E o \in {"succeeded", "failed"} :
              status' = [status EXCEPT ![r] = o]
       \/ exec[r] \in {"leased", "working"} /\ status[r] = "cancelled" /\ UNCHANGED status
    /\ lease' = [lease EXCEPT ![r] = "none"]
    /\ exec' = [exec EXCEPT ![r] = "none"]
    /\ UNCHANGED <<started, agent, batch, queue, pass, reserved, crashes>>

CancelRun(r) ==
    /\ status[r] \in {"planned", "running"}
    /\ Cardinality({q \in Runs : status[q] = "cancelled"}) < MaxCancels
    /\ status' = [status EXCEPT ![r] = "cancelled"]
    /\ UNCHANGED <<lease, started, agent, batch, queue, pass, exec, reserved, crashes>>

\* the process ends and is started again: everything but the store is gone, and the new
\* server begins with a recovery drain
Crash ==
    /\ crashes < MaxCrashes
    /\ crashes' = crashes + 1
    /\ queue' = <<Drain("recovery", None)>>
    /\ pass' = NoPass
    /\ exec' = [r \in Runs |-> "none"]
    /\ reserved' = [r \in Runs |-> None]
    /\ batch' = [batch EXCEPT !.pc = IF @ = "create" THEN "lost" ELSE @]
    /\ UNCHANGED <<status, lease, started, agent>>

\* nobody renews the lease of an execution that is gone
LeaseLapses(r) ==
    /\ lease[r] = "held"
    /\ exec[r] = "none"
    /\ lease' = [lease EXCEPT ![r] = "lapsed"]
    /\ UNCHANGED <<status, started, agent, batch, queue, pass, exec, reserved, crashes>>

\* mutant of Older: ages do not saturate
OlderForEver(age) == IF age = None THEN age ELSE age + 1

Older(age) == IF age \in {None, Old} THEN age ELSE age + 1

\* an admitted run takes its lease and starts within the reservation's minute
StartsInTime ==
    \A r \in Runs : exec[r] \in {"starting", "leased"} => reserved[r] # None /\ reserved[r] < Minute

Tick ==
    /\ StartsInTime
    /\ started' = [r \in Runs |-> Older(started[r])]
    /\ reserved' = [r \in Runs |-> Older(reserved[r])]
    /\ UNCHANGED <<status, lease, agent, batch, queue, pass, exec, crashes>>

PassStep ==
    \/ BeginDrain \/ InspectCandidates \/ SelectLocalClaim
    \/ BatchConcurrencyGate \/ BatchRateGate \/ TenantGate
    \/ AwaitExecution \/ SettleDeferred
ExecStep(r) == AcquireLease(r) \/ StartStep(r) \/ EndRun(r)
BatchStep == ResolveDispatch \/ WriteBatch \/ \E r \in Batch : CreateChild(r)

Next ==
    \/ BatchStep
    \/ \E r \in Runs \ Batch : CreateResponse(r)
    \/ BackgroundDrain \/ PassStep
    \/ \E r \in Runs : ExecStep(r) \/ CancelRun(r) \/ LeaseLapses(r)
    \/ Crash
    \/ Tick

Spec == Init /\ [][Next]_vars

\* The background timer keeps firing, drains and executions end, dead leases lapse and time goes
\* on; nobody has to cancel, create or crash.
FairSpec ==
    /\ Spec
    /\ WF_vars(BackgroundDrain) /\ WF_vars(PassStep) /\ WF_vars(Tick)
    /\ \A r \in Runs : WF_vars(ExecStep(r)) /\ WF_vars(LeaseLapses(r))

--------------------------------------------------------------------------------
\* Properties.

\* the runs under way, those of them that have been admitted and have yet to start, and the
\* runs that have started within the last hour
Chats == {r \in Runs : HoldsLease(r) \/ (exec[r] # "none" /\ status[r] \notin Terminal)}
Due(r) == exec[r] \in {"starting", "leased"} /\ status[r] \notin Terminal
DueChats == {r \in Runs : Due(r)}
RecentChats == {r \in Runs : started[r] <= Hour}

\* At most maxConcurrentChats runs of the tenant that are not cancelled hold a lease or are
\* on their way to one, whatever was deferred or left behind by a crash: a reservation
\* stands for a run from its admission to its lease.
TenantLimitHolds == Cardinality(Chats) <= TenantLimit

\* At most maxChatsPerHour runs of the tenant have started within the last hour, across
\* crashes that lose the reservations.
HourLimitHolds == Cardinality(RecentChats) <= HourLimit

\* The drains, reservations and leases implement TenantQuota: a run comes under way, first or
\* recovered after a crash, only through a gate that counted every run under way and every one
\* that has started or is about to, and nothing but time takes a start back.
Quota == INSTANCE TenantQuota
    WITH busy <- Chats, due <- DueChats, recent <- RecentChats
ImplementsQuota == Quota!QuotaSpec

\* At most maxConcurrentRuns children of the batch hold a lease (countActiveBatchRuns
\* before every start).  The run batchlimit shows how the recovery drain breaks it.
BatchLimitHolds == Cardinality({r \in Batch : HoldsLease(r)}) <= BatchLimit

\* What a pass can add behind the back of the gates, which look only at leases taken and
\* steps started: its own budget.  Before the first crash no drain is a recovery.
Unseen == Max({MaxRuns(d) : d \in {x \in Drains : x.kind = "recovery" => crashes > 0}})

\* How far the children get past maxConcurrentRuns: not at all before a crash, when one pass
\* of the batch's own budget holds all their leases; after it, by the recovery's budget.
BatchLeasesBounded ==
    Cardinality({r \in Batch : HoldsLease(r)})
        <= IF crashes = 0 THEN BatchLimit ELSE BatchLimit - 1 + Unseen

\* How many children have started within a minute, finished ones and ones restarted after a
\* crash included: maxBrowserInteractionsPerMinute, and beyond it only what a single pass
\* started without waiting.  One pass never follows another before its runs have settled, so
\* the excess does not add up over passes, drains and restarts.
BatchRateHolds == Cardinality({r \in Batch : started[r] <= Minute}) <= BatchRate - 1 + Unseen

\* The dispatch is balanced: no member that was given children ends up more than one run
\* above another, counting what each was running when the batch was resolved.
BalancedDispatch ==
    batch.pc # "resolve" =>
        LET load(m) == batch.base[m] + Cardinality({r \in Batch : batch.assigned[r] = m})
        IN \A m, n \in Members : (\E r \in Batch : batch.assigned[r] = m) => load(m) <= load(n) + 1

\* Every run that was queued ends, whatever the limits refuse for a while, and although
\* the pass spends its slots on refused runs and crashes strand running ones.
EveryRunEnds == <>[](\A r \in Runs : status[r] \in Terminal \cup {"absent"})
================================================================================
