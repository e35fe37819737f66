# A TLA+ model of the AuraCall runtime

AuraCall runs multi-step conversations with language-model providers. What has
to be right without anyone watching is its runtime (`src/src/runtime`) and its
use of shared browsers (`src/packages/browser-service`, `src/src/browser`): runs
and jobs are files on disk, several processes work on them, leases and locks
must be kept or given back, and operators cancel and resume while all of that is
going on. This directory models those parts, checks them with TLC and proves
their central invariants with TLAPS.

## Inventory

| Component | State | Operations | What is hard |
|---|---|---|---|
| Run record (`types.ts`, `dispatcher.ts`, `lease.ts`, `projection.ts`) | run status, step statuses, escalation outputs, leases | dispatch plan; acquire, heartbeat, release, expire | the plan looks at all steps, the transitions at one |
| Store and control (`store.ts`, `control.ts`) | `record.json` with a revision | read, write with expected revision | the revision check and the rename are separate steps |
| Executor (`runner.ts`) | chosen step, lease id, last record | choose, acquire, start, execute, complete or fail, release; heartbeat loop | every await is a place where another actor writes |
| Service host (`serviceHost.ts`) | the drain in progress | drain pass, targeted drain, cancel, resume, scheduler claim, repair, local action resolution | two drains of one host share an owner id |
| Runner registry (`runnersControl.ts`, `runnersStore.ts`) | a record per runner | register, heartbeat, record activity, expire, compact | the sweep races the heartbeat |
| Batches (`responseBatchService.ts`, `responseBatchDispatchPool.ts`) | the batch record, assignments, loads | create children, gate a child, aggregate | runs are started without waiting for their leases |
| Tenant limits (`tenantExecutionLimits.ts`) | reservations in memory, step-started events | admit, reserve, count | a restart forgets the reservations, the TTL drops them |
| Tab leases (`tabLeaseRegistry.ts`, `processTabAcquisition.ts`) | a lease per tab, the profile control | reserve, acquire, renew, record, idle, lose, release | several processes, each with its own reading of the registry |
| Tab affinity (`chatgptTabProvisioner.ts`, `chatgptAffinityExecutor.ts`, maintenance) | claims of operations, prompts in flight | provision, prompt, settle, fence, reconcile, retire | a prompt whose outcome nobody recorded |
| History jobs (`historyMaterializationService.ts`) | a job store, a promise chain per process | create, run, cancel, recover overdue and interrupted jobs | two servers on one store, every write puts back an older reading |
| Browser operation lock (`operationDispatcher.ts`) | a lock file per profile and service | acquire, queue, release | the file exists before its content |
| Lease adjudication (`reconciliation.ts`, `repair.ts`, `claims.ts`, `schedulerAuthority.ts`) | none of its own | classify a lease against its runner, select a claimant | acts on two files read at different times |
| Archive jobs (`archiveMaterializationJobService.ts`) | job files | queue, run, resume | a restart with a job running |
| Account mirror (`src/src/accountMirror`) | completions, ledgers, scheduler state | refresh, complete, pause | pacing, overlapping passes |
| Interaction ledger and governors (browser service) | admitted effects, budgets | admit, settle | several processes, one ledger |
| Browser adapters, CLI, HTTP, MCP, media, handoff, teams, config | | | mostly I/O and formatting around the above |

`PROJECT.json` lists every component with its status, and the hazards of the
code with the properties that would notice them going wrong.

How they interact. The HTTP server starts a runner (registry) and queues drains
(service host); a drain asks the batch and tenant gates which runs may start and
executes them (executor), which for ChatGPT means provisioning a tab and sending
a prompt under its lease. The API and the MCP server both run history jobs,
which take the operation lock of the profile for as long as they use its browser.

## Modules

* `RunRecord` - the pure functions: a bundle is `[run, step, escalated, lease]`.
  A "Can" operator is the negation of the exception a transition throws.
  `escalated[s]` is the one bit of a step's output that later code branches on
  (a `humanEscalation` output makes a cancelled step resumable).
* `ExecutionRun` - the protocol around one stored run. One action is the code
  between two awaits on the file. `pc[a]` is where an actor is, `seen[a]` the
  record it last read or wrote, `mine[a]` its lease id, `step[e]` the step an
  executor chose, `beat[e]` and `beatSeen[e]` its heartbeat in flight.
  `Write` is `writeRecord` with an expected revision: it either lands and
  returns the new record or throws, and each use names where the code goes in
  both cases (catch block, finally block, caller).
* `RunLifecycle` - the abstract specification: the life of the steps with no
  hosts, leases or revisions. A step is started, and its outcome recorded, only
  when it is its turn *in the state at that moment*.
* `ExecutionRunInv`, `ExecutionRunProofs`, `ExecutionRunSafety` - the inductive
  invariant and the theorems. `ExecutionRunLeases` adds what holds of leases,
  `ExecutionRunWindow` what holds with the commit window open.
* `RunnerRegistry` - the runner records of the API servers. `record[r]` is the
  record on disk; `thread[a]` is what one of a server's three threads of control
  is doing: main (register or renew, compact, serve, close), beat (the heartbeat
  timer) and drain (the liveness sweep and activity records). `overrun` is
  history: a server renamed its stale mark over a record of another server's.
  `RunnerRegistryProofs` has its theorems.
* `DrainGates` - which queued runs may start. A batch is created child by child
  over a dispatch pool, a pass of a drain plans a bounded number of candidates,
  asks both gates about each and starts the admitted; `exec[r]` is the execution
  begun for a run, `lease[r]` what the store shows of it, `reserved[r]` the
  tenant's reservation, `queue` and `pass` the server's drains. It starts where
  `ExecutionRun` is too detailed: there one run with all its steps, here several
  runs of one step. `DrainGatesProofs` has its theorems.
* `TenantQuota` - the abstract specification of the tenant gate: sets of runs that
  are under way (`busy`), admitted and not started (`due`) and started within the
  hour (`recent`), and no drains, leases, reservations or crashes. `DrainGates` maps
  them to `Chats`, `DueChats` and `RecentChats`.
* `TabCustody` - who may drive which ChatGPT tab. `lease[t]`, `control`, `tab[t]`
  and `browser` are the registry and the browser; `act[o]` is where an operation
  is between "asked" and "ended", with the lease revision it last read. In
  place of a counter, a lease carries the readers of its current revision: a
  write leaves only the writer's copy current. `TabCustodyProofs` has the
  theorems.
* `OperationLock` - the file-backed dispatcher, one step per await: `lock` is the
  file, `grip[u]` where a user is in `acquire` and `release`. `torn` is history:
  a file was removed under the living user that created it.
* `MaterializationJobs` - the history job service on top of it. `job[j]` is the
  stored status, `copy[u]` the store as a user read it to write it back,
  `run[p][j]` a call of `runJob` in a process, `tail` and `scheduled` its promise
  chain and `scheduledJobIds`, `request[p]` the request it is serving, `boot[p]`
  what it listed when it started. `MaterializationJobsProofs` has the theorems.
* `MCExecutionRun`, `MCRunnerRegistry`, `MCDrainGates`, `MCTabCustody`,
  `MCMaterializationJobs` - the instances TLC checks.

The definitions and the lines they model are in `PROJECT.json` under `map`.

### Abstractions

`ExecutionRun`. The actors are `Executors` (a host's queued background drain and,
on the same host, a targeted drain), `Operators` (callers of a host's control
endpoints) and the heartbeats of executions. Of a run's lease list only the
active entry is kept; released and expired entries are never reactivated. Lease
ids carry the actor and the revision, which makes them unique as
`nextUniqueExecutionLeaseId` does. Time is a counter on which a lease granted at
`t` lapses at `t + 1`; the expiry in a write may already be the present when the
write lands (`Stamp`). The outcome of a step (return, missing required output,
throw, human escalation in either mode) is nondeterministic. The second file of
a write, `bundle.json`, is not read by any modelled operation.

`RunnerRegistry`. A runner has its server's name (the code derives it from host
and port, so a restarted server finds its old record), capabilities and notes
are left out, and a heartbeat made at `t` expires at `t + 1`. A listing is one
step; the order in which a sweep goes through it is arbitrary. Sweeps are also
made by summaries and inspections, which may overlap in one server: one drain
thread per server stands for them, and the overlap is that of two servers. The
registry and the run file are separate files that no operation changes together.

`DrainGates`. One server and its queue of drains, one tenant, one batch. Time is
an age per event that saturates once it is out of every window. Runs are
numbered by their `createdAt`. A server restarted with its old owner id may take
up its own active lease (`ExecutionRun` has that); here a lease left by a crash
waits to lapse. The resumption of a cancelled run by a human is in
`ExecutionRun` only. The status of a batch is left out: it is aggregated from one
read per job, and a job whose read fails counts as failed until a later poll reads
it, so a reported verdict is not final (a listed hazard without a property).

`TabCustody`. Every registry operation is one step, because it runs under the
registry's file lock. One tenant, service and profile. `age` is 0 in use, 1 past
`idleExpiresAt`, 2 past `absoluteExpiresAt`. A tab the browser shows may be on
another page than its lease says; what a page does with a prompt is
nondeterministic. The check that the lease is owned and the sending of the prompt
are one step, though the executor awaits between them. A lease stands for a
conversation once it is bound to it: before, a process may open the page of a
conversation in a second tab and prompt there, and what is refused is the binding
of a second lease.

`MaterializationJobs`. All jobs need the browser, of one profile and service. The
provider work is one step with either outcome; of the Grok cursor only the reads
and writes of the job around it are kept, which can undo a verdict. The store is
one file that every upsert reads whole and later replaces, so a write undoes what
was written since its read, a new job's entry too. Time is not modelled: a running
job that is read may always have been running for too long. A process serves one
request at a time beside its runs, and does not schedule a job again while an
earlier run of that same job goes on in it (the code would, once stale recovery has
cleared `scheduledJobIds`).

## Runs

| Run | Instance | Shows |
|---|---|---|
| `hosts` | two hosts, two independent steps, one operator control, one lease that lapses under a live execution | the runtime implements `RunLifecycle`; cancellations win; outcomes are final; a stale choice is still right; no step fails beside another; live leases are not taken |
| `resume` | one drain, check and rename of a write apart, two controls, one heartbeat, planned or blocked steps | what survives the window: only paused steps resume, success is complete |
| `settles` | one host with one drain and one operator, two chained steps, browser-backed, fairness, one heartbeat, two crashes (or failed activity records), two controls | every run settles or is stalled beside a cancelled step, every lease ends, recovery repeats no outcome |
| `lostcancel` | check and rename apart | violated: a cancelled run comes back |
| `races` | two servers, two starts, a heartbeat, an activity record, no stale record retained, crashes, check and rename apart | a stale record has expired; no accepted heartbeat is undone unless another server's mark overruns its check |
| `dead` | two servers under fairness, one stale record retained | a dead server's runner does not stay active while another serves |
| `gates` | a one-shot run, then a batch of three, all browser-backed; batch limit and rate 1, tenant limit 2 (3 in an hour), recovery of 2, a crash, a cancellation, fairness | the tenant's limits hold, the batch's are exceeded by no more than one pass starts without waiting, the pool is balanced, every queued run ends; the gates implement `TenantQuota` |
| `batchlimit` | a one-shot run, then a batch of two, browser-backed | violated: two of them run under a limit of one |
| `custody` | two processes on one conversation, two tabs, one fault | one fenced lease per conversation; a browser start excludes tabs; an unsettled tab is not reused |
| `freed` | one process, two conversations, one fault, fairness | one tab per process; every operation ends and every lease is released |
| `fence` | one process | violated: a lease is released while its tab is open |
| `jobs` | two jobs in one process or one job with a second server starting; two of: crash, cancellation, failing cleanup | whoever is in the browser is alone there until a lock file is torn; a queued job is forgotten only when its process dies or a write puts back an older reading |

### Bounds

`ExecutionRun`: `MaxLate`, `MaxCrashes`, `MaxBeats` and `MaxControls` limit how
often the environment acts; everything the hosts do is unbounded except that
stranded steps are recovered only up to `MaxRevision` (out of reach but in
`resume`, where overlapping writes can go on for ever). Two steps tell the step
worked on from another one; two executors are every pairwise race; one late
lease makes an execution without a lease beside one with it. `settles` has one
host, since what can keep a run from settling is crashes, controls and steps that
wait for one another, and two controls on two chained steps are what it takes to
stall one; two hosts with crashes are beyond TLC under fairness, and their safety
is proved. Two drains of one host, which share an owner id, are not a run of
their own: the theorems hold for every `HostOf`.

`RunnerRegistry`: `MaxStarts` and `MaxBeats` bound starts and heartbeats, both of
which end one unit before `MaxClock`, so that every record can expire and be
swept; `MaxActivity` bounds activity records. Two starts are one for each server
or a restart after a crash, and one heartbeat is the one that races. Sweeps,
retries and crashes are not bounded. `KeepNewest` is 100 in the server; 0 and 1
are the values at which two servers reach a deletion.

`DrainGates`: children of a batch are browser-backed because the dispatch pool
always gives them an agent and a service. A recovery drain of two takes two of
the batch's three children at once, and leaves one for the next pass; the limits
are the least at which the batch's gates, the tenant's gate and the hour each refuse
someone, and two runs can be under way at all. The excess of the rate is reached
(a bound one lower is violated). After a crash the tenant's limit of two also keeps
the batch's leases below their bound, so the run shows that bound before the crash
and the theorem beyond it. `Minute = 0` and `Hour = 1` put the boundary of
both windows within reach.

`TabCustody`: two tabs are what two operations can open, and with a third the
instance differs only in which of them is lost. One fault is a death of a
process, of a maintenance pass or of the browser, at any step. Suspended
processes need no bound: a process may be silent for as long as it takes.

`MaterializationJobs`: `MaxBreadth` counts processes started and jobs created; at
three it leaves one process with two jobs (the chain, a job behind a hung run) or
two processes with one (the interrupted job of a living server). `Cursored` is
the job of a Grok conversation. `MaxMishaps` counts deaths, requests to cancel
and cleanups that throw. The two sources are interchangeable, which the run uses.

Deadlock is not checked where the system may stop: nobody has to create a run or
a job, start a server or ask for a prompt.

### Fairness

`ExecutionRun`: drains go on (the HTTP server's background drain timer), awaited
file operations finish, executing steps end (executors time out), a crashed host
is restarted, and a lease nobody works under lapses because time passes.
Operators, and the beginning of heartbeats, get no fairness. Two drains of one
host can starve each other by adopting and releasing each other's lease, so
liveness is checked with one drain; the hazard is listed.

`RunnerRegistry`: what a server has begun goes on unless it dies, its timers keep
firing and time passes; nobody has to start, close or crash a server.

`DrainGates`: the background timer fires, a pass and an execution go on, time
passes and a lease without an owner lapses. Creations and cancellations get none.

`TabCustody`: a living process goes on, the maintenance timer fires, leases age,
a prompt and a browser start come to an end (both have timeouts).

## Findings

* `lostcancel`: `writeExecutionRunStoredRecord` compares revisions and renames
  with awaits in between and no lock. With the window closed `CancelWins` holds
  (and is proved); with it open a heartbeat or completion can undo a
  cancellation.
* `batchlimit`: the batch gate counts stored leases, and a browser-backed child
  is started without waiting for its lease. The recovery drain of a restarted
  server is capped by no batch limit and starts two children of a batch that
  allows one. The tenant gate, which reserves, does not have the gap.
* A run can stall (`Stalled` in `EveryRunSettles`): an operator's cancellation that
  comes between a pausing write and the release of its lease cancels the other steps,
  `resumeHumanEscalation` makes the paused step runnable and the run `running`, and
  the dispatch plan finds nothing eligible beside a cancelled step. `settles` shows
  that this is the only way not to settle.
* `fence`: maintenance resolves a profile's endpoint once and releases its lost
  leases as missing when there was none, though a browser may have started since.

Beside these, `jobs` reaches states in which a lock file is torn: `acquire` takes
a file that has no content yet for an abandoned one and removes it, so
`AloneUntilTorn` is as much as holds (and is proved) of the exclusion that plan
0306 asks for. It also reaches jobs that are stored as queued and that nobody
will run: a write by a request that had read the store before puts back `queued`
over what a run has written. `ForgottenOnlyBy` says that beside the death of a
process this is the only way (the scheduler summary reports such jobs as
`stale_queued`).

## Proofs

Every safety property that a passing run checks is also a theorem, for every value
of the constants.

`TypeCorrect`, and what `ExecutionRunWindow` proves, need no assumption beyond
those on the constants. The other theorems of `ExecutionRun` assume
`~CommitWindow`: writes are compare-and-swaps. For every number of hosts, drains,
operators, steps and every dependency relation they show `OneStepAtATime`,
`RunStatusHonest`, `ChoiceStands`, `NoFailureBeside`, `CancelWins`,
`OutcomesAreFinal`, `LiveLeaseIsKept` and the refinement of `RunLifecycle`.

The argument. `WritesAreChecked` says that a record with the file's revision *is*
the file, so a write that lands was derived from the present bundle. What is not
derived from the present is the choice of the step: the executor fixed it
several reads ago and the transitions look at no other step. `ChoiceStands`
closes the gap: as long as the chosen step could run, it still has its turn
(`HasTurn`), because whatever would take the turn away is done only to a step
that has its own turn, and two steps never have it together (the order breaks
ties). Its induction needs the facts collected in `BundleSound`. Each action is
first reduced to an `Effect` (which of the lifecycle's changes it makes, and
that choices are kept or made from the present file); preservation is then
shown once per effect and not once per action.

`LiveLeaseIsKept` needs another invariant, `LeaseOwned`. A write that ends a lease
or replaces it was prepared by a read that found the lease to be the writer's own,
to have lapsed or not to be there (`LeaseGuard`); with compare-and-swaps that is
still so when the write lands, and a lapsed lease stays lapsed. That "its own"
means its host's follows from the names of leases: an id names the actor that made
it, and the finally block and the adoption of a lease only ever take up ids of
their own host.

With the commit window open nothing relates the file to what is read of it, and
choices, cancellations and outcomes are lost. `ExecutionRunWindow` shows what is
not lost: every record that is stored, held or about to be written is coherent
(`SuccessIsComplete`, `OnlyPausedStepsResume`), because each is derived from one
record that its writer tested.

`RegistryTyped` and `StaleMeansExpiredHolds` hold for every number of servers and
with the commit window open or closed. `StaleMeansExpired` alone is not
inductive: an activity record may write back a stale record read earlier, and a
mark writes the time taken when its sweep began. `RegistryInv` therefore asks the
same of what every thread has read, that the time a thread carries is not in the
future, and that a thread about to write back a record has read one. Because
these are memberships in sets that only grow with the clock, one lemma per
building block (`Write`, `Update`, `Reread`) serves all actions.

`HeartbeatNotUndoneHolds` has the same generality. Other servers do not touch the
expiry of a record (they mark it or delete it), so the invariant `InOrder` is about
one server's threads. Main and beat take turns at raising the expiry; the hazard
is the drain's activity record, which writes back the expiry it has read. Where
the drain holds an active record to write, the revision it has read is not ahead
of the stored one, equal revisions mean equal expiries, and once its check has
passed nothing else of its server can be between check and rename: that is the
write queue of the store. Without the queue an activity record undoes a heartbeat.
The proof also found the limit of the property. A mark of *another* server, which
is in another queue, can be renamed over a record that changed since the mark's
check; it takes the revision back, and a read from before can then pass for a
fresh one. This takes more restarts and activity than `races` has, so TLC did not
see it there. The history variable `overrun` remembers such a rename, and the
property is stated up to the first one.

`DrainGatesProofs` shows, for any number of runs, pool members, crashes and
cancellations and any limits:

* `TypeOK`. What is not obvious is that the count of a pass stays below the number
  of runs: the plan is made of two disjoint sets of runs, and every entry of it is
  counted once.
* `TenantLimitHolds` and `HourLimitHolds`. The gate counts leases and reservations,
  the properties speak of executions. `TenantInv` says what stands for a run at
  every point of its way: a reservation no older than a minute up to its start
  (`Reservations`), a lease that nobody lets lapse from there on (`LeasesHeld`).
  Every action but `TenantGate` adds no run to the two sets that are counted; the
  gate sees all of them and adds one. The assumption in `Tick` that an admitted run
  starts within its reservation's minute is what carries the first of these.
* `ImplementsQuota`, the refinement of `TenantQuota`. The limits above say how many
  runs there are; this says how each came in. A run that is admitted, or admitted
  once more after a crash, was let in below both limits by counts that include
  every run under way, due or recently started (`GateMissesNone`); a start uses up
  an admission; a cancelled run that is admitted comes in as nothing; and what a
  crash forgets is at most that a run was due. All other steps are shown to let
  runs leave (`RunsLeave`). A gate that did not count the run itself against the
  hour would keep both limits, since a later start takes the place of the run's
  earlier one, and break this: it could retry a run for ever within one hour.
* `BatchRateHolds` and `BatchLeasesBounded`, for any children. The batch's gates look
  at what is stored, and a browser-backed child is started without waiting for its
  lease, so one pass may admit children the gates cannot see yet. What bounds them
  is the pass itself: it has a budget (`Unseen` is the largest of a drain's that can
  run), and the next pass begins when all it started have settled. `BatchInv` counts
  the children that began within the minute together with those coming to it, and
  those with a lease together with those about to claim one: each of the two
  stays within the limit less one plus the budget, because a gate admits only when
  the store shows it fewer than its limit, and what the store does not show is what
  the pass has started. Before the first
  crash every lease has its execution and the budget of a pass is the batch's limit,
  so the leases keep the limit itself. After it the limit can be exceeded, which
  is what `batchlimit` shows.
* `BalancedDispatch`, by induction on the children in their order: a turn of the loop
  gives one more run to a member with the lowest load, which keeps members that
  were given one within one run of the others. That the least loaded member is found
  from every position of the cursor is `ChoosesLeastLoaded`.

Three lemmas are inductions on numbers: that a set of runs has a list by
creation, that the loop's recursion has a value for every child, and the evenness.
They are put as the least number at which a claim fails (`LeastNumber`, from the
well-foundedness of `<`), which needs no operator as a parameter. `ByCreation` and
`Dispatched` are written so that this is possible: an ascending function in place
of a library's sort, and a recursive function over the children.

`TabCustodyProofs` shows, for any number of processes, operations, tabs and
faults, that a conversation and a process have one fenced lease each, that a
profile control excludes fenced leases, and that no operation adopts or prompts
a tab with an unsettled prompt. The inductive `CustodyInv` adds to these where an
operation can be with what it has read (`Placed`): that only fenced leases have
readers, that an unopened target has no lease, that an idle lease of a safe effect
stands for a settled tab, and that only one operation is between the opening of a
tab and its reservation while the control is held. Most steps only let leases
drift within what `Placed` allows, and share a lemma; those that bind, settle or
release have one of their own.

`MaterializationJobsProofs` shows, for any number of processes and jobs, that
whoever drives or kills the browser is alone in it until a lock file is torn. It
has two halves that do not know of each other: while nothing is torn, whoever has
the lock has the file (`LockInv`, over the steps of `OperationLock`), and whoever
is in the browser holds the lock (`DriversHold`, over the steps of the service).
`ForgottenOnlyByHolds` needs the types alone. A job that becomes forgotten either
lost its taker or became queued without one. Only a run's own step or a death ends
what makes a process a taker, and a run that goes past `start` writes the job in
another state; and a job becomes queued by its creation, whose process chains it in
that step, or by a write from a copy that has it queued.

A leaf cites few enough definitions to be proved in about a second, so that a
slower machine proves it too; a typing or frame fact that the prover would have to
look for in a large context is a step of its own.

Only model-checked: liveness (`EveryRunSettles`, `NoLeaseIsStuck`,
`DeadRunnersGoStale`, `EveryRunEnds`, `EveryLeaseEnds`), which is beyond the prover
together with the fairness it rests on.

## Plan

1. Proofs: what the liveness properties rest on and an invariant can say, such as
   that a run no drain can take has ended, or that a lease whose operation is over
   has somebody who will release it; an abstract custody of tabs and an abstract
   exclusion of jobs for `TabCustody` and `MaterializationJobs` to implement.
2. Lease adjudication: the decision table of `schedulerAuthority` against the
   repair classification, reading the run and the runner at different times; this
   composes `ExecutionRun` and `RunnerRegistry`.
3. The interaction ledger of the browser service, beside `TabCustody`.
4. Archive jobs; the account mirror's scheduler and completion service.

## Not modelled

* Of the history jobs: liveness. With a run that hangs, a job chained behind it
  stays queued although stale recovery replaces the chain (a listed hazard), and a
  cleanup that throws in `runJob` leaves the lock to its living process, so that
  every other job of the profile times out; with two processes the instance is
  beyond TLC under fairness.
* Of the tab leases: expiry at the start of an operation, admission to the
  interaction ledger, exclusive groups, tabs of utilities, live-follow and Grok,
  the operator's commands `releasePreserved`, `reconcileEffect` and
  `abandonUnknownEffect`, and the file lock of the registry (whose own removal of
  a dead owner's lock has a gap like that of the operation lock).
* Hazards without a property: two drains of one host that starve each other, two
  servers of one tenant whose reservations do not know of each other, and the two
  above. A batch whose record is written after its last child can lose its limits
  in a crash between the two.
* Provider automation (`src/src/browser/providers`), the CLI, the HTTP and MCP
  servers, media generation, handoff, teams, configuration and the read-only
  views are I/O, formatting or DOM scripting; what they do to runs, jobs and tabs
  goes through the operations modelled here.
