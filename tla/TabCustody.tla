------------------------------- MODULE TabCustody -------------------------------
(***************************************************************************)
(* Who may drive which ChatGPT tab of a managed browser, under             *)
(* tabConcurrencyMode "tab-affinity".  Operations of several processes     *)
(* share one browser and one tab-lease registry.  An operation adopts its  *)
(* process's tab, or the one its conversation is bound to, or opens a new  *)
(* one (starting the browser if it is absent), submits one prompt and      *)
(* gives the tab back.  A maintenance loop reconciles leases of dead or    *)
(* silent owners and closes expired tabs.  Processes die, the browser      *)
(* exits, and time passes at any point, also while a process is suspended. *)
(*                                                                         *)
(* Every registry operation is one step: it runs under the registry's      *)
(* file lock, and names the revision it read.  In place of a counter, a    *)
(* lease carries the readers of its current revision: a write leaves the   *)
(* writer's copy alone current.  Every reservation is of a target just     *)
(* opened, so a lease is numbered as its target.  One tenant, one service  *)
(* and one managed browser profile.                                        *)
(***************************************************************************)
EXTENDS Naturals

CONSTANTS Procs,          \* operating-system processes that drive the browser
          Ops,            \* prompts asked for
          Proc,           \* the process of an operation
          New,            \* operations that start a conversation
          Conversations,
          Conversation,   \* the conversation an operation continues, or starts
          Keeper,         \* the maintenance loop of the API server
          None,
          NumTabs,        \* bound on the targets ever opened
          MaxFaults       \* bound on deaths of processes and of maintenance passes, and exits of the browser

Tabs == 1..NumTabs
Actors == Ops \cup {Keeper}

ASSUME CustodyAssumption ==
    /\ Proc \in [Ops -> Procs] /\ Conversation \in [Ops -> Conversations] /\ New \subseteq Ops
    /\ Ops \cap Conversations = {} /\ Keeper \notin Ops
    /\ None \notin Procs \cup Ops \cup Conversations \cup Tabs
    /\ {NumTabs, MaxFaults} \subseteq Nat

VARIABLES lease,     \* the registry's lease of every target
          control,   \* the profile control: its owner, and whether its TTL has passed
          tab,       \* the browser's targets
          browser,   \* the managed browser
          act,       \* where every operation and the maintenance pass are
          alive,     \* processes that run
          faults
vars == <<lease, control, tab, browser, act, alive, faults>>

Fenced == {"active", "idle", "retiring", "lost"}
Effects == {"safe", "outcome-unknown"}      \* "safe": none or settled
Steps == {"asked", "queued", "absent", "process", "take", "workload", "reuse", "adopt", "control", "launch",
          "launching", "unlock", "open", "reserve", "discard", "record", "rollback", "undo", "undone",
          "prompt", "submitted", "answered", "settled", "uncertain", "fencing", "ended"}
         \cup {"releasing", "missing", "gone", "clearing"}
         \cup {"rest", "census", "reconcile", "lost", "closed", "retire", "inspect", "release", "preserve"}

\* age: 0 in use, 1 past idleExpiresAt, 2 past absoluteExpiresAt
TypeOK ==
    /\ lease \in [Tabs -> [state : {"absent", "released"} \cup Fenced, age : 0..2,
                           workload : Ops \cup Conversations \cup {None}, owner : Ops \cup {None},
                           bound : Procs \cup {None}, effect : Effects, readers : SUBSET Actors]]
    /\ control \in [owner : Ops \cup {None}, expired : BOOLEAN]
    /\ tab \in [Tabs -> [at : {"unopened", "live", "gone"}, page : Conversations \cup {None},
                         answering : BOOLEAN, unsettled : BOOLEAN]]
    /\ browser \in {"down", "starting", "up"}
    /\ act \in [Actors -> [pc : Steps, endpoint : BOOLEAN, absent : BOOLEAN,
                           todo : SUBSET Tabs, tab : Tabs \cup {None}]]
    /\ alive \subseteq Procs
    /\ faults \in 0..MaxFaults

NoLease == [state |-> "absent", age |-> 0, workload |-> None, owner |-> None,
            bound |-> None, effect |-> "safe", readers |-> {}]
NoTab == [at |-> "unopened", page |-> None, answering |-> FALSE, unsettled |-> FALSE]
Unheld == [owner |-> None, expired |-> FALSE]
At(pc) == [pc |-> pc, endpoint |-> FALSE, absent |-> FALSE, todo |-> {}, tab |-> None]

Init ==
    /\ lease = [t \in Tabs |-> NoLease] /\ tab = [t \in Tabs |-> NoTab]
    /\ control = Unheld /\ browser \in {"down", "up"}
    /\ act = [a \in Actors |-> At(IF a = Keeper THEN "rest" ELSE "asked")]
    /\ alive = Procs /\ faults = 0

-----------------------------------------------------------------------------
(* The registry: what its operations read and write.                       *)

\* the workload an operation reserves a tab for: a new conversation has no id yet
Workload(o) == IF o \in New THEN o ELSE Conversation[o]
IsFenced(t) == lease[t].state \in Fenced
Reads(a, S) == [t \in Tabs |-> IF t \in S THEN [lease[t] EXCEPT !.readers = @ \cup {a}] ELSE lease[t]]
Writes(a, t, l) == [lease EXCEPT ![t] = [l EXCEPT !.readers = {a}]]
Forgotten(L, a, S) == [t \in Tabs |-> IF t \in S THEN [L[t] EXCEPT !.readers = @ \ {a}] ELSE L[t]]

\* expectedRevision: nobody has written the lease since a read it
Current(a, t) == a \in lease[t].readers
Claims(o, t) == Current(o, t) /\ lease[t].owner = o /\ lease[t].state = "active"

\* mutant of OwnsBinding: a tab is the process's own while one of its operations uses it
OwnsByUse(p, t) == lease[t].owner # None /\ Proc[lease[t].owner] = p
OwnsBinding(p, t) == lease[t].bound = p
Adoptable(p, t) == lease[t].bound # None /\ (lease[t].bound = p \/ lease[t].bound \notin alive)
ProcessTabs(p) ==
    LET own == {t \in Tabs : IsFenced(t) /\ OwnsBinding(p, t)}
    IN  IF own # {} THEN own
        ELSE {t \in Tabs : /\ lease[t].state = "idle" /\ lease[t].effect = "safe"
                           /\ Adoptable(p, t)}
WorkloadTabs(w) == {t \in Tabs : IsFenced(t) /\ lease[t].workload = w}

\* mutant of CanAcquireProcess: whatever became of the last prompt
CanAcquireAnyEffect(o, t) ==
    /\ Current(o, t) /\ Adoptable(Proc[o], t) /\ lease[t].state = "idle" /\ lease[t].age = 0
    /\ \A u \in ProcessTabs(Proc[o]) : u # t => ~OwnsBinding(Proc[o], u)
    /\ WorkloadTabs(Workload(o)) \subseteq {t}

CanAcquireProcess(o, t) ==
    LET p == Proc[o] IN
    /\ Current(o, t)
    /\ \A u \in ProcessTabs(p) : u # t => ~OwnsBinding(p, u)
    /\ Adoptable(p, t) /\ lease[t].state = "idle" /\ lease[t].effect = "safe" /\ lease[t].age = 0
    /\ WorkloadTabs(Workload(o)) \subseteq {t}

CanAcquire(o, t) ==
    /\ lease[t].state = "idle" /\ lease[t].effect = "safe" /\ lease[t].age = 0
    /\ lease[t].bound # None => Adoptable(Proc[o], t)
    /\ ProcessTabs(Proc[o]) # {} => t \in ProcessTabs(Proc[o])

\* mutant of CanReserve: beside a profile control
CanReserveUncontrolled(o) ==
    /\ \A t \in Tabs : IsFenced(t) => ~OwnsBinding(Proc[o], t)
    /\ WorkloadTabs(Workload(o)) = {}

CanReserve(o) ==
    /\ control.owner = None \/ control.expired
    /\ \A t \in Tabs : IsFenced(t) => ~OwnsBinding(Proc[o], t)
    /\ WorkloadTabs(Workload(o)) = {}

Acquired(o, t) == [lease[t] EXCEPT !.state = "active", !.owner = o, !.bound = Proc[o]]
Idled(t, effect) == [lease[t] EXCEPT !.state = "idle", !.owner = None, !.effect = effect]
\* mutant of MarkedLost: the tab of a silent owner is free again
MarkedIdle(t) == [lease[t] EXCEPT !.state = "idle", !.owner = None]
MarkedLost(t) == [lease[t] EXCEPT !.state = "lost", !.owner = None]
Released == [NoLease EXCEPT !.state = "released"]
Used(t) == [lease[t] EXCEPT !.age = 0]

-----------------------------------------------------------------------------
(* One operation, up to its prompt.                                        *)

Elsewhere == UNCHANGED <<tab, browser, alive, faults>>
Runs(o, pc) == act[o].pc = pc /\ Proc[o] \in alive
Goto(o, pc) == act' = [act EXCEPT ![o].pc = pc]
Holding(o, pc, t) == act' = [act EXCEPT ![o] = [At(pc) EXCEPT !.tab = t]]
\* the operation is over, by its result or by a throw; the lease stays as L has it
End(o, L) == act' = [act EXCEPT ![o] = At("ended")] /\ lease' = Forgotten(L, o, Tabs)

\* resolveServiceTarget comes first; a Chrome that has no endpoint yet makes it throw
StartOperation(o) ==
    /\ Runs(o, "asked")
    /\ \/ browser = "starting" /\ End(o, lease)
       \/ /\ browser # "starting"
          /\ act' = [act EXCEPT ![o].pc = "queued", ![o].endpoint = (browser = "up")]
          /\ UNCHANGED lease
    /\ UNCHANGED control /\ Elsewhere

Acquiring(o) == act[o].pc \notin {"asked", "queued", "prompt", "submitted", "answered", "settled",
                                  "uncertain", "fencing", "ended"}

\* withProcessTabAcquisition, then the census that may find the browser absent
EnterAcquisition(o) ==
    /\ Runs(o, "queued")
    /\ \A q \in Ops : Proc[q] = Proc[o] => ~Acquiring(q)
    /\ LET absent == ~act[o].endpoint /\ browser = "down" IN
       act' = [act EXCEPT ![o].absent = absent, ![o].pc = IF absent THEN "absent" ELSE "process"]
    /\ UNCHANGED <<lease, control>> /\ Elsewhere

\* leases S, just listed, are released one by one as missing, then comes AfterReleasing
IsNext(a, t) == t \in act[a].todo /\ \A u \in act[a].todo : t <= u
AfterReleasing == [releasing |-> "process", missing |-> "workload", gone |-> "open", clearing |-> "control"]
ReleaseAll(o, pc, S) ==
    /\ act' = [act EXCEPT ![o].pc = IF S = {} THEN AfterReleasing[pc] ELSE pc, ![o].todo = S]
    /\ lease' = Reads(o, S)

ListAbsent(o) ==
    /\ Runs(o, "absent")
    /\ ReleaseAll(o, "releasing", {t \in Tabs : lease[t].state \in {"idle", "lost"} /\ lease[t].effect = "safe"})
    /\ UNCHANGED control /\ Elsewhere

LoseMissing(o, t) ==
    /\ Proc[o] \in alive /\ act[o].pc \in DOMAIN AfterReleasing /\ act[o].tab = None
    /\ IsNext(o, t)
    /\ \/ ~Current(o, t) /\ End(o, lease)
       \/ Current(o, t) /\ lease[t].state = "lost" /\ act[o].pc # "releasing" /\ End(o, lease)
       \/ /\ Current(o, t) /\ (lease[t].state = "lost" => act[o].pc = "releasing")
          /\ act' = [act EXCEPT ![o].tab = t]
          /\ lease' = IF lease[t].state = "lost" THEN lease ELSE Writes(o, t, MarkedLost(t))
    /\ UNCHANGED control /\ Elsewhere

ReleaseMissing(o) ==
    LET t == act[o].tab
        rest == act[o].todo \ {t}
    IN  /\ Proc[o] \in alive /\ act[o].pc \in DOMAIN AfterReleasing /\ t # None
        /\ \/ ~Current(o, t) /\ End(o, lease)
           \/ /\ Current(o, t)
              /\ act' = [act EXCEPT ![o].tab = None, ![o].todo = rest,
                                    ![o].pc = IF rest = {} THEN AfterReleasing[@] ELSE @]
              /\ lease' = [lease EXCEPT ![t] = Released]
        /\ UNCHANGED control /\ Elsewhere

\* findByProcess, and a look at the target it names
FindProcessTab(o) ==
    /\ Runs(o, "process")
    /\ \/ ProcessTabs(Proc[o]) = {} /\ Goto(o, "workload") /\ UNCHANGED lease
       \/ \E t \in ProcessTabs(Proc[o]) :
             \/ ~(act[o].endpoint /\ browser = "up") /\ End(o, lease)
             \/ /\ act[o].endpoint /\ browser = "up" /\ tab[t].at # "live"
                /\ ReleaseAll(o, "missing", {t})
             \/ /\ act[o].endpoint /\ browser = "up" /\ tab[t].at = "live"
                /\ act' = [act EXCEPT ![o].pc = "take", ![o].tab = t]
                /\ lease' = Reads(o, {t})
    /\ UNCHANGED control /\ Elsewhere

TakeProcessTab(o) ==
    LET t == act[o].tab IN
    /\ Runs(o, "take")
    /\ \/ ~CanAcquireProcess(o, t) /\ End(o, lease)
       \/ /\ CanAcquireProcess(o, t)
          /\ lease' = Writes(o, t, [Acquired(o, t) EXCEPT !.workload = Workload(o)])
          /\ Holding(o, "adopt", t)
    /\ UNCHANGED control /\ Elsewhere

\* acquireVerifiedExistingLease up to its registry write; without a browser the
\* idle leases, and those of dead owners, are listed for release before the start
FindWorkloadTab(o) ==
    LET found == WorkloadTabs(Workload(o))
        reachable == act[o].endpoint /\ browser = "up" /\ o \notin New
    IN  /\ Runs(o, "workload")
        /\ \/ found = {} /\ act[o].endpoint /\ Goto(o, "open") /\ UNCHANGED lease
           \/ /\ found = {} /\ ~act[o].endpoint
              /\ ReleaseAll(o, "clearing",
                    {t \in Tabs : /\ act[o].absent /\ lease[t].effect = "safe"
                                  /\ \/ lease[t].state = "idle"
                                     \/ lease[t].state = "active" /\ Proc[lease[t].owner] \notin alive})
           \/ found # {} /\ ~reachable /\ End(o, lease)
           \/ \E t \in found :
                 /\ reachable
                 /\ \/ tab[t].at # "live" /\ ReleaseAll(o, "gone", {t})
                    \/ /\ tab[t].at = "live" /\ tab[t].page # Conversation[o]
                       /\ End(o, IF lease[t].state = "lost" THEN lease ELSE Writes(o, t, MarkedLost(t)))
                    \/ /\ tab[t].at = "live" /\ tab[t].page = Conversation[o]
                       /\ Goto(o, "reuse") /\ UNCHANGED lease
        /\ UNCHANGED control /\ Elsewhere

\* acquire names the workload, not the lease that was looked at, and findByProcess
\* one of the tabs the process could have instead
TakeWorkloadTab(o) ==
    LET found == WorkloadTabs(Workload(o)) IN
    /\ Runs(o, "reuse")
    /\ \/ found = {} /\ End(o, lease)
       \/ \E t \in found :
             \/ ~(CanAcquire(o, t) /\ ProcessTabs(Proc[o]) \subseteq {t}) /\ End(o, lease)
             \/ /\ CanAcquire(o, t)
                /\ lease' = Writes(o, t, Acquired(o, t))
                /\ Holding(o, "adopt", t)
    /\ UNCHANGED control /\ Elsewhere

\* recordTargetAction: refused to a claim that is no longer the lease's, or too old
Records(o) == Claims(o, act[o].tab) /\ lease[act[o].tab].age < 2

AdoptTab(o) ==
    /\ Runs(o, "adopt")
    /\ \/ ~Records(o) /\ End(o, lease)
       \/ Records(o) /\ lease' = Writes(o, act[o].tab, Used(act[o].tab)) /\ Goto(o, "prompt")
    /\ UNCHANGED control /\ Elsewhere

-----------------------------------------------------------------------------
(* Starting the browser and opening a tab.                                 *)

ControlActive == control.owner # None /\ ~control.expired
Pruned == IF control.expired THEN Unheld ELSE control

AcquireControl(o) ==
    LET free == ~ControlActive /\ \A t \in Tabs : ~IsFenced(t) IN
    /\ Runs(o, "control")
    /\ \/ ~free /\ control' = Pruned /\ End(o, lease)
       \/ free /\ control' = [owner |-> o, expired |-> FALSE] /\ Goto(o, "launch") /\ UNCHANGED lease
    /\ Elsewhere

\* startBrowser: attaches to a browser that has come up, refuses beside one that is starting
LaunchBrowser(o) ==
    /\ Runs(o, "launch")
    /\ browser' = IF browser = "down" THEN "starting" ELSE browser
    /\ act' = [act EXCEPT ![o].pc = IF browser = "down" THEN "launching" ELSE "unlock",
                          ![o].endpoint = (browser = "up")]
    /\ UNCHANGED <<lease, control, tab, alive, faults>>

AwaitBrowser(o) ==
    /\ Runs(o, "launching") /\ browser # "starting"
    /\ act' = [act EXCEPT ![o].pc = "unlock", ![o].endpoint = (browser = "up")]
    /\ UNCHANGED <<lease, control>> /\ Elsewhere

ReleaseControl(o) ==
    LET released == control.owner = o IN
    /\ Runs(o, "unlock")
    /\ control' = IF released THEN Unheld ELSE control
    /\ \/ released /\ act[o].endpoint /\ Goto(o, "open") /\ UNCHANGED lease
       \/ ~(released /\ act[o].endpoint) /\ End(o, lease)
    /\ Elsewhere

Unopened == {t \in Tabs : tab[t].at = "unopened"}
Opened(o) == [at |-> "live", page |-> IF o \in New THEN None ELSE Conversation[o],
              answering |-> FALSE, unsettled |-> FALSE]
Closed == [NoTab EXCEPT !.at = "gone"]

OpenTab(o) ==
    /\ Runs(o, "open")
    /\ \/ /\ browser # "up" \/ Unopened = {}
          /\ End(o, lease) /\ UNCHANGED tab
       \/ /\ browser = "up" /\ UNCHANGED lease
          /\ \E t \in Unopened :
                /\ \A u \in Unopened : t <= u
                /\ tab' = [tab EXCEPT ![t] = Opened(o)]
                /\ Holding(o, "reserve", t)
    /\ UNCHANGED <<control, browser, alive, faults>>

Reserve(o) ==
    /\ Runs(o, "reserve")
    /\ control' = Pruned
    /\ \/ ~CanReserve(o) /\ Goto(o, "discard") /\ UNCHANGED lease
       \/ /\ CanReserve(o)
          /\ lease' = Writes(o, act[o].tab, [NoLease EXCEPT !.state = "active", !.owner = o,
                                                !.workload = Workload(o), !.bound = Proc[o]])
          /\ Goto(o, "record")
    /\ Elsewhere

Close(t) == tab' = IF browser = "up" THEN [tab EXCEPT ![t] = Closed] ELSE tab

DiscardTab(o) ==
    /\ Runs(o, "discard")
    /\ Close(act[o].tab) /\ End(o, lease)
    /\ UNCHANGED <<control, browser, alive, faults>>

RecordCreation(o) ==
    /\ Runs(o, "record")
    /\ \/ Records(o) /\ lease' = Writes(o, act[o].tab, Used(act[o].tab)) /\ Goto(o, "prompt")
       \/ ~Records(o) /\ Goto(o, "rollback") /\ UNCHANGED lease
    /\ UNCHANGED control /\ Elsewhere

\* rollbackCreatedTarget: fence, close, release
RollbackFence(o) ==
    LET t == act[o].tab IN
    /\ Runs(o, "rollback")
    /\ \/ ~Current(o, t) /\ End(o, lease)
       \/ Current(o, t) /\ lease' = Writes(o, t, MarkedLost(t)) /\ Goto(o, "undo")
    /\ UNCHANGED control /\ Elsewhere

RollbackClose(o) ==
    /\ Runs(o, "undo")
    /\ Close(act[o].tab)
    /\ \/ browser # "up" /\ End(o, lease)
       \/ browser = "up" /\ Goto(o, "undone") /\ UNCHANGED lease
    /\ UNCHANGED <<control, browser, alive, faults>>

RollbackRelease(o) ==
    LET t == act[o].tab IN
    /\ Runs(o, "undone")
    /\ End(o, IF Current(o, t) THEN [lease EXCEPT ![t] = Released] ELSE lease)
    /\ UNCHANGED control /\ Elsewhere

-----------------------------------------------------------------------------
(* The prompt: executeAdmittedChatgptConversation.                         *)

\* assertOwnedLease precedes every provider action; the page is brought to the conversation
SubmitPrompt(o) ==
    LET t == act[o].tab
        owned == Claims(o, t) /\ browser = "up" /\ tab[t].at = "live"
    IN  /\ Runs(o, "prompt")
        /\ \/ ~owned /\ Goto(o, "uncertain") /\ UNCHANGED tab
           \/ /\ owned
              /\ tab' = [tab EXCEPT ![t].page = Conversation[o], ![t].answering = TRUE, ![t].unsettled = TRUE]
              /\ Goto(o, "submitted")
        /\ UNCHANGED <<lease, control, browser, alive, faults>>

\* a failure known to precede any effect, before or after the page has moved
FailBeforeEffect(o) ==
    LET t == act[o].tab IN
    /\ Runs(o, "prompt")
    /\ \/ UNCHANGED tab
       \/ tab[t].at = "live" /\ tab' = [tab EXCEPT ![t].page = Conversation[o]]
    /\ End(o, IF Claims(o, t) THEN Writes(o, t, Idled(t, "safe")) ELSE lease)
    /\ UNCHANGED <<control, browser, alive, faults>>

\* the renewal timer, while the prompt runs
Renew(o) ==
    LET t == act[o].tab IN
    /\ Proc[o] \in alive /\ act[o].pc \in {"prompt", "submitted"}
    /\ \/ ~Records(o) /\ Goto(o, "uncertain") /\ UNCHANGED lease
       \/ Records(o) /\ lease' = Writes(o, t, Used(t)) /\ UNCHANGED act
    /\ UNCHANGED control /\ Elsewhere

ReadAnswer(o) ==
    LET t == act[o].tab IN
    /\ Runs(o, "submitted") /\ tab[t].at = "live" /\ ~tab[t].answering
    /\ Goto(o, "answered")
    /\ UNCHANGED <<lease, control>> /\ Elsewhere

LoseAnswer(o) ==
    /\ Runs(o, "submitted") /\ Goto(o, "uncertain")
    /\ UNCHANGED <<lease, control>> /\ Elsewhere

\* mutant of SettleLease: binds without looking for another tab of the conversation
SettleBlindly(o) ==
    LET t == act[o].tab IN
    /\ Runs(o, "answered")
    /\ \/ ~Records(o) /\ Goto(o, "uncertain") /\ UNCHANGED <<lease, tab>>
       \/ /\ Records(o)
          /\ lease' = Writes(o, t, [Used(t) EXCEPT !.workload = Conversation[o]])
          /\ tab' = [tab EXCEPT ![t].unsettled = FALSE]
          /\ Goto(o, "settled")
    /\ UNCHANGED <<control, browser, alive, faults>>

\* settleSuccessfulLease: binds a new conversation, or records the use
SettleLease(o) ==
    LET t == act[o].tab
        settles == /\ Records(o)
                   /\ o \in New => WorkloadTabs(Conversation[o]) \subseteq {t}
    IN  /\ Runs(o, "answered")
        /\ \/ ~settles /\ Goto(o, "uncertain") /\ UNCHANGED <<lease, tab>>
           \/ /\ settles
              /\ lease' = Writes(o, t, IF o \in New THEN [lease[t] EXCEPT !.workload = Conversation[o]]
                                       ELSE Used(t))
              /\ tab' = [tab EXCEPT ![t].unsettled = FALSE]
              /\ Goto(o, "settled")
        /\ UNCHANGED <<control, browser, alive, faults>>

GiveBack(o) ==
    LET t == act[o].tab IN
    /\ Runs(o, "settled")
    /\ End(o, IF Claims(o, t) THEN Writes(o, t, Idled(t, "safe")) ELSE lease)
    /\ UNCHANGED control /\ Elsewhere

\* the ledger refuses the settlement of a success
LedgerRefuses(o) ==
    /\ Runs(o, "settled") /\ Goto(o, "uncertain")
    /\ UNCHANGED <<lease, control>> /\ Elsewhere

\* settleFailedExecution and fenceLeaseAfterSettlementFailure: mark the effect, then idle
MarkUncertain(o) ==
    LET t == act[o].tab IN
    /\ Runs(o, "uncertain")
    /\ \/ ~Records(o) /\ End(o, lease)
       \/ /\ Records(o)
          /\ lease' = Writes(o, t, [Used(t) EXCEPT !.effect = "outcome-unknown"])
          /\ Goto(o, "fencing")
    /\ UNCHANGED control /\ Elsewhere

IdleUncertain(o) ==
    LET t == act[o].tab IN
    /\ Runs(o, "fencing")
    /\ End(o, IF Claims(o, t) THEN Writes(o, t, Idled(t, "outcome-unknown")) ELSE lease)
    /\ UNCHANGED control /\ Elsewhere

-----------------------------------------------------------------------------
(* The maintenance pass: runConfiguredChatgptTabMaintenance.               *)

KeeperAt(pc) == act[Keeper].pc = pc
InLoop(pc, t) == KeeperAt(pc) /\ IsNext(Keeper, t)
Kept == UNCHANGED <<control, tab, browser, alive, faults>>
\* the loop goes on with the next lease, or stays with this one at pc
NextLease(pc, t) == act' = [act EXCEPT ![Keeper].pc = pc, ![Keeper].todo = @ \ {t}, ![Keeper].tab = None]
With(pc, t) == act' = [act EXCEPT ![Keeper].pc = pc, ![Keeper].tab = t]
List(pc, S) ==
    LET L == {t \in Tabs : lease[t].state \in S} IN
    act' = [act EXCEPT ![Keeper].pc = pc, ![Keeper].todo = L] /\ lease' = Reads(Keeper, L)
\* what is read of a lease is not used beyond its turn
WriteLast(t, l) == lease' = Forgotten(IF Current(Keeper, t) THEN [lease EXCEPT ![t] = [l EXCEPT !.readers = {}]]
                                      ELSE lease, Keeper, {t})
Skip(t) == lease' = Forgotten(lease, Keeper, {t})

BeginPass ==
    /\ KeeperAt("rest") /\ browser # "starting"
    /\ act' = [act EXCEPT ![Keeper].pc = "census", ![Keeper].endpoint = (browser = "up")]
    /\ UNCHANGED lease /\ Kept

EndPass == act' = [act EXCEPT ![Keeper] = At("rest")] /\ lease' = Forgotten(lease, Keeper, Tabs)
\* a DevTools call fails
Unreachable == act[Keeper].endpoint /\ browser # "up"

Census ==
    /\ KeeperAt("census")
    /\ \/ Unreachable /\ EndPass
       \/ ~Unreachable /\ List("reconcile", {"active", "idle"})
    /\ Kept

\* reconcileStaleTabLeases
Stale(t) ==
    \/ /\ lease[t].state = "idle" /\ lease[t].effect = "safe"
       /\ lease[t].bound # None /\ lease[t].bound \notin alive
    \/ /\ lease[t].state = "active"
       /\ Proc[lease[t].owner] \notin alive \/ lease[t].age > 0

Reconcile(t) ==
    /\ InLoop("reconcile", t) /\ NextLease("reconcile", t)
    /\ \/ Stale(t) /\ WriteLast(t, MarkedLost(t))
       \/ ~Stale(t) /\ Skip(t)
    /\ Kept

ListLost ==
    /\ KeeperAt("reconcile") /\ act[Keeper].todo = {}
    /\ List("lost", {"lost"})
    /\ Kept

\* a lost lease goes with its target, which is closed once expired and inactive:
\* nobody can submit to it between the probe and the close
VisitLost(t) ==
    LET missing == ~act[Keeper].endpoint \/ tab[t].at # "live"
        closes == ~missing /\ lease[t].age > 0 /\ ~tab[t].answering
    IN  /\ InLoop("lost", t)
        /\ \/ (Unreachable \/ (~missing /\ ~closes)) /\ NextLease("lost", t) /\ Skip(t) /\ UNCHANGED tab
           \/ ~Unreachable /\ missing /\ WriteLast(t, Released) /\ NextLease("lost", t) /\ UNCHANGED tab
           \/ ~Unreachable /\ closes /\ Close(t) /\ With("closed", t) /\ UNCHANGED lease
        /\ UNCHANGED <<control, browser, alive, faults>>

ReleaseClosed ==
    LET t == act[Keeper].tab IN
    /\ KeeperAt("closed") /\ WriteLast(t, Released) /\ NextLease("lost", t)
    /\ Kept

\* mutant of ListExpired: a retirement that was broken off is not taken up again
ListIdle ==
    /\ KeeperAt("lost") /\ act[Keeper].todo = {}
    /\ List("retire", {"idle"})
    /\ Kept

ListExpired ==
    /\ KeeperAt("lost") /\ act[Keeper].todo = {}
    /\ List("retire", {"idle", "retiring"})
    /\ Kept

\* retireExpiredTabLeases; what a pass left behind retiring is taken up again
BeginRetirement(t) ==
    LET begins == Current(Keeper, t) /\ lease[t].state = "idle" /\ lease[t].age > 0
        resumes == lease[t].state = "retiring"
    IN  /\ InLoop("retire", t)
        /\ \/ ~begins /\ ~resumes /\ NextLease("retire", t) /\ Skip(t)
           \/ begins /\ With("inspect", t) /\ lease' = Writes(Keeper, t, [lease[t] EXCEPT !.state = "retiring"])
           \/ resumes /\ With("inspect", t) /\ UNCHANGED lease
        /\ Kept

CloseExpired ==
    LET t == act[Keeper].tab
        missing == ~act[Keeper].endpoint \/ tab[t].at # "live"
    IN  /\ KeeperAt("inspect")
        /\ \/ (Unreachable \/ (~missing /\ tab[t].answering)) /\ With("preserve", t) /\ UNCHANGED tab
           \/ ~Unreachable /\ missing /\ With("release", t) /\ UNCHANGED tab
           \/ ~Unreachable /\ ~missing /\ ~tab[t].answering /\ Close(t) /\ With("release", t)
        /\ UNCHANGED <<lease, control, browser, alive, faults>>

FinishRetirement ==
    LET t == act[Keeper].tab IN
    /\ \/ KeeperAt("release") /\ WriteLast(t, Released)
       \/ KeeperAt("preserve") /\ WriteLast(t, [lease[t] EXCEPT !.state = "lost"])
    /\ NextLease("retire", t)
    /\ Kept

FinishPass == KeeperAt("retire") /\ act[Keeper].todo = {} /\ EndPass /\ Kept

-----------------------------------------------------------------------------
(* Time, the browser, and crashes.                                         *)

\* mutant of Age: time without a bound
AgeForEver(t) ==
    /\ IsFenced(t)
    /\ lease' = [lease EXCEPT ![t].age = @ + 1]
    /\ UNCHANGED <<control, act>> /\ Elsewhere

\* idleExpiresAt passes, then absoluteExpiresAt, which matters to a claim
Age(t) ==
    /\ IsFenced(t) /\ lease[t].age < IF lease[t].state = "active" THEN 2 ELSE 1
    /\ lease' = [lease EXCEPT ![t].age = @ + 1]
    /\ UNCHANGED <<control, act>> /\ Elsewhere

ControlExpires ==
    /\ ControlActive /\ control' = [control EXCEPT !.expired = TRUE]
    /\ UNCHANGED <<lease, act>> /\ Elsewhere

BrowserStarts ==
    /\ browser = "starting" /\ browser' \in {"up", "down"}
    /\ UNCHANGED <<lease, control, tab, act, alive, faults>>

BrowserExits ==
    /\ browser = "up" /\ faults < MaxFaults
    /\ browser' = "down" /\ faults' = faults + 1
    /\ tab' = [t \in Tabs |-> IF tab[t].at = "live" THEN Closed ELSE tab[t]]
    /\ UNCHANGED <<lease, control, act, alive>>

AnswerEnds(t) ==
    /\ tab[t].answering /\ tab' = [tab EXCEPT ![t].answering = FALSE]
    /\ UNCHANGED <<lease, control, browser, act, alive, faults>>

Dies(A) ==
    /\ faults < MaxFaults /\ faults' = faults + 1
    /\ lease' = [t \in Tabs |-> [lease[t] EXCEPT !.readers = @ \ A]]
    /\ UNCHANGED <<control, tab, browser>>

\* a restarted process has another id: for the registry it is another process
CrashProcess(p) ==
    LET mine == {o \in Ops : Proc[o] = p} IN
    /\ p \in alive /\ alive' = alive \ {p}
    /\ Dies(mine)
    /\ act' = [a \in Actors |-> IF a \in mine THEN At("ended") ELSE act[a]]

\* the API server dies; the one that follows it begins a pass of its own
CrashKeeper ==
    /\ ~KeeperAt("rest") /\ act' = [act EXCEPT ![Keeper] = At("rest")]
    /\ Dies({Keeper}) /\ UNCHANGED alive

OpStep(o) ==
    \/ StartOperation(o) \/ EnterAcquisition(o) \/ ListAbsent(o)
    \/ \E t \in Tabs : LoseMissing(o, t)
    \/ ReleaseMissing(o) \/ FindProcessTab(o) \/ TakeProcessTab(o)
    \/ FindWorkloadTab(o) \/ TakeWorkloadTab(o) \/ AdoptTab(o)
    \/ AcquireControl(o) \/ LaunchBrowser(o) \/ AwaitBrowser(o) \/ ReleaseControl(o)
    \/ OpenTab(o) \/ Reserve(o) \/ DiscardTab(o) \/ RecordCreation(o)
    \/ RollbackFence(o) \/ RollbackClose(o) \/ RollbackRelease(o)
    \/ SubmitPrompt(o) \/ FailBeforeEffect(o) \/ ReadAnswer(o) \/ LoseAnswer(o)
    \/ SettleLease(o) \/ GiveBack(o) \/ LedgerRefuses(o) \/ MarkUncertain(o) \/ IdleUncertain(o)

KeeperStep ==
    \/ BeginPass \/ Census \/ ListLost \/ ReleaseClosed \/ ListExpired \/ CloseExpired \/ FinishRetirement \/ FinishPass
    \/ \E t \in Tabs : Reconcile(t) \/ VisitLost(t) \/ BeginRetirement(t)

Next ==
    \/ \E o \in Ops : OpStep(o) \/ Renew(o)
    \/ KeeperStep
    \/ \E t \in Tabs : Age(t) \/ AnswerEnds(t)
    \/ ControlExpires \/ BrowserStarts \/ BrowserExits
    \/ \E p \in Procs : CrashProcess(p)
    \/ CrashKeeper

Spec == Init /\ [][Next]_vars

(* A process that lives goes on with its operations (a suspended one may   *)
(* miss any number of renewals), the maintenance timer keeps firing, time  *)
(* passes, a generation and a browser start come to an end.                *)
FairSpec ==
    /\ Spec
    /\ \A o \in Ops : WF_vars(OpStep(o))
    /\ WF_vars(KeeperStep)
    /\ \A t \in Tabs : WF_vars(Age(t)) /\ WF_vars(AnswerEnds(t))
    /\ WF_vars(BrowserStarts)

-----------------------------------------------------------------------------
(* Properties.                                                             *)

\* At most one fenced lease is bound to a process: reserve, acquire and
\* acquireProcess each look before they bind, and a lost tab still counts.
OneTabPerProcess ==
    \A t, u \in Tabs :
        IsFenced(t) /\ IsFenced(u) /\ lease[t].bound = lease[u].bound /\ lease[t].bound # None => t = u

\* At most one fenced lease is bound to a conversation, though a new conversation
\* learns its id late.  This is about the bindings, not about what the tabs show:
\* before the new conversation is bound, another process may open and prompt it in
\* a tab of its own, and then the second binding is the one that is refused.
OneLeasePerConversation ==
    \A t, u \in Tabs :
        IsFenced(t) /\ IsFenced(u) /\ lease[t].workload = lease[u].workload => t = u

\* "Browser startup and other profile-wide control cannot begin while any
\* fenced tab lease exists, and tab reservation cannot begin while profile
\* control is active."
ControlExcludesLeases == ControlActive => \A t \in Tabs : ~IsFenced(t)

\* An operation never takes over a tab whose last prompt may have had an effect
\* that nobody settled, whoever crashed, fell silent or failed since.
NeverReusesUnsettled ==
    \A o \in Ops : act[o].pc \in {"adopt", "prompt"} => ~tab[act[o].tab].unsettled

\* No operation hangs and no lease is held for ever: the tab of a crashed, silent
\* or failed owner is given back, through reconciliation, retirement and their restarts.
EveryLeaseEnds == <>[](/\ \A o \in Ops : act[o].pc = "ended"
                       /\ \A t \in Tabs : ~IsFenced(t))

\* "Release the fence only when the exact target is proven absent."
FenceOutlivesTarget ==
    [][\A t \in Tabs : IsFenced(t) /\ lease'[t].state = "released" => tab[t].at # "live"]_vars
=============================================================================
