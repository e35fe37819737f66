---------------------------- MODULE TabCustodyProofs ----------------------------
(***************************************************************************)
(* Type correctness and the four safety invariants of TabCustody, for any  *)
(* number of processes, operations, conversations, tabs and faults.        *)
(*                                                                         *)
(* Who reads a lease matters only while it is fenced, so every write that  *)
(* names a revision is to a fenced lease.  From there most steps are easy: *)
(* they let leases drift towards their end and bind nothing.  The others,  *)
(* which open, reserve, adopt, prompt and settle a tab, have a lemma each. *)
(* The kernel says where an operation stands with the tab it names: that   *)
(* an idle lease of a safe effect, or one about to be reserved, stands for *)
(* a tab without an unsettled prompt is what makes it fit to be taken.     *)
(***************************************************************************)
EXTENDS TabCustody, TLAPS

LeaseRecords ==
    [state : {"absent", "released"} \cup Fenced, age : 0..2,
     workload : Ops \cup Conversations \cup {None}, owner : Ops \cup {None},
     bound : Procs \cup {None}, effect : Effects, readers : SUBSET Actors]
Leases == [Tabs -> LeaseRecords]
TabRecords == [at : {"unopened", "live", "gone"}, page : Conversations \cup {None},
               answering : BOOLEAN, unsettled : BOOLEAN]
ActRecords == [pc : Steps, endpoint : BOOLEAN, absent : BOOLEAN, todo : SUBSET Tabs, tab : Tabs \cup {None}]
Acts == [Actors -> ActRecords]

\* The parts of the type invariant.
LEMMA TypeParts ==
    TypeOK <=> /\ lease \in Leases /\ act \in Acts /\ tab \in [Tabs -> TabRecords]
               /\ control \in [owner : Ops \cup {None}, expired : BOOLEAN]
               /\ browser \in {"down", "starting", "up"}
               /\ alive \subseteq Procs /\ faults \in 0..MaxFaults
BY DEF TypeOK, Leases, LeaseRecords, Acts, ActRecords, TabRecords

\* Listing, writing and forgetting leases keep the registry well formed; a write to
\* a tab that does not exist changes nothing.
LEMMA ReadsTyped ==
    ASSUME lease \in Leases, NEW a \in Actors, NEW S
    PROVE  Reads(a, S) \in Leases
<1>1. \A l \in LeaseRecords : [l EXCEPT !.readers = @ \cup {a}] \in LeaseRecords
  BY DEF LeaseRecords
<1>2. QED BY <1>1 DEF Reads, Leases

LEMMA ForgottenTyped ==
    ASSUME NEW L \in Leases, NEW a, NEW S
    PROVE  Forgotten(L, a, S) \in Leases
<1>1. \A l \in LeaseRecords : [l EXCEPT !.readers = @ \ {a}] \in LeaseRecords
  BY DEF LeaseRecords
<1>2. QED BY <1>1 DEF Forgotten, Leases

LEMMA WritesTyped ==
    ASSUME lease \in Leases, NEW a \in Actors, NEW t, NEW l, t \in Tabs => l \in LeaseRecords
    PROVE  Writes(a, t, l) \in Leases
<1>1. \A r \in LeaseRecords : [r EXCEPT !.readers = {a}] \in LeaseRecords
  BY DEF LeaseRecords
<1>2. CASE t \in Tabs
  BY <1>1, <1>2 DEF Writes, Leases
<1>3. CASE t \notin Tabs
  BY <1>3 DEF Writes, Leases
<1>4. QED BY <1>2, <1>3

LEMMA PutTyped ==
    ASSUME lease \in Leases, NEW t, NEW l, t \in Tabs => l \in LeaseRecords
    PROVE  [lease EXCEPT ![t] = l] \in Leases
BY DEF Leases

\* What the maintenance pass writes last is well formed.
LEMMA WriteLastTyped ==
    ASSUME lease \in Leases, NEW t, NEW l, t \in Tabs => l \in LeaseRecords, WriteLast(t, l)
    PROVE  lease' \in Leases
<1>1. \A r \in LeaseRecords : [r EXCEPT !.readers = {}] \in LeaseRecords
  BY DEF LeaseRecords
<1>2. [lease EXCEPT ![t] = [l EXCEPT !.readers = {}]] \in Leases
  BY <1>1, PutTyped
<1>3. QED BY <1>2, ForgottenTyped DEF WriteLast

\* The leases that the registry's operations write.
LEMMA RecordsTyped ==
    ASSUME lease \in Leases, CustodyAssumption, NEW t \in Tabs
    PROVE  /\ \A o \in Ops : Acquired(o, t) \in LeaseRecords
           /\ \A e \in Effects : Idled(t, e) \in LeaseRecords
           /\ MarkedLost(t) \in LeaseRecords /\ Used(t) \in LeaseRecords
           /\ Released \in LeaseRecords /\ NoLease \in LeaseRecords
<1>1. lease[t] \in LeaseRecords BY DEF Leases
<1>2. NoLease \in LeaseRecords BY DEF NoLease, LeaseRecords, Effects
<1>3. Released \in LeaseRecords BY <1>2 DEF Released, LeaseRecords
<1>4. \A o \in Ops : Proc[o] \in Procs BY DEF CustodyAssumption
<1>5. \A o \in Ops : Acquired(o, t) \in LeaseRecords
  BY <1>1, <1>4 DEF Acquired, LeaseRecords, Fenced
<1>6. \A e \in Effects : Idled(t, e) \in LeaseRecords
  BY <1>1 DEF Idled, LeaseRecords, Fenced
<1>7. MarkedLost(t) \in LeaseRecords BY <1>1 DEF MarkedLost, LeaseRecords, Fenced
<1>8. Used(t) \in LeaseRecords BY <1>1 DEF Used, LeaseRecords
<1>9. QED BY <1>2, <1>3, <1>5, <1>6, <1>7, <1>8

LEMMA AtTyped == \A s \in Steps : At(s) \in ActRecords /\ \A t \in Tabs : [At(s) EXCEPT !.tab = t] \in ActRecords
BY DEF At, ActRecords

\* The ways in which an operation moves on are well formed.
LEMMA EndTyped ==
    ASSUME TypeOK, NEW o \in Ops, NEW L \in Leases, End(o, L)
    PROVE  act' \in Acts /\ lease' \in Leases
<1>1. act' = [act EXCEPT ![o] = At("ended")] /\ act \in Acts
  BY TypeParts DEF End
<1>2. At("ended") \in ActRecords
  BY AtTyped DEF Steps
<1>3. act' \in Acts
  BY <1>1, <1>2 DEF Acts
<1>4. lease' \in Leases
  BY ForgottenTyped DEF End
<1>5. QED BY <1>3, <1>4

LEMMA GotoTyped ==
    ASSUME act \in Acts, NEW o, NEW s \in Steps, Goto(o, s)
    PROVE  act' \in Acts
BY DEF Goto, Acts, ActRecords

LEMMA HoldingTyped ==
    ASSUME act \in Acts, NEW o, NEW s \in Steps, NEW t \in Tabs \cup {None}, Holding(o, s, t)
    PROVE  act' \in Acts
BY AtTyped DEF Holding, Acts, ActRecords, At

\* A step of an operation keeps the types of the leases and of the control flow.
LEMMA OpTyped ==
    ASSUME CustodyAssumption, TypeOK, NEW o \in Ops, OpStep(o) \/ Renew(o)
    PROVE  lease' \in Leases /\ act' \in Acts
<1> USE CustodyAssumption DEF Steps
<1>0. lease \in Leases /\ act \in Acts /\ o \in Actors /\ act[o] \in ActRecords
  BY TypeParts DEF Actors, Acts
<1>a. ASSUME NEW L \in Leases, End(o, L) PROVE lease' \in Leases /\ act' \in Acts
  BY <1>a, EndTyped
<1>g. ASSUME NEW s \in Steps, Goto(o, s) PROVE act' \in Acts
  BY <1>0, <1>g, GotoTyped
<1>h. ASSUME NEW s \in Steps, NEW t \in Tabs \cup {None}, Holding(o, s, t) PROVE act' \in Acts
  BY <1>0, <1>h, HoldingTyped
<1>e. ASSUME NEW r \in ActRecords, act' = [act EXCEPT ![o] = r] PROVE act' \in Acts
  BY <1>0, <1>e DEF Acts
<1>w. ASSUME NEW t, NEW l, t \in Tabs => l \in LeaseRecords PROVE Writes(o, t, l) \in Leases
  BY <1>0, <1>w, WritesTyped
<1>p. ASSUME NEW t PROVE [lease EXCEPT ![t] = Released] \in Leases
  BY <1>0, RecordsTyped, PutTyped
<1>r. ASSUME NEW t \in Tabs
      PROVE  /\ Acquired(o, t) \in LeaseRecords /\ Used(t) \in LeaseRecords /\ MarkedLost(t) \in LeaseRecords
             /\ Idled(t, "safe") \in LeaseRecords /\ Idled(t, "outcome-unknown") \in LeaseRecords
  BY <1>0, RecordsTyped DEF Effects
<1>k. Workload(o) \in Ops \cup Conversations \cup {None}
  BY DEF Workload, CustodyAssumption
<1>n. act[o].tab \in Tabs \cup {None}
  BY <1>0 DEF ActRecords
<1>1. CASE StartOperation(o)
  <2>1. CASE End(o, lease) BY <2>1, <1>0, <1>a
  <2>2. CASE act' = [act EXCEPT ![o].pc = "queued", ![o].endpoint = (browser = "up")] /\ UNCHANGED lease
    <3>1. "queued" \in Steps OBVIOUS
    <3> HIDE DEF Steps
    <3>2. [act[o] EXCEPT !.pc = "queued", !.endpoint = (browser = "up")] \in ActRecords
      BY <3>1, <1>0 DEF ActRecords
    <3>3. QED BY <2>2, <3>2, <1>0 DEF Acts
  <2>3. QED BY <1>1, <2>1, <2>2 DEF StartOperation
<1>2. CASE EnterAcquisition(o)
  <2>1. /\ lease' = lease
        /\ \E b \in BOOLEAN : act' = [act EXCEPT ![o].absent = b, ![o].pc = IF b THEN "absent" ELSE "process"]
    BY <1>2 DEF EnterAcquisition
  <2>2. PICK b \in BOOLEAN : act' = [act EXCEPT ![o].absent = b, ![o].pc = IF b THEN "absent" ELSE "process"]
    BY <2>1
  <2>3. [act[o] EXCEPT !.absent = b, !.pc = IF b THEN "absent" ELSE "process"] \in ActRecords
    <3>1. (IF b THEN "absent" ELSE "process") \in Steps OBVIOUS
    <3> HIDE DEF Steps
    <3>2. QED BY <3>1, <1>0 DEF ActRecords
  <2>4. QED BY <2>1, <2>2, <2>3, <1>0 DEF Acts
<1>s. ASSUME NEW p \in DOMAIN AfterReleasing PROVE p \in Steps /\ AfterReleasing[p] \in Steps
  BY <1>s DEF AfterReleasing
<1>l. ASSUME NEW p \in DOMAIN AfterReleasing, NEW S \in SUBSET Tabs, ReleaseAll(o, p, S)
      PROVE  lease' \in Leases /\ act' \in Acts
  <2>1. lease' \in Leases BY <1>l, <1>0, ReadsTyped DEF ReleaseAll
  <2>2. \E q \in Steps : act' = [act EXCEPT ![o].pc = q, ![o].todo = S]
    BY <1>l, <1>s DEF ReleaseAll
  <2>3. PICK q \in Steps : act' = [act EXCEPT ![o].pc = q, ![o].todo = S]
    BY <2>2
  <2> HIDE DEF Steps
  <2>4. [act[o] EXCEPT !.pc = q, !.todo = S] \in ActRecords BY <1>0 DEF ActRecords
  <2>5. QED BY <2>1, <2>3, <2>4, <1>0 DEF Acts
<1>d. {"releasing", "missing", "gone", "clearing"} \subseteq DOMAIN AfterReleasing
  BY DEF AfterReleasing
<1>3. CASE ListAbsent(o)
  BY <1>3, <1>d, <1>l DEF ListAbsent
<1>4. ASSUME NEW t \in Tabs, LoseMissing(o, t) PROVE lease' \in Leases /\ act' \in Acts
  <2>1. CASE End(o, lease) BY <2>1, <1>0, <1>a
  <2>2. CASE /\ act' = [act EXCEPT ![o].tab = t]
             /\ lease' = IF lease[t].state = "lost" THEN lease ELSE Writes(o, t, MarkedLost(t))
    <3> HIDE DEF Steps
    <3>1. [act[o] EXCEPT !.tab = t] \in ActRecords BY <1>0 DEF ActRecords
    <3>2. act' \in Acts BY <2>2, <3>1, <1>0 DEF Acts
    <3>3. lease' \in Leases BY <2>2, <1>0, <1>r, <1>w
    <3>4. QED BY <3>2, <3>3
  <2>3. QED BY <1>4, <2>1, <2>2 DEF LoseMissing
<1>5. CASE ReleaseMissing(o)
  <2> DEFINE left == act[o].todo \ {act[o].tab}
  <2>1. CASE End(o, lease) BY <2>1, <1>0, <1>a
  <2>2. CASE /\ lease' = [lease EXCEPT ![act[o].tab] = Released]
             /\ act' = [act EXCEPT ![o].tab = None, ![o].todo = left,
                                   ![o].pc = IF left = {} THEN AfterReleasing[@] ELSE @]
    <3>1. act[o].pc \in DOMAIN AfterReleasing BY <1>5 DEF ReleaseMissing
    <3>2. AfterReleasing[act[o].pc] \in Steps /\ act[o].pc \in Steps BY <3>1, <1>s
    <3>3. left \in SUBSET Tabs BY <1>0 DEF ActRecords
    <3> HIDE DEF left, Steps
    <3>4. [act[o] EXCEPT !.tab = None, !.todo = left, !.pc = IF left = {} THEN AfterReleasing[@] ELSE @] \in ActRecords
      BY <3>2, <3>3, <1>0 DEF ActRecords
    <3>5. act' \in Acts BY <2>2, <3>4, <1>0 DEF Acts
    <3>6. QED BY <2>2, <3>5, <1>p
  <2>3. QED BY <1>5, <2>1, <2>2 DEF ReleaseMissing
<1>t. ProcessTabs(Proc[o]) \subseteq Tabs /\ \A w : WorkloadTabs(w) \subseteq Tabs
  BY DEF ProcessTabs, WorkloadTabs
<1>6. CASE FindProcessTab(o)
  <2>1. CASE Goto(o, "workload") /\ UNCHANGED lease BY <2>1, <1>0, <1>g
  <2>2. CASE End(o, lease) BY <2>2, <1>0, <1>a
  <2>3. CASE \E t \in Tabs : ReleaseAll(o, "missing", {t}) BY <2>3, <1>d, <1>l
  <2>4. CASE \E t \in Tabs : act' = [act EXCEPT ![o].pc = "take", ![o].tab = t] /\ lease' = Reads(o, {t})
    <3>1. PICK t \in Tabs : act' = [act EXCEPT ![o].pc = "take", ![o].tab = t] /\ lease' = Reads(o, {t})
      BY <2>4
    <3>2. [act[o] EXCEPT !.pc = "take", !.tab = t] \in ActRecords
      <4>1. "take" \in Steps OBVIOUS
      <4> HIDE DEF Steps
      <4>2. QED BY <4>1, <1>0 DEF ActRecords
    <3>3. QED BY <3>1, <3>2, <1>0, ReadsTyped DEF Acts
  <2>5. QED BY <1>6, <1>t, <2>1, <2>2, <2>3, <2>4 DEF FindProcessTab
<1>7. CASE TakeProcessTab(o)
  <2> DEFINE t == act[o].tab
  <2>1. CASE End(o, lease) BY <2>1, <1>0, <1>a
  <2>2. CASE /\ lease' = Writes(o, t, [Acquired(o, t) EXCEPT !.workload = Workload(o)])
             /\ Holding(o, "adopt", t)
    <3>1. t \in Tabs => [Acquired(o, t) EXCEPT !.workload = Workload(o)] \in LeaseRecords
      BY <1>r, <1>k DEF LeaseRecords
    <3>2. QED BY <2>2, <3>1, <1>w, <1>h, <1>n
  <2>3. QED BY <1>7, <2>1, <2>2 DEF TakeProcessTab
<1>8. CASE FindWorkloadTab(o)
  <2>1. CASE End(o, lease) BY <2>1, <1>0, <1>a
  <2>2. CASE \E s \in Steps : Goto(o, s) /\ UNCHANGED lease BY <2>2, <1>0, <1>g
  <2>3. CASE \E S \in SUBSET Tabs : ReleaseAll(o, "clearing", S) BY <2>3, <1>d, <1>l
  <2>4. CASE \E t \in Tabs : ReleaseAll(o, "gone", {t}) BY <2>4, <1>d, <1>l
  <2>5. CASE \E t \in Tabs : End(o, IF lease[t].state = "lost" THEN lease ELSE Writes(o, t, MarkedLost(t)))
    <3>1. PICK t \in Tabs : End(o, IF lease[t].state = "lost" THEN lease ELSE Writes(o, t, MarkedLost(t)))
      BY <2>5
    <3>2. (IF lease[t].state = "lost" THEN lease ELSE Writes(o, t, MarkedLost(t))) \in Leases
      BY <1>0, <1>w, <1>r
    <3>3. QED BY <3>1, <3>2, <1>a
  <2>6. QED BY <1>8, <1>t, <2>1, <2>2, <2>3, <2>4, <2>5 DEF FindWorkloadTab
<1>9. CASE TakeWorkloadTab(o)
  <2>1. CASE End(o, lease) BY <2>1, <1>0, <1>a
  <2>2. CASE \E t \in Tabs : lease' = Writes(o, t, Acquired(o, t)) /\ Holding(o, "adopt", t)
    BY <2>2, <1>w, <1>r, <1>h
  <2>3. QED BY <1>9, <1>t, <2>1, <2>2 DEF TakeWorkloadTab
<1>10. CASE AdoptTab(o) \/ RecordCreation(o)
  BY <1>10, <1>0, <1>a, <1>w, <1>r, <1>g DEF AdoptTab, RecordCreation
<1>11. CASE AcquireControl(o) \/ ReleaseControl(o)
  BY <1>11, <1>0, <1>a, <1>g DEF AcquireControl, ReleaseControl
<1>12. CASE LaunchBrowser(o) \/ AwaitBrowser(o)
  <2>1. /\ lease' = lease
        /\ \E s \in Steps, b \in BOOLEAN : act' = [act EXCEPT ![o].pc = s, ![o].endpoint = b]
    BY <1>12 DEF LaunchBrowser, AwaitBrowser, Elsewhere
  <2>2. PICK s \in Steps, b \in BOOLEAN : act' = [act EXCEPT ![o].pc = s, ![o].endpoint = b]
    BY <2>1
  <2> HIDE DEF Steps
  <2>3. [act[o] EXCEPT !.pc = s, !.endpoint = b] \in ActRecords BY <1>0 DEF ActRecords
  <2>4. QED BY <2>1, <2>2, <2>3, <1>0 DEF Acts
<1>13. CASE OpenTab(o)
  BY <1>13, <1>0, <1>a, <1>h DEF OpenTab, Unopened
<1>14. CASE Reserve(o)
  <2>1. [NoLease EXCEPT !.state = "active", !.owner = o, !.workload = Workload(o), !.bound = Proc[o]] \in LeaseRecords
    <3>1. NoLease \in LeaseRecords BY DEF NoLease, LeaseRecords, Fenced, Effects
    <3>2. Proc[o] \in Procs BY DEF CustodyAssumption
    <3>3. QED BY <3>1, <3>2, <1>k DEF LeaseRecords, Fenced
  <2>2. QED BY <1>14, <2>1, <1>0, <1>w, <1>g DEF Reserve
<1>15. CASE DiscardTab(o)
  BY <1>15, <1>0, <1>a DEF DiscardTab
<1>16. CASE RollbackFence(o) \/ RollbackClose(o)
  BY <1>16, <1>0, <1>a, <1>w, <1>r, <1>g DEF RollbackFence, RollbackClose
<1>17. CASE RollbackRelease(o)
  <2>1. (IF Current(o, act[o].tab) THEN [lease EXCEPT ![act[o].tab] = Released] ELSE lease) \in Leases
    BY <1>0, <1>p
  <2>2. QED BY <1>17, <2>1, <1>a DEF RollbackRelease
<1>18. CASE SubmitPrompt(o) \/ ReadAnswer(o) \/ LoseAnswer(o) \/ LedgerRefuses(o)
  BY <1>18, <1>0, <1>g DEF SubmitPrompt, ReadAnswer, LoseAnswer, LedgerRefuses
<1>i. ASSUME NEW e \in Effects
      PROVE  (IF Claims(o, act[o].tab) THEN Writes(o, act[o].tab, Idled(act[o].tab, e)) ELSE lease) \in Leases
  <2>1. act[o].tab \in Tabs => Idled(act[o].tab, e) \in LeaseRecords BY <1>0, RecordsTyped
  <2>2. QED BY <2>1, <1>0, <1>w
<1>19. CASE FailBeforeEffect(o) \/ GiveBack(o)
  BY <1>19, <1>i, <1>a DEF FailBeforeEffect, GiveBack, Effects
<1>20. CASE IdleUncertain(o)
  BY <1>20, <1>i, <1>a DEF IdleUncertain, Effects
<1>21. CASE SettleLease(o)
  <2> DEFINE t == act[o].tab
             l == IF o \in New THEN [lease[t] EXCEPT !.workload = Conversation[o]] ELSE Used(t)
  <2>1. t \in Tabs => l \in LeaseRecords
    <3>1. t \in Tabs => lease[t] \in LeaseRecords BY <1>0 DEF Leases
    <3>2. Conversation[o] \in Conversations BY DEF CustodyAssumption
    <3>3. QED BY <3>1, <3>2, <1>r DEF LeaseRecords
  <2>2. CASE Goto(o, "uncertain") /\ UNCHANGED <<lease, tab>> BY <2>2, <1>0, <1>g
  <2>3. CASE lease' = Writes(o, t, l) /\ Goto(o, "settled") BY <2>1, <2>3, <1>w, <1>g
  <2>4. QED BY <1>21, <2>2, <2>3 DEF SettleLease
<1>22. CASE MarkUncertain(o)
  <2> DEFINE t == act[o].tab
             l == [Used(t) EXCEPT !.effect = "outcome-unknown"]
  <2>1. t \in Tabs => l \in LeaseRecords BY <1>r DEF LeaseRecords, Effects
  <2>2. CASE End(o, lease) BY <2>2, <1>0, <1>a
  <2>3. CASE lease' = Writes(o, t, l) /\ Goto(o, "fencing") BY <2>1, <2>3, <1>w, <1>g
  <2>4. QED BY <1>22, <2>2, <2>3 DEF MarkUncertain
<1>23. CASE Renew(o)
  BY <1>23, <1>0, <1>g, <1>w, <1>r DEF Renew
<1>24. QED
  BY <1>1, <1>2, <1>3, <1>4, <1>5, <1>6, <1>7, <1>8, <1>9, <1>10, <1>11, <1>12, <1>13, <1>14, <1>15, <1>16,
     <1>17, <1>18, <1>19, <1>20, <1>21, <1>22, <1>23 DEF OpStep

\* A step of the maintenance pass keeps them too.
LEMMA KeeperTyped ==
    ASSUME CustodyAssumption, TypeOK, KeeperStep
    PROVE  lease' \in Leases /\ act' \in Acts
<1> USE CustodyAssumption DEF Steps
<1>0. lease \in Leases /\ act \in Acts /\ Keeper \in Actors /\ act[Keeper] \in ActRecords
  BY TypeParts DEF Actors, Acts
<1>n. ASSUME NEW p \in Steps, NEW t, NextLease(p, t) PROVE act' \in Acts
  <2> HIDE DEF Steps
  <2>1. [act[Keeper] EXCEPT !.pc = p, !.todo = @ \ {t}, !.tab = None] \in ActRecords BY <1>0 DEF ActRecords
  <2>2. QED BY <1>n, <2>1, <1>0 DEF NextLease, Acts
<1>w. ASSUME NEW p \in Steps, NEW t \in Tabs \cup {None}, With(p, t) PROVE act' \in Acts
  <2> HIDE DEF Steps
  <2>1. [act[Keeper] EXCEPT !.pc = p, !.tab = t] \in ActRecords BY <1>0 DEF ActRecords
  <2>2. QED BY <1>w, <2>1, <1>0 DEF With, Acts
<1>l. ASSUME NEW p \in Steps, NEW S, List(p, S) PROVE lease' \in Leases /\ act' \in Acts
  <2> DEFINE L == {t \in Tabs : lease[t].state \in S}
  <2> HIDE DEF Steps
  <2>1. [act[Keeper] EXCEPT !.pc = p, !.todo = L] \in ActRecords BY <1>0 DEF ActRecords
  <2>2. QED BY <1>l, <2>1, <1>0, ReadsTyped DEF List, Acts
<1>e. ASSUME EndPass PROVE lease' \in Leases /\ act' \in Acts
  BY <1>e, <1>0, AtTyped, ForgottenTyped DEF EndPass, Acts
<1>s. ASSUME NEW t, Skip(t) PROVE lease' \in Leases
  BY <1>s, <1>0, ForgottenTyped DEF Skip
<1>t. act[Keeper].tab \in Tabs \cup {None} BY <1>0 DEF ActRecords
<1>r. ASSUME NEW t PROVE t \in Tabs => MarkedLost(t) \in LeaseRecords /\ Released \in LeaseRecords
  BY <1>0, RecordsTyped
<1>m. ASSUME NEW t, WriteLast(t, MarkedLost(t)) \/ WriteLast(t, Released) PROVE lease' \in Leases
  BY <1>0, <1>m, <1>r, WriteLastTyped
<1>o. ASSUME NEW t \in Tabs PROVE /\ [lease[t] EXCEPT !.state = "lost"] \in LeaseRecords
                                  /\ [lease[t] EXCEPT !.state = "retiring"] \in LeaseRecords
  BY <1>0 DEF Leases, LeaseRecords, Fenced
<1>1. CASE BeginPass
  <2>0. "census" \in Steps OBVIOUS
  <2> HIDE DEF Steps
  <2>1. [act[Keeper] EXCEPT !.pc = "census", !.endpoint = (browser = "up")] \in ActRecords BY <2>0, <1>0 DEF ActRecords
  <2>2. QED BY <1>1, <2>1, <1>0 DEF BeginPass, Acts
<1>2. CASE Census \/ ListLost \/ ListExpired \/ FinishPass
  BY <1>2, <1>l, <1>e DEF Census, ListLost, ListExpired, FinishPass
<1>3. CASE ReleaseClosed
  BY <1>3, <1>m, <1>n DEF ReleaseClosed
<1>4. CASE CloseExpired
  BY <1>4, <1>0, <1>t, <1>w DEF CloseExpired
<1>5. CASE FinishRetirement
  <2> DEFINE t == act[Keeper].tab
  <2>1. ASSUME WriteLast(t, [lease[t] EXCEPT !.state = "lost"]) PROVE lease' \in Leases
    BY <2>1, <1>0, <1>o, WriteLastTyped
  <2>2. QED BY <1>5, <2>1, <1>m, <1>n DEF FinishRetirement
<1>6. ASSUME NEW t \in Tabs, Reconcile(t) PROVE lease' \in Leases /\ act' \in Acts
  BY <1>6, <1>m, <1>n, <1>s DEF Reconcile
<1>7. ASSUME NEW t \in Tabs, VisitLost(t) PROVE lease' \in Leases /\ act' \in Acts
  BY <1>7, <1>0, <1>m, <1>n, <1>s, <1>w DEF VisitLost
<1>8. ASSUME NEW t \in Tabs, BeginRetirement(t) PROVE lease' \in Leases /\ act' \in Acts
  <2>1. Writes(Keeper, t, [lease[t] EXCEPT !.state = "retiring"]) \in Leases BY <1>0, <1>o, WritesTyped
  <2>2. QED BY <1>8, <2>1, <1>0, <1>n, <1>s, <1>w DEF BeginRetirement
<1>9. QED BY <1>1, <1>2, <1>3, <1>4, <1>5, <1>6, <1>7, <1>8 DEF KeeperStep

\* Every step keeps the type invariant.
LEMMA StepTyped ==
    ASSUME CustodyAssumption, TypeOK, [Next]_vars
    PROVE  TypeOK'
<1> USE CustodyAssumption
<1>0. /\ lease \in Leases /\ act \in Acts /\ tab \in [Tabs -> TabRecords]
      /\ control \in [owner : Ops \cup {None}, expired : BOOLEAN]
      /\ browser \in {"down", "starting", "up"} /\ alive \subseteq Procs /\ faults \in 0..MaxFaults
  BY TypeParts
<1>s. SUFFICES /\ lease' \in Leases /\ act' \in Acts /\ tab' \in [Tabs -> TabRecords]
               /\ control' \in [owner : Ops \cup {None}, expired : BOOLEAN]
               /\ browser' \in {"down", "starting", "up"}
               /\ alive' \subseteq Procs /\ faults' \in 0..MaxFaults
  BY DEF TypeOK, Leases, LeaseRecords, Acts, ActRecords, TabRecords
<1>c. ASSUME NEW t, Close(t) PROVE tab' \in [Tabs -> TabRecords]
  <2>1. Closed \in TabRecords BY DEF Closed, NoTab, TabRecords
  <2>2. QED BY <1>c, <1>0, <2>1 DEF Close
<1>1. ASSUME NEW o \in Ops, OpStep(o) \/ Renew(o)
      PROVE  /\ tab' \in [Tabs -> TabRecords]
             /\ control' \in [owner : Ops \cup {None}, expired : BOOLEAN]
             /\ browser' \in {"down", "starting", "up"} /\ alive' \subseteq Procs /\ faults' \in 0..MaxFaults
  <2>1. CASE \/ StartOperation(o) \/ EnterAcquisition(o) \/ ListAbsent(o) \/ (\E t \in Tabs : LoseMissing(o, t))
             \/ ReleaseMissing(o) \/ FindProcessTab(o) \/ TakeProcessTab(o) \/ FindWorkloadTab(o)
             \/ TakeWorkloadTab(o) \/ AdoptTab(o) \/ RecordCreation(o) \/ RollbackFence(o)
             \/ RollbackRelease(o) \/ ReadAnswer(o) \/ LoseAnswer(o) \/ GiveBack(o) \/ LedgerRefuses(o)
             \/ MarkUncertain(o) \/ IdleUncertain(o) \/ Renew(o) \/ AwaitBrowser(o)
    <3>1. UNCHANGED <<tab, control, browser, alive, faults>>
      BY <2>1 DEF StartOperation, EnterAcquisition, ListAbsent, LoseMissing, ReleaseMissing, FindProcessTab,
           TakeProcessTab, FindWorkloadTab, TakeWorkloadTab, AdoptTab, RecordCreation, RollbackFence,
           RollbackRelease, ReadAnswer, LoseAnswer, GiveBack, LedgerRefuses, MarkUncertain, IdleUncertain,
           Renew, AwaitBrowser, Elsewhere
    <3>2. QED BY <3>1, <1>0
  <2>2. CASE AcquireControl(o) \/ ReleaseControl(o) \/ Reserve(o)
    <3>1. /\ UNCHANGED <<tab, browser, alive, faults>>
          /\ control' \in {control, Unheld, [owner |-> o, expired |-> FALSE]}
      BY <2>2 DEF AcquireControl, ReleaseControl, Reserve, Pruned, Elsewhere
    <3>2. /\ Unheld \in [owner : Ops \cup {None}, expired : BOOLEAN]
          /\ [owner |-> o, expired |-> FALSE] \in [owner : Ops \cup {None}, expired : BOOLEAN]
      BY DEF Unheld
    <3>3. QED BY <3>1, <3>2, <1>0
  <2>3. CASE LaunchBrowser(o)
    BY <2>3, <1>0 DEF LaunchBrowser
  <2>4. CASE OpenTab(o)
    <3>1. Opened(o) \in TabRecords BY DEF Opened, TabRecords, CustodyAssumption
    <3>2. QED BY <2>4, <3>1, <1>0 DEF OpenTab
  <2>5. CASE DiscardTab(o) \/ RollbackClose(o)
    BY <2>5, <1>0, <1>c DEF DiscardTab, RollbackClose
  <2>6. CASE SubmitPrompt(o) \/ FailBeforeEffect(o) \/ SettleLease(o)
    <3>1. Conversation[o] \in Conversations BY DEF CustodyAssumption
    <3> DEFINE t == act[o].tab
    <3>a. \A r \in TabRecords :
             /\ [r EXCEPT !.page = Conversation[o], !.answering = TRUE, !.unsettled = TRUE] \in TabRecords
             /\ [r EXCEPT !.page = Conversation[o]] \in TabRecords
             /\ [r EXCEPT !.unsettled = FALSE] \in TabRecords
      BY <3>1 DEF TabRecords
    <3>b. \/ tab' = tab
          \/ tab' = [tab EXCEPT ![t].page = Conversation[o], ![t].answering = TRUE, ![t].unsettled = TRUE]
          \/ tab' = [tab EXCEPT ![t].page = Conversation[o]]
          \/ tab' = [tab EXCEPT ![t].unsettled = FALSE]
      BY <2>6 DEF SubmitPrompt, FailBeforeEffect, SettleLease
    <3>2. tab' \in [Tabs -> TabRecords]
      <4>1. CASE t \in Tabs
        <5>1. tab[t] \in TabRecords BY <4>1, <1>0
        <5>2. \/ tab' = tab
              \/ tab' = [tab EXCEPT ![t] = [tab[t] EXCEPT !.page = Conversation[o], !.answering = TRUE,
                                                          !.unsettled = TRUE]]
              \/ tab' = [tab EXCEPT ![t] = [tab[t] EXCEPT !.page = Conversation[o]]]
              \/ tab' = [tab EXCEPT ![t] = [tab[t] EXCEPT !.unsettled = FALSE]]
          BY <3>b, <4>1
        <5>3. tab' = tab \/ \E r \in TabRecords : tab' = [tab EXCEPT ![t] = r] BY <3>a, <5>1, <5>2
        <5>4. QED BY <5>3, <4>1, <1>0
      <4>2. CASE t \notin Tabs BY <4>2, <3>b, <1>0
      <4>3. QED BY <4>1, <4>2
    <3>3. QED BY <2>6, <3>2, <1>0 DEF SubmitPrompt, FailBeforeEffect, SettleLease
  <2>7. QED BY <1>1, <2>1, <2>2, <2>3, <2>4, <2>5, <2>6 DEF OpStep
<1>2. ASSUME KeeperStep
      PROVE  /\ tab' \in [Tabs -> TabRecords]
             /\ control' \in [owner : Ops \cup {None}, expired : BOOLEAN]
             /\ browser' \in {"down", "starting", "up"} /\ alive' \subseteq Procs /\ faults' \in 0..MaxFaults
  <2>1. UNCHANGED <<control, browser, alive, faults>>
    BY <1>2 DEF KeeperStep, BeginPass, Census, ListLost, ReleaseClosed, ListExpired, CloseExpired,
         FinishRetirement, FinishPass, Reconcile, VisitLost, BeginRetirement, Kept
  <2>2. UNCHANGED tab \/ \E t : Close(t)
    BY <1>2 DEF KeeperStep, BeginPass, Census, ListLost, ReleaseClosed, ListExpired, CloseExpired,
         FinishRetirement, FinishPass, Reconcile, VisitLost, BeginRetirement, Kept
  <2>3. QED BY <2>1, <2>2, <1>0, <1>c
<1>3. ASSUME NEW t \in Tabs, Age(t)
      PROVE  /\ lease' \in Leases /\ act' \in Acts /\ tab' \in [Tabs -> TabRecords]
             /\ control' \in [owner : Ops \cup {None}, expired : BOOLEAN]
             /\ browser' \in {"down", "starting", "up"} /\ alive' \subseteq Procs /\ faults' \in 0..MaxFaults
  <2>1. lease[t] \in LeaseRecords BY <1>0 DEF Leases
  <2>2. lease[t].age < 2 BY <1>3, <2>1 DEF Age, LeaseRecords
  <2>3. [lease[t] EXCEPT !.age = @ + 1] \in LeaseRecords BY <2>1, <2>2 DEF LeaseRecords
  <2>4. lease' \in Leases BY <1>3, <2>3, <1>0 DEF Age, Leases
  <2>5. QED BY <2>4, <1>3, <1>0 DEF Age, Elsewhere
<1>4. ASSUME NEW t \in Tabs, AnswerEnds(t)
      PROVE  /\ lease' \in Leases /\ act' \in Acts /\ tab' \in [Tabs -> TabRecords]
             /\ control' \in [owner : Ops \cup {None}, expired : BOOLEAN]
             /\ browser' \in {"down", "starting", "up"} /\ alive' \subseteq Procs /\ faults' \in 0..MaxFaults
  <2>a. \A r \in TabRecords : [r EXCEPT !.answering = FALSE] \in TabRecords BY DEF TabRecords
  <2>1. [tab[t] EXCEPT !.answering = FALSE] \in TabRecords BY <1>0, <2>a
  <2>2. tab' \in [Tabs -> TabRecords] BY <1>4, <2>1, <1>0 DEF AnswerEnds
  <2>3. QED BY <2>2, <1>4, <1>0 DEF AnswerEnds
<1>5. CASE ControlExpires \/ BrowserStarts
  BY <1>5, <1>0 DEF ControlExpires, BrowserStarts, Elsewhere
<1>f. ASSUME faults < MaxFaults, faults' = faults + 1 PROVE faults' \in 0..MaxFaults
  BY <1>f, <1>0 DEF CustodyAssumption
<1>6. CASE BrowserExits
  <2>1. Closed \in TabRecords BY DEF Closed, NoTab, TabRecords
  <2>2. tab' \in [Tabs -> TabRecords] BY <1>6, <1>0, <2>1 DEF BrowserExits
  <2>3. QED BY <2>2, <1>6, <1>0, <1>f DEF BrowserExits
<1>d. ASSUME NEW A, Dies(A)
      PROVE  lease' \in Leases /\ faults' \in 0..MaxFaults /\ UNCHANGED <<control, tab, browser>>
  <2>1. \A l \in LeaseRecords : [l EXCEPT !.readers = @ \ A] \in LeaseRecords BY DEF LeaseRecords
  <2>2. lease' \in Leases BY <1>d, <2>1, <1>0 DEF Dies, Leases
  <2>3. QED BY <1>d, <2>2, <1>f DEF Dies
<1>7. ASSUME NEW p \in Procs, CrashProcess(p)
      PROVE  /\ lease' \in Leases /\ act' \in Acts /\ tab' \in [Tabs -> TabRecords]
             /\ control' \in [owner : Ops \cup {None}, expired : BOOLEAN]
             /\ browser' \in {"down", "starting", "up"} /\ alive' \subseteq Procs /\ faults' \in 0..MaxFaults
  <2>1. At("ended") \in ActRecords BY AtTyped DEF Steps
  <2>2. act' \in Acts BY <1>7, <2>1, <1>0 DEF CrashProcess, Acts
  <2>3. QED BY <1>7, <2>2, <1>0, <1>d DEF CrashProcess
<1>8. CASE CrashKeeper
  <2>1. At("rest") \in ActRecords BY AtTyped DEF Steps
  <2>2. act' \in Acts BY <1>8, <2>1, <1>0 DEF CrashKeeper, Acts
  <2>3. QED BY <1>8, <2>2, <1>0, <1>d DEF CrashKeeper
<1>9. CASE UNCHANGED vars
  BY <1>9, <1>0 DEF vars
<1>10. CASE \E o \in Ops : OpStep(o) \/ Renew(o) BY <1>10, <1>1, OpTyped
<1>11. CASE KeeperStep BY <1>11, <1>2, KeeperTyped
<1>12. CASE (\E t \in Tabs : Age(t) \/ AnswerEnds(t)) \/ (\E p \in Procs : CrashProcess(p))
  BY <1>12, <1>3, <1>4, <1>7
<1>13. QED BY <1>5, <1>6, <1>8, <1>9, <1>10, <1>11, <1>12 DEF Next

-----------------------------------------------------------------------------
(* The inductive invariant.                                                *)

Named == {"take", "reserve", "record", "adopt", "prompt", "submitted", "answered", "settled"}
Unprompted == {"record", "adopt", "prompt", "settled"}

\* Where an operation names a tab it is one; the tab it is about to reserve has no lease
\* yet; the one it holds has no prompt of unknown outcome, and is its own unless taken away.
Placed(o) ==
    LET t == act[o].tab IN
    /\ act[o].pc \in Named => t \in Tabs
    /\ act[o].pc = "reserve" => lease[t].state = "absent" /\ tab[t].at # "unopened" /\ ~tab[t].unsettled
    /\ act[o].pc \in Unprompted =>
          /\ ~tab[t].unsettled
          /\ \/ lease[t].state = "active" /\ lease[t].owner = o
             \/ lease[t].state \in {"lost", "released"}

OneReserver ==
    \A o, q \in Ops : act[o].pc = "reserve" /\ act[q].pc = "reserve" /\ act[o].tab = act[q].tab => o = q
ReadersFenced == \A t \in Tabs : lease[t].readers # {} => IsFenced(t)
UnopenedAbsent == \A t \in Tabs : tab[t].at = "unopened" => lease[t].state = "absent" /\ ~tab[t].unsettled
IdleSettled == \A t \in Tabs : lease[t].state = "idle" /\ lease[t].effect = "safe" => ~tab[t].unsettled

Kernel ==
    /\ ReadersFenced /\ UnopenedAbsent /\ IdleSettled /\ OneReserver /\ ControlExcludesLeases
    /\ \A o \in Ops : Placed(o)
CustodyInv == TypeOK /\ Kernel /\ OneLeasePerConversation /\ OneTabPerProcess

\* What a step of a may make of the lease of t: everything but the two steps
\* that nobody may take, an idle lease that is safe without a settlement, and
\* an absent or ended one that comes to life without a reservation.
Drifts(a, t, l) ==
    /\ l.readers # {} => l.state \in Fenced
    /\ \/ /\ l.state = lease[t].state /\ l.owner = lease[t].owner
          /\ l.effect = lease[t].effect \/ l.effect # "safe"
       \/ IsFenced(t) /\ l.state \in {"lost", "released"}
       \/ lease[t].state = "idle" /\ l.state \in {"retiring", "active"}
       \/ /\ lease[t].state = "active" /\ lease[t].owner = a /\ l.state = "idle"
          /\ l.effect = "safe" => ~tab[t].unsettled
       \/ lease[t].state = "absent" /\ l.state = "active" /\ a \in Ops /\ act[a].pc = "reserve" /\ act[a].tab = t
Drifting(a, L) == \A t \in Tabs : Drifts(a, t, L[t])

\* A step of a that only lets the leases drift: no tab is opened, none is prompted but
\* by the owner of its lease, and no control is taken while there is a fenced lease.
DriftStep(a) ==
    /\ Drifting(a, lease')
    /\ \A t \in Tabs :
          /\ tab[t].at # "unopened" => tab'[t].at # "unopened"
          /\ tab'[t].unsettled => \/ tab[t].unsettled
                                  \/ /\ lease[t].state = "active" /\ lease[t].owner = a
                                     /\ lease'[t].state = "active"
    /\ ControlActive' => /\ ControlActive \/ \A t \in Tabs : ~IsFenced(t)
                         /\ \A t \in Tabs : lease[t].state = "absent" => lease'[t].state # "active"
    /\ \A o \in Ops : o # a => \/ act'[o].pc = act[o].pc /\ act'[o].tab = act[o].tab
                               \/ act'[o].pc = "ended"
    /\ a \in Ops => Placed(a)' /\ act'[a].pc # "reserve"

\* Such a step keeps the kernel.
LEMMA DriftKeeps ==
    ASSUME TypeOK, Kernel, NEW a \in Actors, DriftStep(a)
    PROVE  Kernel'
<1> USE DEF DriftStep, Kernel, Drifting, Drifts, IsFenced, Fenced
<1>1. ReadersFenced' BY DEF ReadersFenced
<1>2. UnopenedAbsent' BY DEF UnopenedAbsent, Placed, Named
<1>3. IdleSettled' BY DEF IdleSettled
<1>4. ControlExcludesLeases' BY DEF ControlExcludesLeases
<1>5. OneReserver' BY DEF OneReserver
<1>6. ASSUME NEW o \in Ops PROVE Placed(o)'
  <2>1. CASE o = a BY <2>1
  <2>2. CASE act'[o].pc = "ended" BY <2>2 DEF Placed, Named, Unprompted
  <2>3. CASE o # a /\ act'[o].pc = act[o].pc /\ act'[o].tab = act[o].tab
    <3> DEFINE t == act[o].tab
    <3>1. Placed(o) /\ t' = t BY <2>3
    <3>2. act[o].pc \in Named => t \in Tabs BY <3>1 DEF Placed
    <3>3. CASE act[o].pc = "reserve"
      <4>1. t \in Tabs /\ lease[t].state = "absent" /\ tab[t].at # "unopened" /\ ~tab[t].unsettled
        BY <3>1, <3>3 DEF Placed, Named
      <4>2. ~(a \in Ops /\ act[a].pc = "reserve" /\ act[a].tab = t) BY <2>3, <3>3 DEF OneReserver
      <4>3. lease'[t].state = "absent" BY <4>1, <4>2
      <4>4. tab'[t].at # "unopened" /\ ~tab'[t].unsettled BY <4>1
      <4>5. QED BY <2>3, <3>3, <4>1, <4>3, <4>4 DEF Placed, Unprompted
    <3>4. CASE act[o].pc \in Unprompted
      <4>1. /\ t \in Tabs /\ ~tab[t].unsettled
            /\ \/ lease[t].state = "active" /\ lease[t].owner = o
             \/ lease[t].state \in {"lost", "released"}
        BY <3>1, <3>4 DEF Placed, Named, Unprompted
      <4>2. \/ lease'[t].state = "active" /\ lease'[t].owner = o
            \/ lease'[t].state \in {"lost", "released"}
        BY <4>1, <2>3
      <4>3. ~tab'[t].unsettled BY <4>1, <2>3
      <4>4. QED BY <2>3, <3>4, <4>1, <4>2, <4>3 DEF Placed, Unprompted
    <3>5. QED BY <2>3, <3>2, <3>3, <3>4 DEF Placed
  <2>4. QED BY <2>1, <2>2, <2>3
<1>7. QED BY <1>1, <1>2, <1>3, <1>4, <1>5, <1>6

\* What keeps the bindings apart: no lease becomes fenced or is bound anew.
Tame(t, l) == l.state \in Fenced => /\ IsFenced(t) /\ l.workload = lease[t].workload
                                    /\ l.bound = lease[t].bound
Easy(a, L) == \A t \in Tabs : Drifts(a, t, L[t]) /\ Tame(t, L[t])

\* A step in which every lease is tame keeps the bindings apart.
LEMMA TameKeeps ==
    ASSUME \A t \in Tabs : Tame(t, lease'[t]), OneLeasePerConversation, OneTabPerProcess
    PROVE  OneLeasePerConversation' /\ OneTabPerProcess'
BY DEF Tame, OneLeasePerConversation, OneTabPerProcess, IsFenced

\* Only fenced leases are read, so a lease whose reading is current is fenced.
LEMMA CurrentFenced ==
    ASSUME ReadersFenced, NEW a, NEW t \in Tabs, Current(a, t)
    PROVE  IsFenced(t)
BY DEF ReadersFenced, Current

\* The leases as they are, listed, forgotten, or with one write that drifts, are easy.
LEMMA SameEasy ==
    ASSUME ReadersFenced, NEW a
    PROVE  Easy(a, lease)
BY DEF Easy, Drifts, Tame, ReadersFenced, IsFenced

LEMMA ForgottenEasy ==
    ASSUME NEW a, NEW b, NEW L \in Leases, Easy(a, L), NEW S
    PROVE  Easy(a, Forgotten(L, b, S))
<1>1. ASSUME NEW t \in Tabs
      PROVE  Drifts(a, t, Forgotten(L, b, S)[t]) /\ Tame(t, Forgotten(L, b, S)[t])
  <2>1. Drifts(a, t, L[t]) /\ Tame(t, L[t]) /\ L[t] \in LeaseRecords BY DEF Easy, Leases
  <2>2. \/ Forgotten(L, b, S)[t] = L[t]
        \/ Forgotten(L, b, S)[t] = [L[t] EXCEPT !.readers = @ \ {b}]
    BY DEF Forgotten
  <2>3. QED BY <2>1, <2>2 DEF Drifts, Tame, LeaseRecords
<1>2. QED BY <1>1 DEF Easy

LEMMA ReadsEasy ==
    ASSUME lease \in Leases, ReadersFenced, NEW a, NEW b, NEW S, \A t \in S : IsFenced(t)
    PROVE  Easy(a, Reads(b, S))
<1>1. ASSUME NEW t \in Tabs
      PROVE  Drifts(a, t, Reads(b, S)[t]) /\ Tame(t, Reads(b, S)[t])
  <2>1. lease[t] \in LeaseRecords BY DEF Leases
  <2>2. \/ Reads(b, S)[t] = lease[t]
        \/ IsFenced(t) /\ Reads(b, S)[t] = [lease[t] EXCEPT !.readers = @ \cup {b}]
    BY DEF Reads
  <2>3. QED BY <2>1, <2>2 DEF Drifts, Tame, LeaseRecords, ReadersFenced, IsFenced
<1>2. QED BY <1>1 DEF Easy

LEMMA PutEasy ==
    ASSUME lease \in Leases, ReadersFenced, NEW a, NEW t, NEW l, t \in Tabs => Drifts(a, t, l) /\ Tame(t, l)
    PROVE  Easy(a, [lease EXCEPT ![t] = l])
BY SameEasy DEF Easy, Leases

LEMMA WritesEasy ==
    ASSUME lease \in Leases, ReadersFenced, NEW a, NEW b, NEW t, NEW l,
           t \in Tabs => l \in LeaseRecords /\ l.state \in Fenced /\ Drifts(a, t, l) /\ Tame(t, l)
    PROVE  Easy(a, Writes(b, t, l))
<1>1. t \in Tabs => Drifts(a, t, [l EXCEPT !.readers = {b}]) /\ Tame(t, [l EXCEPT !.readers = {b}])
  BY DEF Drifts, Tame, LeaseRecords
<1>2. QED BY <1>1, PutEasy DEF Writes

\* A lease that is marked lost, used or released drifts.
LEMMA LostEasy ==
    ASSUME TypeOK, CustodyAssumption, ReadersFenced, NEW a, NEW t \in Tabs, IsFenced(t)
    PROVE  Drifts(a, t, MarkedLost(t)) /\ Tame(t, MarkedLost(t))
<1>1. lease[t] \in LeaseRecords BY TypeParts DEF Leases
<1>2. QED BY <1>1 DEF MarkedLost, Drifts, Tame, LeaseRecords, Fenced, IsFenced

\* So does one that its owner uses,
LEMMA UsedEasy ==
    ASSUME TypeOK, ReadersFenced, NEW a, NEW t \in Tabs, IsFenced(t)
    PROVE  Drifts(a, t, Used(t)) /\ Tame(t, Used(t)) /\ Used(t).state \in Fenced
<1>1. lease[t] \in LeaseRecords BY TypeParts DEF Leases
<1>2. QED BY <1>1 DEF Used, Drifts, Tame, LeaseRecords, IsFenced

\* one that is released,
LEMMA ReleasedEasy ==
    ASSUME NEW a, NEW t \in Tabs, IsFenced(t)
    PROVE  Drifts(a, t, Released) /\ Tame(t, Released)
BY DEF Released, NoLease, Drifts, Tame, Fenced

\* and one that its owner gives back after a settlement, or as of unknown outcome.
LEMMA IdledEasy ==
    ASSUME TypeOK, ReadersFenced, NEW o, NEW t \in Tabs, Claims(o, t), NEW e \in Effects,
           e = "safe" => ~tab[t].unsettled
    PROVE  Drifts(o, t, Idled(t, e)) /\ Tame(t, Idled(t, e)) /\ Idled(t, e).state \in Fenced
<1>1. lease[t] \in LeaseRecords BY TypeParts DEF Leases
<1>2. QED BY <1>1 DEF Idled, Claims, Drifts, Tame, LeaseRecords, IsFenced, Fenced

\* A last write of the maintenance pass is made to a current, hence fenced, lease.
LEMMA WriteLastEasy ==
    ASSUME lease \in Leases, ReadersFenced, NEW t, NEW l,
           t \in Tabs => l \in LeaseRecords /\ (IsFenced(t) => Drifts(Keeper, t, l) /\ Tame(t, l)),
           WriteLast(t, l)
    PROVE  Easy(Keeper, lease')
<1>1. t \in Tabs => [l EXCEPT !.readers = {}] \in LeaseRecords BY DEF LeaseRecords
<1>2. t \in Tabs /\ IsFenced(t) => Drifts(Keeper, t, [l EXCEPT !.readers = {}]) /\ Tame(t, [l EXCEPT !.readers = {}])
  BY DEF Drifts, Tame, LeaseRecords
<1> DEFINE L == IF Current(Keeper, t) THEN [lease EXCEPT ![t] = [l EXCEPT !.readers = {}]] ELSE lease
<1>3. L \in Leases BY <1>1, PutTyped
<1>4. Easy(Keeper, L)
  <2>1. CASE Current(Keeper, t)
    <3>1. t \in Tabs => IsFenced(t) BY <2>1, CurrentFenced
    <3>2. QED BY <2>1, <3>1, <1>2, PutEasy
  <2>2. CASE ~Current(Keeper, t) BY <2>2, SameEasy
  <2>3. QED BY <2>1, <2>2
<1>5. lease' = Forgotten(L, Keeper, {t}) BY DEF WriteLast
<1>6. QED BY <1>3, <1>4, <1>5, ForgottenEasy

\* No tab is opened or prompted.
Calm ==
    \A t \in Tabs : /\ tab[t].at # "unopened" => tab'[t].at # "unopened"
                    /\ tab'[t].unsettled => tab[t].unsettled
Sound == Kernel /\ OneLeasePerConversation /\ OneTabPerProcess

\* A step that does no more than that and takes no control keeps the invariant,
\* if it leads the operation to a place where it may be.
LEMMA EasyKeeps ==
    ASSUME CustodyInv, NEW a \in Actors, Easy(a, lease'), Calm,
           ControlActive' => ControlActive \/ \A t \in Tabs : ~IsFenced(t),
           \A o \in Ops : o # a => act'[o] = act[o] \/ act'[o].pc = "ended",
           a \in Ops => Placed(a)' /\ act'[a].pc # "reserve"
    PROVE  Sound'
<1>1. Drifting(a, lease') /\ \A t \in Tabs : Tame(t, lease'[t]) BY DEF Easy, Drifting
<1>2. \A t \in Tabs : lease[t].state = "absent" => lease'[t].state # "active"
  BY <1>1 DEF Tame, IsFenced, Fenced
<1>3. TypeOK /\ Kernel /\ OneLeasePerConversation /\ OneTabPerProcess BY DEF CustodyInv
<1>a. \A t \in Tabs :
          /\ tab[t].at # "unopened" => tab'[t].at # "unopened"
          /\ tab'[t].unsettled => \/ tab[t].unsettled
                                  \/ /\ lease[t].state = "active" /\ lease[t].owner = a
                                     /\ lease'[t].state = "active"
  BY DEF Calm
<1>b. ControlActive' => /\ ControlActive \/ \A t \in Tabs : ~IsFenced(t)
                        /\ \A t \in Tabs : lease[t].state = "absent" => lease'[t].state # "active"
  BY <1>2
<1>c. \A o \in Ops : o # a => \/ act'[o].pc = act[o].pc /\ act'[o].tab = act[o].tab
                              \/ act'[o].pc = "ended"
  OBVIOUS
<1>d. a \in Ops => Placed(a)' /\ act'[a].pc # "reserve"
  OBVIOUS
<1>4. DriftStep(a) BY <1>1, <1>a, <1>b, <1>c, <1>d DEF DriftStep
<1>5. Kernel' BY <1>3, <1>4, DriftKeeps
<1>6. OneLeasePerConversation' /\ OneTabPerProcess' BY <1>1, <1>3, TameKeeps
<1>7. QED BY <1>5, <1>6 DEF Sound

\* An operation that moves on without naming a tab keeps the invariant.
LEMMA PassiveKeeps ==
    ASSUME CustodyInv, NEW o \in Ops, Easy(o, lease'), UNCHANGED tab,
           ControlActive' => ControlActive \/ \A t \in Tabs : ~IsFenced(t),
           NEW r, act' = [act EXCEPT ![o] = r], r.pc \notin Named
    PROVE  Sound'
<1>1. o \in Actors /\ act \in Acts BY TypeParts DEF Actors, CustodyInv
<1>2. act'[o] = r /\ \A q \in Ops : q # o => act'[q] = act[q] BY <1>1 DEF Acts, Actors
<1>3. Placed(o)' /\ act'[o].pc # "reserve" BY <1>2 DEF Placed, Named, Unprompted
<1>4. Calm BY DEF Calm
<1>5. QED BY <1>1, <1>2, <1>3, <1>4, EasyKeeps

\* An operation that ends keeps it.
LEMMA EndKeeps ==
    ASSUME CustodyInv, NEW o \in Ops, NEW L \in Leases, Easy(o, L), End(o, L), Calm,
           ControlActive' => ControlActive
    PROVE  Sound'
<1>1. o \in Actors /\ act \in Acts BY TypeParts DEF Actors, CustodyInv
<1>2. act'[o].pc = "ended" /\ \A q \in Ops : q # o => act'[q] = act[q] BY <1>1 DEF Acts, Actors, End, At
<1>3. Placed(o)' /\ act'[o].pc # "reserve" BY <1>2 DEF Placed, Named, Unprompted
<1>4. Easy(o, lease') BY ForgottenEasy DEF End
<1>5. QED BY <1>1, <1>2, <1>3, <1>4, EasyKeeps

-----------------------------------------------------------------------------
(* The steps of an operation.                                              *)

\* The steps that name no tab afterwards: looking, losing, releasing, the control and the
\* browser start, rollback, and the marking of an uncertain outcome.
LEMMA OpEasyKeeps ==
    ASSUME CustodyAssumption, CustodyInv, NEW o \in Ops,
           \/ StartOperation(o) \/ EnterAcquisition(o) \/ ListAbsent(o) \/ (\E t \in Tabs : LoseMissing(o, t))
           \/ ReleaseMissing(o) \/ FindProcessTab(o) \/ FindWorkloadTab(o) \/ AcquireControl(o)
           \/ LaunchBrowser(o) \/ AwaitBrowser(o) \/ ReleaseControl(o) \/ RollbackFence(o)
           \/ RollbackRelease(o) \/ LoseAnswer(o) \/ LedgerRefuses(o) \/ MarkUncertain(o) \/ IdleUncertain(o)
    PROVE  Sound'
<1> USE CustodyAssumption
<1>0. /\ TypeOK /\ ReadersFenced /\ lease \in Leases /\ act \in Acts /\ o \in Actors
      /\ UNCHANGED tab /\ Calm
  <2>1. UNCHANGED tab
    BY DEF StartOperation, EnterAcquisition, ListAbsent, LoseMissing, ReleaseMissing, FindProcessTab,
         FindWorkloadTab, AcquireControl, LaunchBrowser, AwaitBrowser, ReleaseControl, RollbackFence,
         RollbackRelease, LoseAnswer, LedgerRefuses, MarkUncertain, IdleUncertain, Elsewhere
  <2>2. QED BY <2>1, TypeParts DEF CustodyInv, Kernel, Actors, Calm
<1>l. Easy(o, lease) BY <1>0, SameEasy
<1>f. ASSUME NEW t \in Tabs, Current(o, t) PROVE IsFenced(t) BY <1>0, <1>f, CurrentFenced
<1>w. ASSUME NEW t \in Tabs, IsFenced(t)
      PROVE  Easy(o, Writes(o, t, MarkedLost(t))) /\ Writes(o, t, MarkedLost(t)) \in Leases
  <2>1. MarkedLost(t) \in LeaseRecords /\ MarkedLost(t).state \in Fenced
    <3>1. lease[t] \in LeaseRecords BY <1>0 DEF Leases
    <3>2. MarkedLost(t).state = "lost" BY <3>1 DEF MarkedLost, LeaseRecords
    <3>3. QED BY <3>2, <1>0, RecordsTyped DEF Fenced
  <2>2. QED BY <2>1, <1>w, <1>0, LostEasy, WritesEasy, WritesTyped
<1>d. ASSUME NEW t \in Tabs, Current(o, t)
      PROVE  Easy(o, [lease EXCEPT ![t] = Released]) /\ [lease EXCEPT ![t] = Released] \in Leases
  BY <1>d, <1>0, <1>f, ReleasedEasy, PutEasy, RecordsTyped, PutTyped
<1>e. ASSUME NEW L \in Leases, Easy(o, L), End(o, L), ControlActive' => ControlActive PROVE Sound'
  BY <1>e, <1>0, EndKeeps
<1>c. ASSUME UNCHANGED control PROVE ControlActive' => ControlActive
  BY <1>c DEF ControlActive
<1>p. ASSUME NEW r, act' = [act EXCEPT ![o] = r], r.pc \notin Named, Easy(o, lease'),
             ControlActive' => ControlActive \/ \A t \in Tabs : ~IsFenced(t)
      PROVE  Sound'
  BY <1>p, <1>0, PassiveKeeps
<1>g. ASSUME NEW s, Goto(o, s), s \notin Named, Easy(o, lease'),
             ControlActive' => ControlActive \/ \A t \in Tabs : ~IsFenced(t)
      PROVE  Sound'
  <2>1. act' = [act EXCEPT ![o] = [act[o] EXCEPT !.pc = s]] BY <1>g, <1>0 DEF Goto, Acts
  <2>2. [act[o] EXCEPT !.pc = s].pc = s BY <1>0 DEF Acts, ActRecords
  <2>3. QED BY <2>1, <2>2, <1>g, <1>p
<1>r. ASSUME NEW p \in DOMAIN AfterReleasing, NEW S, ReleaseAll(o, p, S), \A t \in S : IsFenced(t), UNCHANGED control
      PROVE  Sound'
  <2> DEFINE q == IF S = {} THEN AfterReleasing[p] ELSE p
             a == [act[o] EXCEPT !.pc = q, !.todo = S]
  <2>1. q \notin Named BY DEF AfterReleasing, Named
  <2>2. act' = [act EXCEPT ![o] = a] BY <1>r, <1>0 DEF ReleaseAll, Acts
  <2>3. a.pc \notin Named
    <3> HIDE DEF q
    <3>1. QED BY <2>1, <1>0 DEF Acts, ActRecords
  <2>4. Easy(o, lease') BY <1>r, <1>0, ReadsEasy DEF ReleaseAll
  <2> HIDE DEF q, a
  <2>5. QED BY <2>2, <2>3, <2>4, <1>r, <1>c, <1>p
<1>x. {"releasing", "missing", "gone", "clearing"} \subseteq DOMAIN AfterReleasing BY DEF AfterReleasing
<1>1. CASE StartOperation(o)
  <2>1. CASE End(o, lease) BY <2>1, <1>1, <1>l, <1>0, <1>e, <1>c DEF StartOperation
  <2>2. CASE act' = [act EXCEPT ![o].pc = "queued", ![o].endpoint = (browser = "up")] /\ UNCHANGED lease
    <3>1. act' = [act EXCEPT ![o] = [act[o] EXCEPT !.pc = "queued", !.endpoint = (browser = "up")]]
      BY <2>2, <1>0 DEF Acts
    <3>2. [act[o] EXCEPT !.pc = "queued", !.endpoint = (browser = "up")].pc = "queued"
      BY <1>0 DEF Acts, ActRecords
    <3>3. QED BY <2>2, <3>1, <3>2, <1>1, <1>l, <1>p, <1>c DEF StartOperation, Named
  <2>3. QED BY <1>1, <2>1, <2>2 DEF StartOperation
<1>2. CASE EnterAcquisition(o)
  <2> DEFINE b == ~act[o].endpoint /\ browser = "down"
             q == IF b THEN "absent" ELSE "process"
  <2>1. act' = [act EXCEPT ![o] = [act[o] EXCEPT !.absent = b, !.pc = q]]
    BY <1>2, <1>0 DEF EnterAcquisition, Acts
  <2>2. [act[o] EXCEPT !.absent = b, !.pc = q].pc = q BY <1>0 DEF Acts, ActRecords
  <2>3. q \notin Named BY DEF Named
  <2>4. UNCHANGED <<lease, control>> BY <1>2 DEF EnterAcquisition
  <2>5. QED BY <2>1, <2>2, <2>3, <2>4, <1>l, <1>p, <1>c
<1>3. CASE ListAbsent(o)
  <2> DEFINE S == {t \in Tabs : lease[t].state \in {"idle", "lost"} /\ lease[t].effect = "safe"}
  <2>1. \A t \in S : IsFenced(t) BY DEF IsFenced, Fenced
  <2>2. ReleaseAll(o, "releasing", S) /\ UNCHANGED control BY <1>3 DEF ListAbsent
  <2>3. QED BY <2>1, <2>2, <1>x, <1>r
<1>4. ASSUME NEW t \in Tabs, LoseMissing(o, t) PROVE Sound'
  <2>1. CASE End(o, lease) BY <2>1, <1>4, <1>l, <1>0, <1>e, <1>c DEF LoseMissing
  <2>2. CASE /\ Current(o, t) /\ act[o].pc \in DOMAIN AfterReleasing
             /\ act' = [act EXCEPT ![o].tab = t]
             /\ lease' = IF lease[t].state = "lost" THEN lease ELSE Writes(o, t, MarkedLost(t))
    <3>1. act' = [act EXCEPT ![o] = [act[o] EXCEPT !.tab = t]] BY <2>2, <1>0 DEF Acts
    <3>2. [act[o] EXCEPT !.tab = t].pc = act[o].pc BY <1>0 DEF Acts, ActRecords
    <3>3. act[o].pc \notin Named BY <2>2 DEF AfterReleasing, Named
    <3>4. Easy(o, lease') BY <2>2, <1>l, <1>f, <1>w
    <3>5. QED BY <3>1, <3>2, <3>3, <3>4, <1>4, <1>p, <1>c DEF LoseMissing
  <2>3. QED BY <1>4, <2>1, <2>2 DEF LoseMissing
<1>5. CASE ReleaseMissing(o)
  <2> DEFINE t == act[o].tab
             left == act[o].todo \ {t}
  <2>1. CASE End(o, lease) BY <2>1, <1>5, <1>l, <1>0, <1>e, <1>c DEF ReleaseMissing
  <2>2. CASE /\ Current(o, t) /\ lease' = [lease EXCEPT ![t] = Released]
             /\ act' = [act EXCEPT ![o].tab = None, ![o].todo = left,
                                   ![o].pc = IF left = {} THEN AfterReleasing[@] ELSE @]
    <3> DEFINE q == IF left = {} THEN AfterReleasing[act[o].pc] ELSE act[o].pc
    <3>1. act' = [act EXCEPT ![o] = [act[o] EXCEPT !.tab = None, !.todo = left, !.pc = q]]
      BY <2>2, <1>0 DEF Acts
    <3>2. [act[o] EXCEPT !.tab = None, !.todo = left, !.pc = q].pc = q BY <1>0 DEF Acts, ActRecords
    <3>3. act[o].pc \in DOMAIN AfterReleasing BY <1>5 DEF ReleaseMissing
    <3>4. q \notin Named BY <3>3 DEF AfterReleasing, Named
    <3>5. t \in Tabs BY <1>5, <1>0 DEF ReleaseMissing, Acts, ActRecords
    <3>6. Easy(o, lease') BY <2>2, <3>5, <1>d
    <3> DEFINE r == [act[o] EXCEPT !.tab = None, !.todo = left, !.pc = q]
    <3>7. act' = [act EXCEPT ![o] = r] /\ r.pc \notin Named BY <3>1, <3>2, <3>4
    <3>8. UNCHANGED control BY <1>5 DEF ReleaseMissing
    <3> HIDE DEF r
    <3>9. QED BY <3>6, <3>7, <3>8, <1>p, <1>c
  <2>3. QED BY <1>5, <2>1, <2>2 DEF ReleaseMissing
<1>t. /\ \A t \in ProcessTabs(Proc[o]) : t \in Tabs /\ IsFenced(t)
      /\ \A w : \A t \in WorkloadTabs(w) : t \in Tabs /\ IsFenced(t)
  BY DEF ProcessTabs, WorkloadTabs, IsFenced, Fenced
<1>6. CASE FindProcessTab(o)
  <2>0. UNCHANGED control BY <1>6 DEF FindProcessTab
  <2>1. CASE Goto(o, "workload") /\ UNCHANGED lease BY <2>0, <2>1, <1>l, <1>g, <1>c DEF Named
  <2>2. CASE End(o, lease) BY <2>0, <2>2, <1>l, <1>0, <1>e, <1>c
  <2>3. CASE \E t \in ProcessTabs(Proc[o]) : ReleaseAll(o, "missing", {t})
    BY <2>0, <2>3, <1>x, <1>r, <1>t
  <2>4. CASE \E t \in ProcessTabs(Proc[o]) :
                act' = [act EXCEPT ![o].pc = "take", ![o].tab = t] /\ lease' = Reads(o, {t})
    <3>1. PICK t \in ProcessTabs(Proc[o]) :
                act' = [act EXCEPT ![o].pc = "take", ![o].tab = t] /\ lease' = Reads(o, {t})
      BY <2>4
    <3>2. t \in Tabs /\ IsFenced(t) BY <1>t
    <3>3. act'[o].pc = "take" /\ act'[o].tab = t /\ \A q \in Ops : q # o => act'[q] = act[q]
      BY <3>1, <1>0 DEF Acts, ActRecords, Actors
    <3>4. Placed(o)' BY <3>2, <3>3 DEF Placed, Named, Unprompted
    <3>5. Easy(o, lease') BY <3>1, <3>2, <1>0, ReadsEasy
    <3>6. QED BY <2>0, <3>3, <3>4, <3>5, <1>0, <1>c, EasyKeeps
  <2>5. QED BY <1>6, <2>1, <2>2, <2>3, <2>4 DEF FindProcessTab
<1>7. CASE FindWorkloadTab(o)
  <2> DEFINE S == {t \in Tabs : /\ act[o].absent /\ lease[t].effect = "safe"
                                /\ \/ lease[t].state = "idle"
                                   \/ lease[t].state = "active" /\ Proc[lease[t].owner] \notin alive}
  <2>0. UNCHANGED control BY <1>7 DEF FindWorkloadTab
  <2>1. CASE (Goto(o, "open") \/ Goto(o, "reuse")) /\ UNCHANGED lease BY <2>0, <2>1, <1>l, <1>g, <1>c DEF Named
  <2>2. CASE End(o, lease) BY <2>0, <2>2, <1>l, <1>0, <1>e, <1>c
  <2>3. CASE ReleaseAll(o, "clearing", S)
    <3>1. \A t \in S : IsFenced(t) BY DEF IsFenced, Fenced
    <3>2. QED BY <2>0, <2>3, <3>1, <1>x, <1>r
  <2>4. CASE \E t \in WorkloadTabs(Workload(o)) : ReleaseAll(o, "gone", {t})
    BY <2>0, <2>4, <1>x, <1>r, <1>t
  <2>5. CASE \E t \in WorkloadTabs(Workload(o)) :
                End(o, IF lease[t].state = "lost" THEN lease ELSE Writes(o, t, MarkedLost(t)))
    <3>1. PICK t \in WorkloadTabs(Workload(o)) :
                End(o, IF lease[t].state = "lost" THEN lease ELSE Writes(o, t, MarkedLost(t)))
      BY <2>5
    <3> DEFINE L == IF lease[t].state = "lost" THEN lease ELSE Writes(o, t, MarkedLost(t))
    <3>2. L \in Leases /\ Easy(o, L) BY <1>t, <1>w, <1>l, <1>0
    <3>3. QED BY <2>0, <3>1, <3>2, <1>e, <1>c
  <2>6. QED BY <1>7, <2>1, <2>2, <2>3, <2>4, <2>5 DEF FindWorkloadTab
<1>8. CASE AcquireControl(o)
  <2>1. CASE control' = Pruned /\ End(o, lease)
    <3>1. ControlActive' => ControlActive
      BY <2>1 DEF ControlActive, Pruned, Unheld
    <3>2. QED BY <2>1, <3>1, <1>l, <1>0, <1>e
  <2>2. CASE (\A t \in Tabs : ~IsFenced(t)) /\ Goto(o, "launch") /\ UNCHANGED lease
    BY <2>2, <1>l, <1>g DEF Named
  <2>3. QED BY <1>8, <2>1, <2>2 DEF AcquireControl
<1>9. CASE LaunchBrowser(o) \/ AwaitBrowser(o)
  <2> DEFINE q == IF act[o].pc = "launch" /\ browser = "down" THEN "launching" ELSE "unlock"
  <2>1. UNCHANGED <<lease, control>> BY <1>9 DEF LaunchBrowser, AwaitBrowser
  <2>2. act' = [act EXCEPT ![o] = [act[o] EXCEPT !.pc = q, !.endpoint = (browser = "up")]]
    BY <1>9, <1>0 DEF LaunchBrowser, AwaitBrowser, Runs, Acts
  <2>3. [act[o] EXCEPT !.pc = q, !.endpoint = (browser = "up")].pc = q BY <1>0 DEF Acts, ActRecords
  <2>4. q \notin Named BY DEF Named
  <2> DEFINE r == [act[o] EXCEPT !.pc = q, !.endpoint = (browser = "up")]
  <2>5. act' = [act EXCEPT ![o] = r] /\ r.pc \notin Named BY <2>2, <2>3, <2>4
  <2> HIDE DEF r
  <2>6. QED BY <2>1, <2>5, <1>l, <1>p, <1>c
<1>10. CASE ReleaseControl(o)
  <2>1. ControlActive' => ControlActive BY <1>10 DEF ReleaseControl, ControlActive, Unheld
  <2>2. CASE End(o, lease) BY <2>1, <2>2, <1>l, <1>0, <1>e
  <2>3. CASE Goto(o, "open") /\ UNCHANGED lease BY <2>1, <2>3, <1>l, <1>g DEF Named
  <2>4. QED BY <1>10, <2>2, <2>3 DEF ReleaseControl
<1>n. act[o].tab \in Tabs \cup {None} BY <1>0 DEF Acts, ActRecords
<1>y. None \notin Tabs BY DEF CustodyAssumption
<1>11. CASE RollbackFence(o)
  <2> DEFINE t == act[o].tab
  <2>0. UNCHANGED control BY <1>11 DEF RollbackFence
  <2>1. CASE End(o, lease) BY <2>0, <2>1, <1>l, <1>0, <1>e, <1>c
  <2>2. CASE Current(o, t) /\ lease' = Writes(o, t, MarkedLost(t)) /\ Goto(o, "undo")
    <3>1. CASE t \in Tabs BY <2>0, <2>2, <3>1, <1>f, <1>w, <1>g, <1>c DEF Named
    <3>2. CASE t \notin Tabs
      <4>1. lease' = lease BY <2>2, <3>2, <1>0 DEF Writes, Leases
      <4>2. QED BY <2>0, <2>2, <4>1, <1>l, <1>g, <1>c DEF Named
    <3>3. QED BY <3>1, <3>2
  <2>3. QED BY <1>11, <2>1, <2>2 DEF RollbackFence
<1>12. CASE RollbackRelease(o)
  <2> DEFINE t == act[o].tab
             L == IF Current(o, t) THEN [lease EXCEPT ![t] = Released] ELSE lease
  <2>1. CASE t \in Tabs
    <3>1. L \in Leases /\ Easy(o, L) BY <2>1, <1>d, <1>l, <1>0
    <3>2. QED BY <3>1, <1>12, <1>e, <1>c DEF RollbackRelease
  <2>2. CASE t \notin Tabs
    <3>1. L = lease BY <2>2, <1>0 DEF Leases
    <3>2. QED BY <3>1, <1>12, <1>l, <1>0, <1>e, <1>c DEF RollbackRelease
  <2>3. QED BY <2>1, <2>2
<1>13. CASE LoseAnswer(o) \/ LedgerRefuses(o)
  BY <1>13, <1>l, <1>g, <1>c DEF LoseAnswer, LedgerRefuses, Named
<1>14. CASE MarkUncertain(o)
  <2> DEFINE t == act[o].tab
             l == [Used(t) EXCEPT !.effect = "outcome-unknown"]
  <2>0. UNCHANGED control BY <1>14 DEF MarkUncertain
  <2>1. CASE End(o, lease) BY <2>0, <2>1, <1>l, <1>0, <1>e, <1>c
  <2>2. CASE Records(o) /\ lease' = Writes(o, t, l) /\ Goto(o, "fencing")
    <3>1. t \in Tabs => l \in LeaseRecords /\ l.state \in Fenced /\ Drifts(o, t, l) /\ Tame(t, l)
      <4>1. SUFFICES ASSUME t \in Tabs PROVE l \in LeaseRecords /\ l.state \in Fenced /\ Drifts(o, t, l) /\ Tame(t, l)
        OBVIOUS
      <4>2. lease[t] \in LeaseRecords BY <4>1, <1>0 DEF Leases
      <4>3. lease[t].state = "active" BY <2>2 DEF Records, Claims
      <4>4. /\ l.state = "active" /\ l.owner = lease[t].owner /\ l.effect = "outcome-unknown"
            /\ l.workload = lease[t].workload /\ l.bound = lease[t].bound
        BY <4>2, <4>3 DEF Used, LeaseRecords
      <4>5. l \in LeaseRecords
        <5>1. Used(t) \in LeaseRecords BY <4>1, <1>0, RecordsTyped
        <5>2. "outcome-unknown" \in Effects BY DEF Effects
        <5>3. QED BY <5>1, <5>2 DEF LeaseRecords
      <4>6. Drifts(o, t, l) /\ Tame(t, l) BY <4>3, <4>4 DEF Drifts, Tame, IsFenced, Fenced
      <4>7. QED BY <4>4, <4>5, <4>6 DEF Fenced
    <3>2. Easy(o, lease') BY <2>2, <3>1, <1>0, WritesEasy
    <3>3. QED BY <2>0, <2>2, <3>2, <1>g, <1>c DEF Named
  <2>3. QED BY <1>14, <2>1, <2>2 DEF MarkUncertain
<1>15. CASE IdleUncertain(o)
  <2> DEFINE t == act[o].tab
             L == IF Claims(o, t) THEN Writes(o, t, Idled(t, "outcome-unknown")) ELSE lease
  <2>1. L \in Leases /\ Easy(o, L)
    <3>1. CASE Claims(o, t)
      <4>1. t \in Tabs => /\ Idled(t, "outcome-unknown") \in LeaseRecords
                          /\ Drifts(o, t, Idled(t, "outcome-unknown")) /\ Tame(t, Idled(t, "outcome-unknown"))
                          /\ Idled(t, "outcome-unknown").state \in Fenced
        BY <3>1, <1>0, IdledEasy, RecordsTyped DEF Effects
      <4>2. QED BY <3>1, <4>1, <1>0, WritesEasy, WritesTyped
    <3>2. CASE ~Claims(o, t) BY <3>2, <1>0, <1>l
    <3>3. QED BY <3>1, <3>2
  <2>2. QED BY <2>1, <1>15, <1>e, <1>c DEF IdleUncertain
<1>16. QED
  BY <1>1, <1>2, <1>3, <1>4, <1>5, <1>6, <1>7, <1>8, <1>9, <1>10, <1>11, <1>12, <1>13, <1>14, <1>15

\* A binding is made where no other fenced lease has it.
LEMMA BoundApart ==
    ASSUME lease \in Leases, OneLeasePerConversation, OneTabPerProcess, NEW t \in Tabs, NEW l,
           lease' = [lease EXCEPT ![t] = l],
           l.state \in Fenced => /\ \A u \in Tabs : u # t /\ IsFenced(u) => lease[u].workload # l.workload
                                 /\ \A u \in Tabs : u # t /\ IsFenced(u) => lease[u].bound # l.bound
    PROVE  OneLeasePerConversation' /\ OneTabPerProcess'
<1>1. \A u \in Tabs : u # t => lease'[u] = lease[u] BY DEF Leases
<1>2. lease'[t] = l BY DEF Leases
<1>3. QED BY <1>1, <1>2 DEF OneLeasePerConversation, OneTabPerProcess, IsFenced

\* Adopting an idle tab: it is settled, and bound where no other tab is.
LEMMA TakeKeeps ==
    ASSUME CustodyAssumption, CustodyInv, NEW o \in Ops, TakeProcessTab(o) \/ TakeWorkloadTab(o)
    PROVE  Sound'
<1> USE CustodyAssumption
<1>0. /\ TypeOK /\ Kernel /\ ReadersFenced /\ lease \in Leases /\ act \in Acts /\ o \in Actors
      /\ OneLeasePerConversation /\ OneTabPerProcess /\ UNCHANGED <<tab, control>> /\ Calm
      /\ Proc[o] \in Procs
  BY TypeParts DEF CustodyInv, Kernel, Actors, Calm, TakeProcessTab, TakeWorkloadTab, Elsewhere, CustodyAssumption
<1>e. ASSUME End(o, lease) PROVE Sound'
  BY <1>e, <1>0, SameEasy, EndKeeps DEF ControlActive
<1>t. ASSUME NEW t \in Tabs, NEW l \in LeaseRecords,
             lease[t].state = "idle", lease[t].effect = "safe", l.state = "active", l.owner = o,
             lease' = Writes(o, t, l), Holding(o, "adopt", t),
             \A u \in Tabs : u # t /\ IsFenced(u) => lease[u].workload # l.workload,
             \A u \in Tabs : u # t /\ IsFenced(u) => lease[u].bound # l.bound
      PROVE  Sound'
  <2> DEFINE r == [l EXCEPT !.readers = {o}]
  <2>1. /\ lease' = [lease EXCEPT ![t] = r]
        /\ r.state = "active" /\ r.owner = o /\ r.workload = l.workload /\ r.bound = l.bound
    BY <1>t DEF Writes, LeaseRecords
  <2>2. /\ lease'[t] = r /\ \A u \in Tabs : u # t => lease'[u] = lease[u]
    BY <2>1, <1>0 DEF Leases
  <2> HIDE DEF r
  <2>a. /\ \A u \in Tabs : u # t /\ IsFenced(u) => lease[u].workload # r.workload
        /\ \A u \in Tabs : u # t /\ IsFenced(u) => lease[u].bound # r.bound
    BY <2>1, <1>t
  <2>b. lease' = [lease EXCEPT ![t] = r] BY <2>1
  <2>3. OneLeasePerConversation' /\ OneTabPerProcess' BY <2>a, <2>b, <1>0, BoundApart
  <2>4. ~tab[t].unsettled BY <1>t, <1>0 DEF Kernel, IdleSettled
  <2>5. act'[o].pc = "adopt" /\ act'[o].tab = t /\ \A q \in Ops : q # o => act'[q] = act[q]
    BY <1>t, <1>0 DEF Holding, At, Acts, Actors
  <2>6. Placed(o)' BY <2>1, <2>2, <2>4, <2>5, <1>0 DEF Placed, Named, Unprompted
  <2>7. Drifting(o, lease')
    BY <2>1, <2>2, <1>t, <1>0 DEF Drifting, Drifts, ReadersFenced, IsFenced, Fenced
  <2>8. ControlActive' => ControlActive BY <1>0 DEF ControlActive
  <2>9. \A u \in Tabs : lease[u].state = "absent" => lease'[u].state # "active"
    BY <2>2, <1>t
  <2>10. DriftStep(o) BY <2>5, <2>6, <2>7, <2>8, <2>9, <1>0 DEF DriftStep, Calm
  <2>11. QED BY <2>3, <2>10, <1>0, DriftKeeps DEF Sound
<1>1. CASE TakeProcessTab(o)
  <2> DEFINE t == act[o].tab
             l == [Acquired(o, t) EXCEPT !.workload = Workload(o)]
  <2>1. CASE End(o, lease) BY <2>1, <1>e
  <2>2. CASE CanAcquireProcess(o, t) /\ lease' = Writes(o, t, l) /\ Holding(o, "adopt", t)
    <3>1. t \in Tabs
      BY <1>1, <1>0 DEF TakeProcessTab, Runs, Kernel, Placed, Named
    <3>2. Acquired(o, t) \in LeaseRecords BY <3>1, <1>0, RecordsTyped
    <3>3. Workload(o) \in Ops \cup Conversations BY DEF Workload, CustodyAssumption
    <3>4. /\ l \in LeaseRecords /\ l.state = "active" /\ l.owner = o
          /\ l.workload = Workload(o) /\ l.bound = Proc[o]
      <4>1. lease[t] \in LeaseRecords BY <3>1, <1>0 DEF Leases
      <4>2. QED BY <3>2, <3>3, <4>1 DEF Acquired, LeaseRecords
    <3>5. lease[t].state = "idle" /\ lease[t].effect = "safe" BY <2>2 DEF CanAcquireProcess
    <3>6. \A u \in Tabs : u # t /\ IsFenced(u) => lease[u].workload # Workload(o)
      BY <2>2 DEF CanAcquireProcess, WorkloadTabs
    <3>7. \A u \in Tabs : u # t /\ IsFenced(u) => lease[u].bound # Proc[o]
      BY <2>2 DEF CanAcquireProcess, ProcessTabs, OwnsBinding
    <3> HIDE DEF l
    <3>8. QED BY <3>1, <3>4, <3>5, <3>6, <3>7, <2>2, <1>t
  <2>3. QED BY <1>1, <2>1, <2>2 DEF TakeProcessTab
<1>2. CASE TakeWorkloadTab(o)
  <2>1. CASE End(o, lease) BY <2>1, <1>e
  <2>2. ASSUME NEW t \in WorkloadTabs(Workload(o)), CanAcquire(o, t), lease' = Writes(o, t, Acquired(o, t)),
               Holding(o, "adopt", t)
        PROVE  Sound'
    <3> DEFINE l == Acquired(o, t)
    <3>1. t \in Tabs /\ IsFenced(t) BY DEF WorkloadTabs
    <3>2. l \in LeaseRecords BY <3>1, <1>0, RecordsTyped
    <3>3. l.state = "active" /\ l.owner = o /\ l.workload = lease[t].workload /\ l.bound = Proc[o]
      <4>1. lease[t] \in LeaseRecords BY <3>1, <1>0 DEF Leases
      <4>2. QED BY <4>1 DEF Acquired, LeaseRecords
    <3>4. lease[t].state = "idle" /\ lease[t].effect = "safe" BY <2>2 DEF CanAcquire
    <3>5. \A u \in Tabs : u # t /\ IsFenced(u) => lease[u].workload # l.workload
      BY <3>1, <3>3, <1>0 DEF OneLeasePerConversation
    <3>6. \A u \in Tabs : u # t /\ IsFenced(u) => lease[u].bound # Proc[o]
      <4>1. SUFFICES ASSUME NEW u \in Tabs, u # t, IsFenced(u), lease[u].bound = Proc[o] PROVE FALSE
        OBVIOUS
      <4>2. ProcessTabs(Proc[o]) = {v \in Tabs : IsFenced(v) /\ lease[v].bound = Proc[o]}
        BY <4>1 DEF ProcessTabs, OwnsBinding
      <4>3. ProcessTabs(Proc[o]) # {} BY <4>1, <4>2
      <4>4. t \in ProcessTabs(Proc[o]) BY <4>3, <2>2 DEF CanAcquire
      <4>5. lease[t].bound = Proc[o] BY <4>2, <4>4
      <4>6. Proc[o] # None BY <1>0 DEF CustodyAssumption
      <4>7. QED BY <4>1, <4>5, <4>6, <3>1, <1>0 DEF OneTabPerProcess
    <3>7. lease' = Writes(o, t, l) /\ Holding(o, "adopt", t) BY <2>2
    <3> HIDE DEF l
    <3>8. QED BY <3>1, <3>2, <3>3, <3>4, <3>5, <3>6, <3>7, <1>t
  <2>3. QED BY <1>2, <2>1, <2>2 DEF TakeWorkloadTab
<1>3. QED BY <1>1, <1>2

\* A tab just opened is reserved under its own number, beside no control.
LEMMA ReserveKeeps ==
    ASSUME CustodyAssumption, CustodyInv, NEW o \in Ops, Reserve(o)
    PROVE  Sound'
<1> USE CustodyAssumption
<1> DEFINE t == act[o].tab
<1>0. /\ TypeOK /\ Kernel /\ ReadersFenced /\ lease \in Leases /\ act \in Acts /\ o \in Actors
      /\ OneLeasePerConversation /\ OneTabPerProcess /\ UNCHANGED tab /\ control' = Pruned
      /\ Proc[o] \in Procs /\ act[o].pc = "reserve"
  BY TypeParts DEF CustodyInv, Kernel, Actors, Reserve, Runs, Elsewhere, CustodyAssumption
<1>1. t \in Tabs /\ lease[t].state = "absent" /\ tab[t].at # "unopened" /\ ~tab[t].unsettled
  BY <1>0 DEF Kernel, Placed, Named
<1>2. CASE Goto(o, "discard") /\ UNCHANGED lease
  <2>1. act' = [act EXCEPT ![o] = [act[o] EXCEPT !.pc = "discard"]] BY <1>2, <1>0 DEF Goto, Acts
  <2>2. [act[o] EXCEPT !.pc = "discard"].pc \notin Named BY <1>0 DEF Acts, ActRecords, Named
  <2>3. ControlActive' => ControlActive BY <1>0 DEF ControlActive, Pruned, Unheld
  <2>4. Easy(o, lease') BY <1>2, <1>0, SameEasy
  <2>5. QED BY <2>1, <2>2, <2>3, <2>4, <1>0, PassiveKeeps
<1>3. CASE /\ CanReserve(o) /\ Goto(o, "record")
           /\ lease' = Writes(o, t, [NoLease EXCEPT !.state = "active", !.owner = o,
                                         !.workload = Workload(o), !.bound = Proc[o]])
  <2> DEFINE r == [[NoLease EXCEPT !.state = "active", !.owner = o, !.workload = Workload(o), !.bound = Proc[o]]
                      EXCEPT !.readers = {o}]
  <2>1. /\ lease' = [lease EXCEPT ![t] = r]
        /\ r.state = "active" /\ r.owner = o /\ r.workload = Workload(o) /\ r.bound = Proc[o]
    BY <1>3 DEF Writes, NoLease
  <2>2. lease'[t] = r /\ \A u \in Tabs : u # t => lease'[u] = lease[u]
    BY <2>1, <1>0, <1>1 DEF Leases
  <2> HIDE DEF r
  <2>3. /\ \A u \in Tabs : u # t /\ IsFenced(u) => lease[u].workload # r.workload
        /\ \A u \in Tabs : u # t /\ IsFenced(u) => lease[u].bound # r.bound
    BY <1>3, <2>1 DEF CanReserve, WorkloadTabs, OwnsBinding
  <2>4. lease' = [lease EXCEPT ![t] = r] /\ t \in Tabs BY <2>1, <1>1
  <2>5. OneLeasePerConversation' /\ OneTabPerProcess' BY <2>3, <2>4, <1>0, BoundApart
  <2>6. act'[o].pc = "record" /\ act'[o].tab = t /\ \A q \in Ops : q # o => act'[q] = act[q]
    BY <1>3, <1>0 DEF Goto, Acts, ActRecords, Actors
  <2>7. Placed(o)' BY <2>1, <2>2, <2>6, <1>0, <1>1 DEF Placed, Named, Unprompted
  <2>8. Drifting(o, lease')
    BY <2>1, <2>2, <1>0, <1>1 DEF Drifting, Drifts, ReadersFenced, IsFenced, Fenced
  <2>9. ~ControlActive' BY <1>3, <1>0 DEF ControlActive, Pruned, Unheld, CanReserve
  <2>10. \A u \in Tabs : /\ tab[u].at # "unopened" => tab'[u].at # "unopened"
                         /\ tab'[u].unsettled => tab[u].unsettled
    BY <1>0
  <2>11. DriftStep(o) BY <2>6, <2>7, <2>8, <2>9, <2>10 DEF DriftStep
  <2>12. QED BY <2>5, <2>11, <1>0, DriftKeeps DEF Sound
<1>4. QED BY <1>2, <1>3 DEF Reserve

\* A tab that was never opened has no lease.
LEMMA OpenKeeps ==
    ASSUME CustodyAssumption, CustodyInv, NEW o \in Ops, OpenTab(o)
    PROVE  Sound'
<1> USE CustodyAssumption
<1>0. /\ TypeOK /\ Kernel /\ ReadersFenced /\ lease \in Leases /\ act \in Acts /\ o \in Actors
      /\ OneLeasePerConversation /\ OneTabPerProcess /\ UNCHANGED control
      /\ tab \in [Tabs -> TabRecords]
  BY TypeParts DEF CustodyInv, Kernel, Actors, OpenTab
<1>1. CASE End(o, lease) /\ UNCHANGED tab
  BY <1>1, <1>0, SameEasy, EndKeeps DEF ControlActive, Calm
<1>2. ASSUME NEW t \in Tabs, tab[t].at = "unopened", tab' = [tab EXCEPT ![t] = Opened(o)],
             Holding(o, "reserve", t), UNCHANGED lease
      PROVE  Sound'
  <2>1. /\ tab'[t] = Opened(o) /\ Opened(o).at = "live" /\ Opened(o).unsettled = FALSE
        /\ \A u \in Tabs : u # t => tab'[u] = tab[u]
    BY <1>2, <1>0 DEF Opened
  <2>2. lease[t].state = "absent" BY <1>2, <1>0 DEF Kernel, UnopenedAbsent
  <2>3. act'[o].pc = "reserve" /\ act'[o].tab = t /\ \A q \in Ops : q # o => act'[q] = act[q]
    BY <1>2, <1>0 DEF Holding, At, Acts, Actors
  <2>4. ReadersFenced' /\ OneLeasePerConversation' /\ OneTabPerProcess' /\ ControlExcludesLeases'
    BY <1>0, <1>2 DEF ReadersFenced, OneLeasePerConversation, OneTabPerProcess, ControlExcludesLeases,
                      ControlActive, IsFenced, Kernel
  <2>5. UnopenedAbsent' BY <2>1, <1>0, <1>2 DEF UnopenedAbsent, Kernel
  <2>6. IdleSettled' BY <2>1, <1>0, <1>2 DEF IdleSettled, Kernel
  <2>7. OneReserver'
    <3>1. \A q \in Ops : act[q].pc = "reserve" => act[q].tab # t
      BY <1>0, <1>2 DEF Kernel, Placed
    <3>2. QED BY <2>3, <3>1, <1>0 DEF Kernel, OneReserver
  <2>8. ASSUME NEW q \in Ops PROVE Placed(q)'
    <3>1. CASE q = o BY <3>1, <2>1, <2>2, <2>3, <1>2 DEF Placed, Named, Unprompted
    <3>2. CASE q # o
      <4>1. Placed(q) /\ act'[q] = act[q] /\ lease' = lease BY <3>2, <2>3, <1>0, <1>2 DEF Kernel
      <4>2. act[q].pc \in Unprompted \cup {"reserve"} => act[q].tab \in Tabs
        BY <4>1 DEF Placed, Named, Unprompted
      <4>3. act[q].pc = "reserve" => tab'[act[q].tab].at # "unopened" /\ ~tab'[act[q].tab].unsettled
        BY <4>1, <4>2, <2>1 DEF Placed
      <4>4. act[q].pc \in Unprompted => ~tab'[act[q].tab].unsettled
        BY <4>1, <4>2, <2>1 DEF Placed
      <4>5. QED BY <4>1, <4>3, <4>4 DEF Placed
    <3>3. QED BY <3>1, <3>2
  <2>9. QED BY <2>4, <2>5, <2>6, <2>7, <2>8 DEF Sound, Kernel
<1>3. QED BY <1>1, <1>2 DEF OpenTab, Unopened

\* The owner of a lease goes on with it, and one whose lease is gone does not.
LEMMA OwnerKeeps ==
    ASSUME CustodyAssumption, CustodyInv, NEW o \in Ops,
           \/ AdoptTab(o) \/ RecordCreation(o) \/ Renew(o) \/ ReadAnswer(o) \/ SubmitPrompt(o)
           \/ SettleLease(o)
    PROVE  Sound'
<1> USE CustodyAssumption
<1> DEFINE t == act[o].tab
<1>0. /\ TypeOK /\ Kernel /\ ReadersFenced /\ lease \in Leases /\ act \in Acts /\ o \in Actors
      /\ OneLeasePerConversation /\ OneTabPerProcess /\ UNCHANGED control /\ Placed(o)
      /\ tab \in [Tabs -> TabRecords] /\ act[o].pc \in {"adopt", "record", "prompt", "submitted", "answered"}
  BY TypeParts DEF CustodyInv, Kernel, Actors, AdoptTab, RecordCreation, Renew, ReadAnswer, SubmitPrompt,
       SettleLease, Runs, Elsewhere
<1>t. t \in Tabs BY <1>0 DEF Placed, Named
<1>l. Easy(o, lease) BY <1>0, SameEasy
<1>c. ControlActive' => ControlActive BY <1>0 DEF ControlActive
<1>e. ASSUME End(o, lease), UNCHANGED tab PROVE Sound'
  <2>1. Calm BY <1>e DEF Calm
  <2>2. QED BY <2>1, <1>e, <1>0, <1>l, <1>c, EndKeeps
<1>g. ASSUME NEW s, Goto(o, s) PROVE act'[o].pc = s /\ act'[o].tab = t /\ \A q \in Ops : q # o => act'[q] = act[q]
  BY <1>g, <1>0 DEF Goto, Acts, ActRecords, Actors
<1>p. ASSUME NEW s, Goto(o, s), s \notin Named, UNCHANGED <<lease, tab>> PROVE Sound'
  <2> DEFINE a == [act[o] EXCEPT !.pc = s]
  <2>1. act' = [act EXCEPT ![o] = a] BY <1>p, <1>0 DEF Goto, Acts
  <2>2. a.pc \notin Named BY <1>p, <1>0 DEF Acts, ActRecords
  <2>3. Easy(o, lease') BY <1>p, <1>l
  <2> HIDE DEF a
  <2>4. QED BY <2>1, <2>2, <2>3, <1>p, <1>0, <1>c, PassiveKeeps
<1>u. ASSUME Claims(o, t), lease' = Writes(o, t, Used(t))
      PROVE  /\ Easy(o, lease')
             /\ lease'[t].state = "active" /\ lease'[t].owner = o
  <2>1. IsFenced(t) BY <1>u DEF Claims, IsFenced, Fenced
  <2>2. Used(t) \in LeaseRecords /\ Used(t).state = "active" /\ Used(t).owner = o
    BY <1>u, <1>t, <1>0, RecordsTyped DEF Used, Claims, Leases, LeaseRecords
  <2>3. Easy(o, lease') BY <2>1, <2>2, <1>u, <1>t, <1>0, UsedEasy, WritesEasy
  <2>4. lease'[t] = [Used(t) EXCEPT !.readers = {o}] BY <1>u, <1>t, <1>0 DEF Writes, Leases
  <2>5. QED BY <2>2, <2>3, <2>4 DEF LeaseRecords
\* the operation is at s with its tab, whose lease is its own
<1>h. ASSUME NEW s, Goto(o, s) \/ (act' = act /\ s = act[o].pc), s # "reserve", s \in Named,
             UNCHANGED tab, ~tab[t].unsettled \/ s \notin Unprompted,
             Easy(o, lease'), lease'[t].state = "active", lease'[t].owner = o
      PROVE  Sound'
  <2>1. act'[o].pc = s /\ act'[o].tab = t /\ \A q \in Ops : q # o => act'[q] = act[q]
    BY <1>h, <1>g
  <2>2. Placed(o)' BY <2>1, <1>t, <1>h DEF Placed
  <2>3. Calm BY <1>h DEF Calm
  <2>4. QED BY <2>1, <2>2, <2>3, <1>h, <1>0, <1>c, EasyKeeps
<1>1. CASE AdoptTab(o) \/ RecordCreation(o)
  <2>0. UNCHANGED tab BY <1>1 DEF AdoptTab, RecordCreation, Elsewhere
  <2>1. CASE End(o, lease) BY <2>0, <2>1, <1>e
  <2>2. CASE Goto(o, "rollback") /\ UNCHANGED lease BY <2>0, <2>2, <1>p DEF Named
  <2>3. CASE Records(o) /\ lease' = Writes(o, t, Used(t)) /\ Goto(o, "prompt")
    <3>1. ~tab[t].unsettled BY <1>1, <1>0 DEF AdoptTab, RecordCreation, Runs, Placed, Unprompted
    <3>2. Easy(o, lease') /\ lease'[t].state = "active" /\ lease'[t].owner = o BY <2>3, <1>u DEF Records
    <3>3. QED BY <2>0, <2>3, <3>1, <3>2, <1>h DEF Named
  <2>4. QED BY <1>1, <2>1, <2>2, <2>3 DEF AdoptTab, RecordCreation
<1>2. CASE Renew(o)
  <2>0. UNCHANGED tab /\ act[o].pc \in {"prompt", "submitted"} BY <1>2 DEF Renew, Elsewhere
  <2>1. CASE Goto(o, "uncertain") /\ UNCHANGED lease BY <2>0, <2>1, <1>p DEF Named
  <2>2. CASE Records(o) /\ lease' = Writes(o, t, Used(t)) /\ UNCHANGED act
    <3>1. act[o].pc = "prompt" => ~tab[t].unsettled BY <1>0 DEF Placed, Unprompted
    <3>2. Easy(o, lease') /\ lease'[t].state = "active" /\ lease'[t].owner = o BY <2>2, <1>u DEF Records
    <3>3. act' = act /\ act[o].pc \in Named /\ act[o].pc # "reserve"
          /\ (~tab[t].unsettled \/ act[o].pc \notin Unprompted)
      BY <2>0, <2>2, <3>1 DEF Named, Unprompted
    <3>4. QED BY <2>0, <3>2, <3>3, <1>h
  <2>3. QED BY <1>2, <2>1, <2>2 DEF Renew
<1>3. CASE ReadAnswer(o)
  <2>1. Goto(o, "answered") /\ UNCHANGED <<lease, tab>> BY <1>3 DEF ReadAnswer, Elsewhere
  <2>2. act'[o].pc = "answered" /\ act'[o].tab = t /\ \A q \in Ops : q # o => act'[q] = act[q]
    BY <2>1, <1>g
  <2>3. Placed(o)' BY <2>2, <1>t DEF Placed, Unprompted
  <2>4. Calm BY <2>1 DEF Calm
  <2>5. Easy(o, lease') BY <2>1, <1>l
  <2>6. QED BY <2>2, <2>3, <2>4, <2>5, <1>0, <1>c, EasyKeeps
<1>4. CASE SubmitPrompt(o)
  <2>1. CASE Goto(o, "uncertain") /\ UNCHANGED <<lease, tab>> BY <2>1, <1>p DEF Named
  <2>2. CASE /\ Claims(o, t) /\ Goto(o, "submitted") /\ UNCHANGED lease
             /\ tab' = [tab EXCEPT ![t].page = Conversation[o], ![t].answering = TRUE, ![t].unsettled = TRUE]
    <3>1. act'[o].pc = "submitted" /\ act'[o].tab = t /\ \A q \in Ops : q # o => act'[q] = act[q]
      BY <2>2, <1>g
    <3>2. Placed(o)' BY <3>1, <1>t DEF Placed, Unprompted
    <3>3. \A u \in Tabs : tab'[u].at = tab[u].at /\ (u # t => tab'[u] = tab[u])
      BY <2>2, <1>0, <1>t DEF TabRecords
    <3>4. lease[t].state = "active" /\ lease[t].owner = o /\ lease' = lease BY <2>2 DEF Claims
    <3>5. \A u \in Tabs :
             /\ tab[u].at # "unopened" => tab'[u].at # "unopened"
             /\ tab'[u].unsettled => \/ tab[u].unsettled
                                     \/ lease[u].state = "active" /\ lease[u].owner = o /\ lease'[u].state = "active"
      BY <3>3, <3>4
    <3>6. Drifting(o, lease') BY <3>4, <1>l DEF Easy, Drifting
    <3>7. \A u \in Tabs : lease[u].state = "absent" => lease'[u].state # "active" BY <3>4
    <3>8. DriftStep(o) BY <3>1, <3>2, <3>5, <3>6, <3>7, <1>c DEF DriftStep
    <3>9. OneLeasePerConversation' /\ OneTabPerProcess'
      BY <3>4, <1>0 DEF OneLeasePerConversation, OneTabPerProcess, IsFenced
    <3>10. QED BY <3>8, <3>9, <1>0, DriftKeeps DEF Sound
  <2>3. QED BY <1>4, <2>1, <2>2 DEF SubmitPrompt
<1>5. CASE SettleLease(o)
  <2> DEFINE l == IF o \in New THEN [lease[t] EXCEPT !.workload = Conversation[o]] ELSE Used(t)
             r == [l EXCEPT !.readers = {o}]
  <2>1. CASE Goto(o, "uncertain") /\ UNCHANGED <<lease, tab>> BY <2>1, <1>p DEF Named
  <2>2. CASE /\ Records(o) /\ (o \in New => WorkloadTabs(Conversation[o]) \subseteq {t})
             /\ lease' = Writes(o, t, l) /\ tab' = [tab EXCEPT ![t].unsettled = FALSE] /\ Goto(o, "settled")
    <3>1. lease[t] \in LeaseRecords /\ lease[t].state = "active" /\ lease[t].owner = o
      BY <2>2, <1>t, <1>0 DEF Records, Claims, Leases
    <3>2. /\ r.state = "active" /\ r.owner = o /\ r.effect = lease[t].effect /\ r.bound = lease[t].bound
          /\ r.workload = IF o \in New THEN Conversation[o] ELSE lease[t].workload
      BY <3>1 DEF Used, LeaseRecords
    <3>3. lease' = [lease EXCEPT ![t] = r] BY <2>2 DEF Writes
    <3> HIDE DEF l, r
    <3>4. lease'[t] = r /\ \A u \in Tabs : u # t => lease'[u] = lease[u] BY <3>3, <1>t, <1>0 DEF Leases
    <3>5. /\ \A u \in Tabs : u # t /\ IsFenced(u) => lease[u].workload # r.workload
          /\ \A u \in Tabs : u # t /\ IsFenced(u) /\ lease[u].bound = r.bound => r.bound = None
      <4>1. IsFenced(t) BY <3>1 DEF IsFenced, Fenced
      <4>2. CASE o \in New BY <4>1, <4>2, <2>2, <3>2, <1>0, <1>t DEF WorkloadTabs, OneTabPerProcess
      <4>3. CASE o \notin New
        BY <4>1, <4>3, <3>2, <1>0, <1>t DEF OneLeasePerConversation, OneTabPerProcess
      <4>4. QED BY <4>2, <4>3
    <3>6. OneLeasePerConversation' BY <3>4, <3>5, <1>0 DEF OneLeasePerConversation, IsFenced
    <3>7. OneTabPerProcess' BY <3>4, <3>5, <1>0 DEF OneTabPerProcess, IsFenced
    <3>8. act'[o].pc = "settled" /\ act'[o].tab = t /\ \A q \in Ops : q # o => act'[q] = act[q]
      BY <2>2, <1>g
    <3>9. \A u \in Tabs : /\ tab'[u].at = tab[u].at
                          /\ u # t => tab'[u] = tab[u]
                          /\ u = t => ~tab'[u].unsettled
      BY <2>2, <1>0, <1>t DEF TabRecords
    <3>10. Placed(o)' BY <3>2, <3>4, <3>8, <3>9, <1>t DEF Placed
    <3>11. Drifting(o, lease')
      BY <3>1, <3>2, <3>4, <1>0 DEF Drifting, Drifts, ReadersFenced, IsFenced, Fenced
    <3>12. \A u \in Tabs : lease[u].state = "absent" => lease'[u].state # "active" BY <3>1, <3>4
    <3>13. \A u \in Tabs : /\ tab[u].at # "unopened" => tab'[u].at # "unopened"
                           /\ tab'[u].unsettled => tab[u].unsettled
      BY <3>9
    <3>14. DriftStep(o) BY <3>8, <3>10, <3>11, <3>12, <3>13, <1>c DEF DriftStep
    <3>15. QED BY <3>6, <3>7, <3>14, <1>0, DriftKeeps DEF Sound
  <2>3. QED BY <1>5, <2>1, <2>2 DEF SettleLease
<1>6. QED BY <1>1, <1>2, <1>3, <1>4, <1>5

\* The tab of an operation is given back, or closed.
LEMMA LeaveKeeps ==
    ASSUME CustodyAssumption, CustodyInv, NEW o \in Ops,
           FailBeforeEffect(o) \/ GiveBack(o) \/ DiscardTab(o) \/ RollbackClose(o)
    PROVE  Sound'
<1> USE CustodyAssumption
<1> DEFINE t == act[o].tab
           L == IF Claims(o, t) THEN Writes(o, t, Idled(t, "safe")) ELSE lease
<1>0. /\ TypeOK /\ Kernel /\ ReadersFenced /\ lease \in Leases /\ act \in Acts /\ o \in Actors
      /\ UNCHANGED control /\ Placed(o) /\ tab \in [Tabs -> TabRecords]
  BY TypeParts DEF CustodyInv, Kernel, Actors, FailBeforeEffect, GiveBack, DiscardTab, RollbackClose
<1>l. Easy(o, lease) BY <1>0, SameEasy
<1>c. ControlActive' => ControlActive BY <1>0 DEF ControlActive
<1>i. ASSUME act[o].pc \in {"prompt", "settled"} PROVE L \in Leases /\ Easy(o, L)
  <2>1. t \in Tabs /\ ~tab[t].unsettled BY <1>i, <1>0 DEF Placed, Named, Unprompted
  <2>2. "safe" \in Effects BY DEF Effects
  <2>3. CASE Claims(o, t)
    <3>1. Idled(t, "safe") \in LeaseRecords BY <2>1, <2>2, <1>0, RecordsTyped
    <3>2. Drifts(o, t, Idled(t, "safe")) /\ Tame(t, Idled(t, "safe")) /\ Idled(t, "safe").state \in Fenced
      BY <2>1, <2>2, <2>3, <1>0, IdledEasy
    <3>3. QED BY <2>3, <3>1, <3>2, <1>0, WritesEasy, WritesTyped
  <2>4. CASE ~Claims(o, t) BY <2>4, <1>0, <1>l
  <2>5. QED BY <2>3, <2>4
<1>k. ASSUME Close(t) PROVE Calm
  <2>1. Closed.at = "gone" /\ Closed.unsettled = FALSE BY DEF Closed, NoTab
  <2>2. QED BY <1>k, <2>1, <1>0 DEF Close, Calm
<1>1. CASE FailBeforeEffect(o)
  <2>1. Calm
    <3>1. CASE UNCHANGED tab BY <3>1 DEF Calm
    <3>2. CASE tab' = [tab EXCEPT ![t].page = Conversation[o]] BY <3>2, <1>0 DEF Calm, TabRecords
    <3>3. QED BY <1>1, <3>1, <3>2 DEF FailBeforeEffect
  <2>2. End(o, L) /\ act[o].pc = "prompt" BY <1>1 DEF FailBeforeEffect, Runs
  <2>3. L \in Leases /\ Easy(o, L) BY <2>2, <1>i
  <2> HIDE DEF L
  <2>4. QED BY <2>1, <2>2, <2>3, <1>c, EndKeeps
<1>2. CASE GiveBack(o)
  <2>1. Calm BY <1>2 DEF GiveBack, Elsewhere, Calm
  <2>2. End(o, L) /\ act[o].pc = "settled" BY <1>2 DEF GiveBack, Runs
  <2>3. L \in Leases /\ Easy(o, L) BY <2>2, <1>i
  <2> HIDE DEF L
  <2>4. QED BY <2>1, <2>2, <2>3, <1>c, EndKeeps
<1>3. CASE DiscardTab(o)
  BY <1>3, <1>0, <1>k, <1>l, <1>c, EndKeeps DEF DiscardTab
<1>4. CASE RollbackClose(o)
  <2>0. Calm BY <1>4, <1>k DEF RollbackClose
  <2>1. CASE End(o, lease) BY <2>0, <2>1, <1>0, <1>l, <1>c, EndKeeps
  <2>2. CASE Goto(o, "undone") /\ UNCHANGED lease
    <3>1. act'[o].pc = "undone" /\ \A q \in Ops : q # o => act'[q] = act[q]
      BY <2>2, <1>0 DEF Goto, Acts, ActRecords, Actors
    <3>2. Placed(o)' BY <3>1 DEF Placed, Named, Unprompted
    <3>3. Easy(o, lease') BY <2>2, <1>l
    <3>4. QED BY <2>0, <3>1, <3>2, <3>3, <1>0, <1>c, EasyKeeps
  <2>3. QED BY <1>4, <2>1, <2>2 DEF RollbackClose
<1>5. QED BY <1>1, <1>2, <1>3, <1>4

\* Every step of an operation keeps the invariant.
LEMMA OpKeeps ==
    ASSUME CustodyAssumption, CustodyInv, NEW o \in Ops, OpStep(o) \/ Renew(o)
    PROVE  Sound'
BY OpEasyKeeps, TakeKeeps, ReserveKeeps, OpenKeeps, OwnerKeeps, LeaveKeeps DEF OpStep

-----------------------------------------------------------------------------
(* Maintenance, time, and faults.                                          *)

\* So does every step of the maintenance pass,
LEMMA KeeperKeeps ==
    ASSUME CustodyAssumption, CustodyInv, KeeperStep
    PROVE  Sound'
<1> USE CustodyAssumption
<1>0. /\ TypeOK /\ Kernel /\ ReadersFenced /\ lease \in Leases /\ act \in Acts /\ tab \in [Tabs -> TabRecords]
      /\ Keeper \in Actors /\ Keeper \notin Ops
  BY TypeParts DEF CustodyInv, Kernel, Actors, CustodyAssumption
<1>s. Easy(Keeper, lease) BY <1>0, SameEasy
<1>k. ASSUME NEW t, Close(t) PROVE Calm
  <2>1. Closed.at = "gone" /\ Closed.unsettled = FALSE BY DEF Closed, NoTab
  <2>2. QED BY <1>k, <2>1, <1>0 DEF Close, Calm
<1>1. UNCHANGED control
  BY DEF KeeperStep, BeginPass, Census, ListLost, ReleaseClosed, ListExpired, CloseExpired,
       FinishRetirement, FinishPass, Reconcile, VisitLost, BeginRetirement, Kept
<1>2. Calm
  <2>1. UNCHANGED tab \/ \E t : Close(t)
    BY DEF KeeperStep, BeginPass, Census, ListLost, ReleaseClosed, ListExpired, CloseExpired,
         FinishRetirement, FinishPass, Reconcile, VisitLost, BeginRetirement, Kept
  <2>2. CASE UNCHANGED tab BY <2>2 DEF Calm
  <2>3. QED BY <2>1, <2>2, <1>k
<1>3. \A o \in Ops : act'[o] = act[o]
  BY <1>0 DEF KeeperStep, BeginPass, Census, ListLost, ReleaseClosed, ListExpired, CloseExpired,
       FinishRetirement, FinishPass, Reconcile, VisitLost, BeginRetirement, NextLease, With, List, EndPass, Acts, Actors
<1>a. ASSUME EndPass PROVE Easy(Keeper, lease')
  BY <1>a, <1>0, <1>s, ForgottenEasy DEF EndPass
<1>b. ASSUME NEW t, Skip(t) PROVE Easy(Keeper, lease')
  BY <1>b, <1>0, <1>s, ForgottenEasy DEF Skip
<1>c. ASSUME NEW p, NEW S \in SUBSET Fenced, List(p, S) PROVE Easy(Keeper, lease')
  <2>1. \A t \in {u \in Tabs : lease[u].state \in S} : IsFenced(t) BY DEF IsFenced
  <2>2. QED BY <1>c, <2>1, <1>0, ReadsEasy DEF List
<1>d. ASSUME NEW t, WriteLast(t, Released) PROVE Easy(Keeper, lease')
  <2>1. t \in Tabs => Released \in LeaseRecords /\ (IsFenced(t) => Drifts(Keeper, t, Released) /\ Tame(t, Released))
    BY <1>0, RecordsTyped, ReleasedEasy
  <2>2. QED BY <1>d, <2>1, <1>0, WriteLastEasy
<1>e. ASSUME NEW t \in Tabs, WriteLast(t, MarkedLost(t)) PROVE Easy(Keeper, lease')
  <2>1. MarkedLost(t) \in LeaseRecords /\ (IsFenced(t) => Drifts(Keeper, t, MarkedLost(t)) /\ Tame(t, MarkedLost(t)))
    BY <1>0, RecordsTyped, LostEasy
  <2>2. QED BY <1>e, <2>1, <1>0, WriteLastEasy
<1>f. ASSUME NEW t, WriteLast(t, [lease[t] EXCEPT !.state = "lost"]) PROVE Easy(Keeper, lease')
  <2> DEFINE l == [lease[t] EXCEPT !.state = "lost"]
  <2>1. t \in Tabs => l \in LeaseRecords /\ (IsFenced(t) => Drifts(Keeper, t, l) /\ Tame(t, l))
    <3>1. SUFFICES ASSUME t \in Tabs PROVE l \in LeaseRecords /\ (IsFenced(t) => Drifts(Keeper, t, l) /\ Tame(t, l))
      OBVIOUS
    <3>2. lease[t] \in LeaseRecords BY <3>1, <1>0 DEF Leases
    <3>3. QED BY <3>1, <3>2 DEF LeaseRecords, Drifts, Tame, Fenced, IsFenced
  <2> HIDE DEF l
  <2>2. WriteLast(t, l) BY <1>f DEF l
  <2>3. QED BY <2>1, <2>2, <1>0, WriteLastEasy
<1>4. Easy(Keeper, lease')
  <2>1. CASE BeginPass \/ CloseExpired BY <2>1, <1>s DEF BeginPass, CloseExpired
  <2>2. CASE Census \/ ListLost \/ ListExpired \/ FinishPass
    BY <2>2, <1>a, <1>c DEF Census, ListLost, ListExpired, FinishPass, Fenced
  <2>3. CASE ReleaseClosed BY <2>3, <1>d DEF ReleaseClosed
  <2>4. CASE FinishRetirement BY <2>4, <1>d, <1>f DEF FinishRetirement
  <2>5. ASSUME NEW t \in Tabs, Reconcile(t) PROVE Easy(Keeper, lease')
    BY <2>5, <1>b, <1>e DEF Reconcile
  <2>6. ASSUME NEW t \in Tabs, VisitLost(t) PROVE Easy(Keeper, lease')
    BY <2>6, <1>b, <1>d, <1>s DEF VisitLost
  <2>7. ASSUME NEW t \in Tabs, BeginRetirement(t) PROVE Easy(Keeper, lease')
    <3> DEFINE l == [lease[t] EXCEPT !.state = "retiring"]
    <3>1. CASE Skip(t) BY <3>1, <1>b
    <3>2. CASE UNCHANGED lease BY <3>2, <1>s
    <3>3. CASE lease[t].state = "idle" /\ lease' = Writes(Keeper, t, l)
      <4>1. lease[t] \in LeaseRecords BY <1>0 DEF Leases
      <4>2. l \in LeaseRecords /\ l.state \in Fenced BY <4>1 DEF LeaseRecords, Fenced
      <4>3. Drifts(Keeper, t, l) /\ Tame(t, l)
        BY <3>3, <4>1 DEF LeaseRecords, Drifts, Tame, Fenced, IsFenced
      <4> HIDE DEF l
      <4>4. QED BY <3>3, <4>2, <4>3, <1>0, WritesEasy
    <3>4. QED BY <2>7, <3>1, <3>2, <3>3 DEF BeginRetirement
  <2>8. QED BY <2>1, <2>2, <2>3, <2>4, <2>5, <2>6, <2>7 DEF KeeperStep
<1>5. ControlActive' => ControlActive BY <1>1 DEF ControlActive
<1>6. QED BY <1>0, <1>2, <1>3, <1>4, <1>5, EasyKeeps

\* time, the browser, and every crash.
LEMMA FaultKeeps ==
    ASSUME CustodyAssumption, CustodyInv,
           \/ \E t \in Tabs : Age(t) \/ AnswerEnds(t)
           \/ ControlExpires \/ BrowserStarts \/ BrowserExits
           \/ (\E p \in Procs : CrashProcess(p)) \/ CrashKeeper \/ UNCHANGED vars
    PROVE  Sound'
<1> USE CustodyAssumption
<1>0. /\ TypeOK /\ Kernel /\ ReadersFenced /\ lease \in Leases /\ act \in Acts /\ tab \in [Tabs -> TabRecords]
      /\ Keeper \in Actors /\ Keeper \notin Ops
  BY TypeParts DEF CustodyInv, Kernel, Actors, CustodyAssumption
<1>s. Easy(Keeper, lease) BY <1>0, SameEasy
<1>k. ASSUME Easy(Keeper, lease'), Calm, ControlActive' => ControlActive,
             \A o \in Ops : act'[o] = act[o] \/ act'[o].pc = "ended"
      PROVE  Sound'
  BY <1>k, <1>0, EasyKeeps
<1>1. ASSUME NEW t \in Tabs, Age(t) PROVE Sound'
  <2>1. \A u \in Tabs : /\ lease'[u].state = lease[u].state /\ lease'[u].owner = lease[u].owner
                        /\ lease'[u].effect = lease[u].effect /\ lease'[u].readers = lease[u].readers
                        /\ lease'[u].workload = lease[u].workload /\ lease'[u].bound = lease[u].bound
    BY <1>1, <1>0 DEF Age, Leases, LeaseRecords
  <2>2. Easy(Keeper, lease') BY <2>1, <1>s DEF Easy, Drifts, Tame
  <2>3. Calm /\ (ControlActive' => ControlActive) /\ act' = act
    BY <1>1 DEF Age, Elsewhere, Calm, ControlActive
  <2>4. QED BY <2>2, <2>3, <1>k
<1>2. ASSUME NEW t \in Tabs, AnswerEnds(t) PROVE Sound'
  <2>1. \A u \in Tabs : tab'[u].at = tab[u].at /\ tab'[u].unsettled = tab[u].unsettled
    BY <1>2, <1>0 DEF AnswerEnds, TabRecords
  <2>2. Calm BY <2>1 DEF Calm
  <2>3. (ControlActive' => ControlActive) /\ act' = act /\ lease' = lease
    BY <1>2 DEF AnswerEnds, ControlActive
  <2>4. QED BY <2>2, <2>3, <1>k, <1>s
<1>3. CASE ControlExpires \/ BrowserStarts \/ UNCHANGED vars
  <2>1. tab' = tab /\ act' = act /\ lease' = lease BY <1>3 DEF ControlExpires, BrowserStarts, Elsewhere, vars
  <2>2. ControlActive' => ControlActive
    <3>1. CASE UNCHANGED control BY <3>1 DEF ControlActive
    <3>2. CASE ControlExpires BY <3>2 DEF ControlExpires, ControlActive
    <3>3. QED BY <1>3, <3>1, <3>2 DEF BrowserStarts, vars
  <2>3. Calm BY <2>1 DEF Calm
  <2>4. QED BY <2>1, <2>2, <2>3, <1>k, <1>s
<1>4. CASE BrowserExits
  <2>1. Closed.at = "gone" /\ Closed.unsettled = FALSE BY DEF Closed, NoTab
  <2>2. Calm BY <1>4, <2>1, <1>0 DEF BrowserExits, Calm
  <2>3. (ControlActive' => ControlActive) /\ act' = act /\ lease' = lease
    BY <1>4 DEF BrowserExits, ControlActive
  <2>4. QED BY <2>2, <2>3, <1>k, <1>s
<1>d. ASSUME NEW A, Dies(A) PROVE Easy(Keeper, lease') /\ Calm /\ (ControlActive' => ControlActive)
  <2>1. \A t \in Tabs : lease'[t] = [lease[t] EXCEPT !.readers = @ \ A] /\ lease[t] \in LeaseRecords
    BY <1>d, <1>0 DEF Dies, Leases
  <2>2. \A t \in Tabs : /\ lease'[t].state = lease[t].state /\ lease'[t].owner = lease[t].owner
                        /\ lease'[t].effect = lease[t].effect /\ lease'[t].readers \subseteq lease[t].readers
                        /\ lease'[t].workload = lease[t].workload /\ lease'[t].bound = lease[t].bound
    <3>1. TAKE t \in Tabs
    <3>2. lease[t] \in LeaseRecords /\ lease'[t] = [lease[t] EXCEPT !.readers = @ \ A] BY <2>1
    <3>3. lease'[t].readers = lease[t].readers \ A BY <3>2 DEF LeaseRecords
    <3>4. /\ lease'[t].state = lease[t].state /\ lease'[t].owner = lease[t].owner
          /\ lease'[t].effect = lease[t].effect /\ lease'[t].workload = lease[t].workload
          /\ lease'[t].bound = lease[t].bound
      BY <3>2 DEF LeaseRecords
    <3>5. QED BY <3>3, <3>4
  <2>3. Easy(Keeper, lease') BY <2>2, <1>0 DEF Easy, Drifts, Tame, ReadersFenced, IsFenced
  <2>4. QED BY <2>3, <1>d DEF Dies, Calm, ControlActive
<1>5. ASSUME NEW p \in Procs, CrashProcess(p) PROVE Sound'
  <2>1. \A o \in Ops : act'[o] = act[o] \/ act'[o].pc = "ended"
    BY <1>5 DEF CrashProcess, Actors, At
  <2>2. QED BY <2>1, <1>5, <1>d, <1>k DEF CrashProcess
<1>6. CASE CrashKeeper
  <2>1. \A o \in Ops : act'[o] = act[o] BY <1>6, <1>0 DEF CrashKeeper, Acts, Actors
  <2>2. QED BY <2>1, <1>6, <1>d, <1>k DEF CrashKeeper
<1>7. QED BY <1>1, <1>2, <1>3, <1>4, <1>5, <1>6

-----------------------------------------------------------------------------
(* The invariant, and what follows from it.                                *)

\* The invariant holds at first, and is kept by every step.
LEMMA CustodyInit ==
    ASSUME CustodyAssumption, Init
    PROVE  CustodyInv
<1> USE CustodyAssumption
<1>1. TypeOK
  <2>1. NoLease \in LeaseRecords BY DEF NoLease, LeaseRecords, Effects
  <2>2. NoTab \in TabRecords BY DEF NoTab, TabRecords
  <2>3. At("rest") \in ActRecords /\ At("asked") \in ActRecords BY AtTyped DEF Steps
  <2>4. Unheld \in [owner : Ops \cup {None}, expired : BOOLEAN] BY DEF Unheld
  <2>5. lease \in Leases /\ tab \in [Tabs -> TabRecords] BY <2>1, <2>2 DEF Init, Leases
  <2>6. act \in Acts BY <2>3 DEF Init, Acts
  <2>7. faults \in 0..MaxFaults BY DEF Init, CustodyAssumption
  <2>8. QED BY <2>4, <2>5, <2>6, <2>7, TypeParts DEF Init
<1>2. \A t \in Tabs : lease[t] = NoLease /\ tab[t] = NoTab BY DEF Init
<1>3. \A o \in Ops : act[o].pc = "asked" BY DEF Init, At, Actors, CustodyAssumption
<1>4. \A t \in Tabs : ~IsFenced(t) BY <1>2 DEF IsFenced, Fenced, NoLease
<1>5. ReadersFenced /\ UnopenedAbsent /\ IdleSettled
  BY <1>2 DEF ReadersFenced, UnopenedAbsent, IdleSettled, NoLease, NoTab
<1>6. OneReserver /\ \A o \in Ops : Placed(o)
  BY <1>3 DEF OneReserver, Placed, Named, Unprompted
<1>7. ControlExcludesLeases /\ OneLeasePerConversation /\ OneTabPerProcess
  BY <1>4 DEF ControlExcludesLeases, OneLeasePerConversation, OneTabPerProcess
<1>8. QED BY <1>1, <1>5, <1>6, <1>7 DEF CustodyInv, Kernel

LEMMA CustodyStep ==
    ASSUME CustodyAssumption, CustodyInv, [Next]_vars
    PROVE  CustodyInv'
<1>1. TypeOK' BY StepTyped DEF CustodyInv
<1>2. Sound'
  <2>1. CASE \E o \in Ops : OpStep(o) \/ Renew(o) BY <2>1, OpKeeps
  <2>2. CASE KeeperStep BY <2>2, KeeperKeeps
  <2>3. CASE \/ \E t \in Tabs : Age(t) \/ AnswerEnds(t)
             \/ ControlExpires \/ BrowserStarts \/ BrowserExits
             \/ (\E p \in Procs : CrashProcess(p)) \/ CrashKeeper \/ UNCHANGED vars
    BY <2>3, FaultKeeps
  <2>4. QED BY <2>1, <2>2, <2>3 DEF Next
<1>3. QED BY <1>1, <1>2 DEF CustodyInv, Sound

\* The inductive invariant holds throughout.
LEMMA CustodyInvariant == Spec => []CustodyInv
<1>1. Init => CustodyInv BY CustodyInit, CustodyAssumption
<1>2. CustodyInv /\ [Next]_vars => CustodyInv' BY CustodyStep, CustodyAssumption
<1>3. QED BY <1>1, <1>2, PTL DEF Spec

\* Every step of the registry's operations, of maintenance and of the faults keeps
\* the records well formed.
THEOREM CustodyTyped == Spec => []TypeOK
<1>1. CustodyInv => TypeOK BY DEF CustodyInv
<1>2. QED BY <1>1, CustodyInvariant, PTL

\* No two fenced leases are ever bound to one conversation, however many processes,
\* operations and tabs there are and whatever crashes, expires or is closed between
\* the reads and the writes of an operation.
THEOREM OneLeasePerConversationHolds == Spec => []OneLeasePerConversation
<1>1. CustodyInv => OneLeasePerConversation BY DEF CustodyInv
<1>2. QED BY <1>1, CustodyInvariant, PTL

\* Nor to one process, although it looks for its tab in three separate operations.
THEOREM OneTabPerProcessHolds == Spec => []OneTabPerProcess
<1>1. CustodyInv => OneTabPerProcess BY DEF CustodyInv
<1>2. QED BY <1>1, CustodyInvariant, PTL

\* The browser is started by nobody who could disturb a tab in use, also when an
\* expired control is pruned under its owner.
THEOREM ControlExcludesLeasesHolds == Spec => []ControlExcludesLeases
<1>1. CustodyInv => ControlExcludesLeases BY DEF CustodyInv, Kernel
<1>2. QED BY <1>1, CustodyInvariant, PTL

\* No operation ever prompts a tab whose last prompt nobody settled.
THEOREM NeverReusesUnsettledHolds == Spec => []NeverReusesUnsettled
<1>1. CustodyInv => NeverReusesUnsettled BY DEF CustodyInv, Kernel, Placed, Unprompted, NeverReusesUnsettled
<1>2. QED BY <1>1, CustodyInvariant, PTL
=============================================================================
