---------------------------- MODULE DrainGatesProofs ----------------------------
(***************************************************************************)
(* The gates and the dispatch of DrainGates, for any number of runs, pool  *)
(* members, crashes and cancellations.                                     *)
(***************************************************************************)
EXTENDS DrainGates, FiniteSetTheorems, SequenceTheorems, TLAPS

--------------------------------------------------------------------------------
(***************************************************************************)
(* Numbers and finite sets.                                                *)
(***************************************************************************)
\* Every set of natural numbers that is not empty has a least element.
LEMMA LeastNumber ==
    ASSUME NEW T \in SUBSET Nat, T # {}
    PROVE  \E n \in T : \A k \in T : n <= k
<1>1. \E x \in T : \A y \in T : ~ (<<y, x>> \in OpToRel(<, Nat))
  BY WFMin, NatLessThanWellFounded, Zenon
<1>2. PICK x \in T : \A y \in T : ~ (<<y, x>> \in OpToRel(<, Nat)) BY <1>1
<1>3. \A y \in T : <<y, x>> \in OpToRel(<, Nat) <=> y < x
  BY DEF OpToRel
<1>4. \A y \in T : ~ (y < x) BY <1>2, <1>3, Zenon
<1> QED BY <1>4

LEMMA MinIsLeast ==
    ASSUME NEW S \in SUBSET Nat, S # {}
    PROVE  Min(S) \in S /\ \A y \in S : Min(S) <= y
  BY LeastNumber DEF Min

LEMMA MinOfTwo ==
    ASSUME NEW a \in Nat, NEW b \in Nat
    PROVE  Min({a, b}) \in {a, b} /\ Min({a, b}) <= a /\ Min({a, b}) <= b
  BY MinIsLeast

\* The runs are finitely many, and so are those of any set of them.
LEMMA RunSets ==
    ASSUME NEW S \in SUBSET Runs
    PROVE  /\ IsFiniteSet(S)
           /\ Cardinality(S) \in 0..NumRuns
           /\ \A T \in SUBSET S : Cardinality(T) <= Cardinality(S)
<1>1. IsFiniteSet(Runs) /\ Cardinality(Runs) = NumRuns
  <2>1. 1 \in Int /\ NumRuns \in Int /\ ~(1 > NumRuns) /\ NumRuns - 1 + 1 = NumRuns
    BY GatesAssumption
  <2> QED BY <2>1, FS_Interval DEF Runs
<1>2. IsFiniteSet(S) /\ Cardinality(S) <= NumRuns BY <1>1, FS_Subset
<1> QED BY <1>2, FS_Subset, FS_CardinalityType, GatesAssumption

\* One run more keeps a number that is below a limit within it.
LEMMA OneMore ==
    ASSUME NEW S \in SUBSET Runs, NEW T \in SUBSET Runs, NEW r \in Runs, T \subseteq S \cup {r},
           NEW limit \in Nat, Cardinality(S) < limit
    PROVE  Cardinality(T) <= limit
<1>1. IsFiniteSet(S) /\ Cardinality(S) \in Nat BY RunSets, FS_CardinalityType
<1>2. S \cup {r} \in SUBSET Runs OBVIOUS
<1>3. Cardinality(S \cup {r}) <= Cardinality(S) + 1
  <2>1. Cardinality(S \cup {r}) = IF r \in S THEN Cardinality(S) ELSE Cardinality(S) + 1
    BY <1>1, FS_AddElement
  <2> QED BY <1>1, <2>1
<1>4. Cardinality(T) <= Cardinality(S \cup {r}) /\ Cardinality(T) \in Nat
        /\ Cardinality(S \cup {r}) \in Nat
  BY <1>2, RunSets, FS_CardinalityType
<1> QED BY <1>1, <1>3, <1>4
--------------------------------------------------------------------------------
(***************************************************************************)
(* The plan of a pass.                                                     *)
(***************************************************************************)
Ascending(s, S) ==
    s \in [1..Cardinality(S) -> S] /\ \A i, j \in DOMAIN s : i < j => s[i] < s[j]

\* Every finite set of runs can be put in order, by induction on its largest run.
LEMMA OrderExists ==
    ASSUME NEW S \in SUBSET Runs
    PROVE  \E s : Ascending(s, S)
<1> DEFINE Fails == {n \in Nat : \E U \in SUBSET (1..n) : ~ \E s : Ascending(s, U)}
<1>1. ASSUME Fails # {} PROVE FALSE
  <2>1. PICK n \in Fails : \A k \in Fails : n <= k
    <3> HIDE DEF Fails
    <3> QED BY <1>1, LeastNumber DEF Fails
  <2>2. PICK U \in SUBSET (1..n) : ~ \E s : Ascending(s, U) BY <2>1
  <2>3. n \in Nat BY <2>1
  <2>4. \A m \in Nat : m < n => \A V \in SUBSET (1..m) : \E s : Ascending(s, V) BY <2>1
  <2> HIDE DEF Fails
  <2>5. ASSUME NEW V \in SUBSET (1..n) PROVE IsFiniteSet(V) /\ Cardinality(V) \in Nat
    <3>1. 1 \in Int /\ n \in Int BY <2>3
    <3>2. IsFiniteSet(1..n) BY <3>1, FS_Interval
    <3> QED BY <3>2, FS_Subset, FS_CardinalityType
  <2>6. CASE n = 0
    <3>0. U = {} BY <2>6
    <3>1. U = {} /\ Cardinality(U) = 0 BY <3>0, FS_EmptySet
    <3>2. Ascending([i \in {} |-> 0], U) BY <3>1 DEF Ascending
    <3> QED BY <2>2, <3>2
  <2>7. CASE n # 0 /\ n \notin U
    <3>1. n - 1 \in Nat /\ n - 1 < n /\ U \in SUBSET (1..(n - 1)) BY <2>3, <2>7
    <3> QED BY <2>2, <2>4, <3>1
  <2>8. CASE n # 0 /\ n \in U
    <3> DEFINE V == U \ {n}
               c == Cardinality(U)
    <3>1. n - 1 \in Nat /\ n - 1 < n /\ V \in SUBSET (1..(n - 1)) BY <2>3, <2>8
    <3>2. PICK s : Ascending(s, V) BY <2>4, <3>1
    <3>3. c \in Nat /\ c > 0 /\ Cardinality(V) = c - 1
      <4>1. Cardinality(V) = c - 1 /\ Cardinality(V) \in Nat /\ c \in Nat
        BY <2>5, <2>8, FS_RemoveElement
      <4> QED BY <4>1
    <3> DEFINE t == [i \in 1..c |-> IF i = c THEN n ELSE s[i]]
    <3> HIDE DEF c
    <3>4. s \in [1..(c - 1) -> V] /\ \A i, j \in 1..(c - 1) : i < j => s[i] < s[j]
      BY <3>2, <3>3 DEF Ascending
    <3>5. \A i \in 1..c : i # c => i \in 1..(c - 1) /\ s[i] \in V /\ s[i] < n
      <4>1. \A i \in 1..c : i # c => i \in 1..(c - 1) BY <3>3
      <4>2. \A x \in V : x < n BY <2>3, <3>1
      <4> HIDE DEF V
      <4> QED BY <3>4, <4>1, <4>2
    <3>6. t \in [1..c -> U] BY <2>8, <3>5
    <3>7. \A i, j \in 1..c : i < j => t[i] < t[j]
      BY <3>3, <3>4, <3>5
    <3>8. Ascending(t, U) BY <3>6, <3>7 DEF Ascending, c
    <3> QED BY <2>2, <3>8
  <2> QED BY <2>6, <2>7, <2>8
<1>2. NumRuns \in Nat /\ NumRuns \notin Fails BY <1>1, GatesAssumption
<1> QED BY <1>2 DEF Runs

\* ByCreation lists the runs of a set.
LEMMA ByCreationLists ==
    ASSUME NEW S \in SUBSET Runs
    PROVE  ByCreation(S) \in Seq(Runs) /\ Len(ByCreation(S)) = Cardinality(S)
<1>1. ByCreation(S) \in [1..Cardinality(S) -> S]
  <2>1. \E s \in [1..Cardinality(S) -> S] : \A i, j \in DOMAIN s : i < j => s[i] < s[j]
    BY OrderExists DEF Ascending
  <2> QED BY <2>1 DEF ByCreation
<1>2. Cardinality(S) \in Nat BY RunSets
<1> QED BY <1>1, <1>2

LEMMA FirstOfPrefix ==
    ASSUME NEW s \in Seq(Runs), NEW n \in Nat
    PROVE  /\ FirstOf(s, n) \in Seq(Runs) /\ Len(FirstOf(s, n)) <= n
           /\ Len(FirstOf(s, n)) <= Len(s)
           /\ \A i \in 1..Len(FirstOf(s, n)) : FirstOf(s, n)[i] = s[i]
<1> DEFINE k == Min({n, Len(s)})
<1>1. Len(s) \in Nat /\ k \in Nat /\ k <= Len(s) /\ k <= n BY MinOfTwo
<1> HIDE DEF k
<1>2. \A i \in 1..k : s[i] \in Runs BY <1>1
<1>3. /\ SubSeq(s, 1, k) \in Seq(Runs)
      /\ Len(SubSeq(s, 1, k)) = IF 1 <= k THEN k - 1 + 1 ELSE 0
      /\ \A i \in 1..(k - 1 + 1) : SubSeq(s, 1, k)[i] = s[1 + i - 1]
  BY <1>1, <1>2, SubSeqProperties
<1>4. Len(SubSeq(s, 1, k)) = k BY <1>1, <1>3
<1>5. \A i \in 1..k : SubSeq(s, 1, k)[i] = s[i] BY <1>1, <1>3
<1>6. FirstOf(s, n) = SubSeq(s, 1, k) BY DEF FirstOf, k
<1> QED BY <1>1, <1>3, <1>4, <1>5, <1>6

\* A plan holds no more runs than were found.
LEMMA PlanOfFound ==
    ASSUME pass.left \in Nat, NEW runnable \in Seq(Runs), NEW stranded \in Seq(Runs)
    PROVE  /\ ActionablePlan(runnable, stranded) \in Seq(Runs)
           /\ Len(ActionablePlan(runnable, stranded)) <= Len(runnable) + Len(stranded)
<1>1. CASE runnable # <<>> /\ stranded # <<>> /\ pass.left > 1
  <2> DEFINE first == FirstOf(runnable, pass.left - 1)
  <2>1. first \in Seq(Runs) /\ Len(first) <= Len(runnable) BY <1>1, FirstOfPrefix
  <2>2. Head(stranded) \in Runs /\ Len(stranded) >= 1 BY <1>1, EmptySeq, HeadTailProperties
  <2> HIDE DEF first
  <2>3. Append(first, Head(stranded)) \in Seq(Runs)
          /\ Len(Append(first, Head(stranded))) = Len(first) + 1
    BY <2>1, <2>2
  <2> QED BY <1>1, <2>1, <2>2, <2>3 DEF ActionablePlan, first
<1>2. CASE ~(runnable # <<>> /\ stranded # <<>> /\ pass.left > 1)
  <2>1. runnable \o stranded \in Seq(Runs)
          /\ Len(runnable \o stranded) = Len(runnable) + Len(stranded)
    BY ConcatProperties
  <2>2. ActionablePlan(runnable, stranded) = FirstOf(runnable \o stranded, pass.left)
    BY <1>2 DEF ActionablePlan
  <2> QED BY <2>1, <2>2, FirstOfPrefix
<1> QED BY <1>1, <1>2

\* The plan made from the store fits the number of runs.
LEMMA PlanFits ==
    ASSUME pass.left \in Nat
    PROVE  LET plan == ActionablePlan(ByCreation({r \in Runs : RunnableRun(r)}),
                                      ByCreation({r \in Runs : StrandedRun(r)}))
           IN  plan \in Seq(Runs) /\ Len(plan) <= NumRuns
<1> DEFINE A == {r \in Runs : RunnableRun(r)}
           B == {r \in Runs : StrandedRun(r)}
           plan == ActionablePlan(ByCreation(A), ByCreation(B))
<1>1. A \in SUBSET Runs /\ B \in SUBSET Runs OBVIOUS
<1>2. A \cap B = {} BY DEF RunnableRun, StrandedRun
<1> HIDE DEF A, B
<1>3. Cardinality(A \cup B) = Cardinality(A) + Cardinality(B)
  <2>1. IsFiniteSet(A) /\ IsFiniteSet(B) /\ Cardinality(A) \in Nat /\ Cardinality(B) \in Nat
    BY <1>1, RunSets
  <2>2. Cardinality(A \cup B) = Cardinality(A) + Cardinality(B) - Cardinality(A \cap B)
    BY <2>1, FS_Union
  <2> QED BY <1>2, <2>1, <2>2, FS_EmptySet
<1>4. Cardinality(A \cup B) <= NumRuns
  <2>1. A \cup B \in SUBSET Runs BY <1>1
  <2>2. Cardinality(A \cup B) \in 0..NumRuns BY <2>1, RunSets
  <2> QED BY <2>2
<1>5. /\ ByCreation(A) \in Seq(Runs) /\ Len(ByCreation(A)) = Cardinality(A)
      /\ ByCreation(B) \in Seq(Runs) /\ Len(ByCreation(B)) = Cardinality(B)
  BY <1>1, ByCreationLists
<1>6. plan \in Seq(Runs) /\ Len(plan) <= NumRuns
  <2>1. plan \in Seq(Runs)
          /\ Len(plan) <= Len(ByCreation(A)) + Len(ByCreation(B))
    BY <1>5, PlanOfFound
  <2>2. Len(ByCreation(A)) + Len(ByCreation(B)) <= NumRuns BY <1>3, <1>4, <1>5
  <2>3. /\ Len(ByCreation(A)) \in Nat /\ Len(ByCreation(B)) \in Nat /\ Len(plan) \in Nat
        /\ NumRuns \in Nat
    BY <1>5, <2>1, LenProperties, GatesAssumption
  <2> HIDE DEF plan
  <2> QED BY <2>1, <2>2, <2>3
<1> QED BY <1>6 DEF A, B
Distinct(s) == \A i, j \in DOMAIN s : s[i] = s[j] => i = j

\* A plan fits the budget and names no run twice.
LEMMA PlanWithin ==
    ASSUME pass.left \in Nat
    PROVE  LET plan == ActionablePlan(ByCreation({r \in Runs : RunnableRun(r)}),
                                      ByCreation({r \in Runs : StrandedRun(r)}))
           IN  Len(plan) <= pass.left /\ Distinct(plan)
<1> DEFINE A == {r \in Runs : RunnableRun(r)}
           B == {r \in Runs : StrandedRun(r)}
           a == ByCreation(A)
           b == ByCreation(B)
<1>1. A \in SUBSET Runs /\ B \in SUBSET Runs /\ A \cap B = {}
  BY DEF RunnableRun, StrandedRun
<1> HIDE DEF A, B
<1>2. ASSUME NEW S \in SUBSET Runs
      PROVE  /\ ByCreation(S) \in Seq(S) /\ ByCreation(S) \in Seq(Runs)
             /\ \A i \in 1..Len(ByCreation(S)) : ByCreation(S)[i] \in S
             /\ Distinct(ByCreation(S))
  <2> DEFINE s == ByCreation(S)
  <2>1. s \in [1..Cardinality(S) -> S] /\ \A i, j \in DOMAIN s : i < j => s[i] < s[j]
    <3>1. \E t \in [1..Cardinality(S) -> S] : \A i, j \in DOMAIN t : i < j => t[i] < t[j]
      BY OrderExists DEF Ascending
    <3> QED BY <3>1 DEF ByCreation
  <2>2. Cardinality(S) \in Nat BY RunSets
  <2> HIDE DEF s
  <2>3. s \in Seq(S) /\ Len(s) = Cardinality(S) /\ DOMAIN s = 1..Cardinality(S) BY <2>1, <2>2
  <2>4. \A i \in DOMAIN s : s[i] \in Int
    <3>1. S \subseteq Int BY DEF Runs
    <3> QED BY <2>1, <3>1
  <2>5. \A i, j \in DOMAIN s : s[i] = s[j] => i = j
    <3>1. \A i, j \in 1..Cardinality(S) : i < j \/ j < i \/ i = j BY <2>2
    <3>2. \A i, j \in DOMAIN s : i < j => s[i] # s[j] BY <2>1, <2>4
    <3> QED BY <2>3, <3>1, <3>2
  <2> QED BY <2>1, <2>3, <2>5 DEF Distinct, s
<1>3a. a \in Seq(Runs) /\ Distinct(a) /\ \A i \in 1..Len(a) : a[i] \in A BY <1>1, <1>2
<1>3b. b \in Seq(Runs) /\ Distinct(b) /\ \A i \in 1..Len(b) : b[i] \in B BY <1>1, <1>2
<1> HIDE DEF a, b
<1>3. /\ a \in Seq(Runs) /\ b \in Seq(Runs) /\ Distinct(a) /\ Distinct(b)
      /\ Len(a) \in Nat /\ Len(b) \in Nat
      /\ \A i \in 1..Len(a) : a[i] \in A
      /\ \A i \in 1..Len(b) : b[i] \in B
  BY <1>3a, <1>3b, LenProperties
<1>4. CASE a # <<>> /\ b # <<>> /\ pass.left > 1
  <2> DEFINE f == FirstOf(a, pass.left - 1)
             p == Append(f, Head(b))
  <2>1. pass.left - 1 \in Nat BY <1>4
  <2>2. /\ f \in Seq(Runs) /\ Len(f) <= pass.left - 1 /\ Len(f) <= Len(a)
        /\ \A i \in 1..Len(f) : f[i] = a[i]
    BY <1>3, <2>1, FirstOfPrefix
  <2>3. Head(b) \in Runs /\ Head(b) = b[1] /\ b[1] \in B /\ Len(b) >= 1
    BY <1>3, <1>4, EmptySeq, HeadTailProperties
  <2> HIDE DEF f
  <2>4. /\ p \in Seq(Runs) /\ Len(p) = Len(f) + 1 /\ Len(f) \in Nat
        /\ \A i \in 1..Len(f) : p[i] = f[i]
        /\ p[Len(f) + 1] = b[1] /\ DOMAIN p = 1..(Len(f) + 1)
    BY <2>2, <2>3, AppendProperties
  <2> HIDE DEF p
  <2>5. Distinct(p)
    <3>1. \A i \in 1..Len(f) : p[i] = a[i] /\ i \in 1..Len(a) /\ p[i] \in A /\ p[i] # b[1]
      BY <1>1, <1>3, <2>2, <2>3, <2>4
    <3>2. DOMAIN a = 1..Len(a) BY <1>3
    <3>3. \A i \in DOMAIN p : i \in 1..Len(f) \/ i = Len(f) + 1 BY <2>4
    <3> QED BY <1>3, <2>4, <3>1, <3>2, <3>3 DEF Distinct
  <2>6. Len(p) <= pass.left BY <2>2, <2>4
  <2>7. ActionablePlan(a, b) = p BY <1>4 DEF ActionablePlan, p, f
  <2> QED BY <2>5, <2>6, <2>7 DEF a, b, A, B
<1>5. CASE ~(a # <<>> /\ b # <<>> /\ pass.left > 1)
  <2> DEFINE c == a \o b
             p == FirstOf(c, pass.left)
  <2>1. /\ c \in Seq(Runs) /\ Len(c) = Len(a) + Len(b)
        /\ \A i \in 1..Len(c) : c[i] = IF i <= Len(a) THEN a[i] ELSE b[i - Len(a)]
    BY <1>3, ConcatProperties
  <2> HIDE DEF c
  <2>2. /\ p \in Seq(Runs) /\ Len(p) <= pass.left /\ Len(p) <= Len(c)
        /\ \A i \in 1..Len(p) : p[i] = c[i]
    BY <2>1, FirstOfPrefix
  <2> HIDE DEF p
  <2>3. \A i, j \in 1..Len(c) : c[i] = c[j] => i = j
    <3>1. ASSUME NEW i \in 1..Len(c), NEW j \in 1..Len(c), c[i] = c[j] PROVE i = j
      <4>1. CASE i <= Len(a) /\ j <= Len(a)
        BY <1>3, <2>1, <3>1, <4>1 DEF Distinct
      <4>2. CASE i > Len(a) /\ j > Len(a)
        <5>1. i - Len(a) \in 1..Len(b) /\ j - Len(a) \in 1..Len(b) BY <1>3, <2>1, <4>2
        <5>2. DOMAIN b = 1..Len(b) BY <1>3
        <5>3. b[i - Len(a)] = b[j - Len(a)] BY <1>3, <2>1, <3>1, <4>2
        <5>4. i - Len(a) = j - Len(a) BY <1>3, <5>1, <5>2, <5>3 DEF Distinct
        <5> QED BY <1>3, <5>4
      <4>3. CASE i <= Len(a) /\ j > Len(a)
        <5>1. i \in 1..Len(a) /\ j - Len(a) \in 1..Len(b) BY <1>3, <2>1, <4>3
        <5>2. c[i] = a[i] /\ c[j] = b[j - Len(a)] BY <1>3, <2>1, <4>3
        <5>3. c[i] \in A /\ c[j] \in B BY <1>3, <5>1, <5>2
        <5> QED BY <1>1, <3>1, <5>3
      <4>4. CASE i > Len(a) /\ j <= Len(a)
        <5>1. j \in 1..Len(a) /\ i - Len(a) \in 1..Len(b) BY <1>3, <2>1, <4>4
        <5>2. c[j] = a[j] /\ c[i] = b[i - Len(a)] BY <1>3, <2>1, <4>4
        <5>3. c[j] \in A /\ c[i] \in B BY <1>3, <5>1, <5>2
        <5> QED BY <1>1, <3>1, <5>3
      <4> QED BY <1>3, <4>1, <4>2, <4>3, <4>4
    <3> QED BY <3>1
  <2>4. Distinct(p)
    <3>1. DOMAIN p = 1..Len(p) /\ Len(p) \in Nat /\ Len(c) \in Nat BY <2>1, <2>2
    <3>2. \A i \in DOMAIN p : i \in 1..Len(c) /\ p[i] = c[i] BY <2>2, <3>1
    <3> QED BY <2>3, <3>2 DEF Distinct
  <2>5. ActionablePlan(a, b) = p BY <1>5 DEF ActionablePlan, p, c
  <2> QED BY <2>2, <2>4, <2>5 DEF a, b, A, B
<1> QED BY <1>4, <1>5
--------------------------------------------------------------------------------
(***************************************************************************)
(* The dispatch of a batch.                                                *)
(***************************************************************************)
Loads == [Members -> Nat]
DispatchStates == [load : Loads, cursor : Members, member : Members]
DispatchStart(base) == [load |-> base, cursor |-> 0, member |-> 0]

LEMMA TurnOfCursor ==
    ASSUME NEW x \in Nat
    PROVE  /\ x < NumMembers => x % NumMembers = x
           /\ NumMembers <= x /\ x < NumMembers + NumMembers => x % NumMembers = x - NumMembers
           /\ x % NumMembers \in Members
<1>1. NumMembers \in Nat \ {0} BY GatesAssumption
<1>2. x < NumMembers => x % NumMembers = x BY <1>1
<1>3. NumMembers <= x /\ x < NumMembers + NumMembers => x % NumMembers = x - NumMembers
  BY <1>1
<1>4. x % NumMembers \in Members BY <1>1 DEF Members
<1> QED BY <1>2, <1>3, <1>4

\* The chosen member is one of those with the lowest load, wherever the cursor is.
LEMMA ChoosesLeastLoaded ==
    ASSUME NEW load \in Loads, NEW cursor \in Members
    PROVE  /\ ChooseNextMemberIndex(load, cursor) \in Members
           /\ \A n \in Members : load[ChooseNextMemberIndex(load, cursor)] <= load[n]
<1> DEFINE low == Min(Range(load))
           turn(offset) == (cursor + offset) % NumMembers
           tried == {offset \in Members : load[turn(offset)] = low}
<1>1. NumMembers \in Nat \ {0} /\ cursor \in Nat /\ cursor < NumMembers
      /\ 0 \in Members /\ Members \subseteq Nat
  BY GatesAssumption DEF Members
<1>2. low \in Range(load) /\ \A n \in Members : low <= load[n]
  <2>1. Range(load) \subseteq Nat /\ load[0] \in Range(load)
        /\ \A n \in Members : load[n] \in Range(load)
    BY <1>1 DEF Range, Loads
  <2> QED BY <2>1, MinIsLeast
<1>3. PICK m \in Members : load[m] = low BY <1>2 DEF Range, Loads
<1> HIDE DEF low
<1>4. \E offset \in Members : turn(offset) = m
  <2>1. m \in Nat /\ m < NumMembers BY <1>1, <1>3 DEF Members
  <2>2. CASE m >= cursor
    <3>1. m - cursor \in Members /\ cursor + (m - cursor) = m BY <1>1, <2>1, <2>2 DEF Members
    <3>2. m % NumMembers = m BY <2>1, TurnOfCursor
    <3> QED BY <3>1, <3>2
  <2>3. CASE m < cursor
    <3> DEFINE x == m + NumMembers
    <3>1. /\ x - cursor \in Members /\ cursor + (x - cursor) = x /\ x \in Nat
          /\ NumMembers <= x /\ x < NumMembers + NumMembers /\ x - NumMembers = m
      BY <1>1, <2>1, <2>3 DEF Members
    <3> HIDE DEF x
    <3>2. x % NumMembers = m BY <3>1, TurnOfCursor
    <3> QED BY <3>1, <3>2
  <2> QED BY <1>1, <2>1, <2>2, <2>3
<1>5. Min(tried) \in tried
  <2>1. tried # {} /\ tried \subseteq Nat BY <1>1, <1>3, <1>4
  <2> HIDE DEF tried
  <2> QED BY <2>1, MinIsLeast
<1>6. turn(Min(tried)) \in Members
  <2>0. Min(tried) \in Members BY <1>5
  <2> HIDE DEF tried
  <2>1. PICK o \in Nat : o = Min(tried) BY <1>1, <2>0
  <2>2. cursor + o \in Nat BY <1>1
  <2> QED BY <2>1, <2>2, TurnOfCursor
<1>7. load[turn(Min(tried))] = low BY <1>5
<1>8. ChooseNextMemberIndex(load, cursor) = turn(Min(tried))
  BY DEF ChooseNextMemberIndex, low
<1> HIDE DEF tried, turn
<1> QED BY <1>2, <1>6, <1>7, <1>8

\* A turn of the loop gives one more run to a member with the lowest load.
LEMMA DispatchTurn ==
    ASSUME NEW s \in DispatchStates
    PROVE  /\ DispatchNext(s) \in DispatchStates
           /\ DispatchNext(s).load = [s.load EXCEPT ![DispatchNext(s).member] = @ + 1]
           /\ \A n \in Members : s.load[DispatchNext(s).member] <= s.load[n]
<1> DEFINE m == ChooseNextMemberIndex(s.load, s.cursor)
<1>1. s.load \in Loads /\ s.cursor \in Members BY DEF DispatchStates
<1>2. m \in Members /\ \A n \in Members : s.load[m] <= s.load[n]
  BY <1>1, ChoosesLeastLoaded
<1>3. (m + 1) % NumMembers \in Members
  <2>1. m + 1 \in Nat BY <1>2, GatesAssumption DEF Members
  <2> QED BY <2>1, TurnOfCursor
<1>4. DispatchNext(s) = [load |-> [s.load EXCEPT ![m] = @ + 1],
                         cursor |-> (m + 1) % NumMembers, member |-> m]
  BY DEF DispatchNext
<1> HIDE DEF m
<1>5. [s.load EXCEPT ![m] = @ + 1] \in Loads BY <1>1, <1>2 DEF Loads
<1> QED BY <1>2, <1>3, <1>4, <1>5 DEF DispatchStates
\* run r's turn, after the turns before it
TurnOf(r, before) == IF r \in Batch THEN DispatchNext(before) ELSE before

\* The loop's recursion defines a state for every run.
LEMMA DispatchedTurns ==
    ASSUME NEW base
    PROVE  /\ Dispatched(base)[0] = DispatchStart(base)
           /\ \A r \in Runs : Dispatched(base)[r] = TurnOf(r, Dispatched(base)[r - 1])
<1> DEFINE Turns(f, n) == [r \in 0..n |-> IF r = 0 THEN DispatchStart(base)
                                          ELSE TurnOf(r, f[r - 1])]
           Fails == {n \in Nat : ~ \E f : f = Turns(f, n)}
<1>1. ASSUME Fails # {} PROVE FALSE
  <2>1. PICK n \in Fails : \A k \in Fails : n <= k
    <3> HIDE DEF Fails
    <3> QED BY <1>1, LeastNumber DEF Fails
  <2>2. n \in Nat /\ ~ \E f : f = Turns(f, n) BY <2>1
  <2>3. ASSUME NEW m \in Nat, m < n PROVE \E f : f = Turns(f, m)
    <3>1. m \notin Fails
      <4> HIDE DEF Fails
      <4> QED BY <2>1, <2>2, <2>3
    <3> QED BY <3>1
  <2> HIDE DEF Fails
  <2>4. CASE n = 0
    <3> DEFINE g == [r \in 0..0 |-> DispatchStart(base)]
    <3>1. g = Turns(g, 0) OBVIOUS
    <3> QED BY <2>2, <2>4, <3>1
  <2>5. CASE n # 0
    <3>1. n - 1 \in Nat /\ n - 1 < n BY <2>2, <2>5
    <3>2. PICK f : f = Turns(f, n - 1) BY <2>3, <3>1
    <3> DEFINE g == [r \in 0..n |-> IF r = n THEN TurnOf(n, f[n - 1]) ELSE f[r]]
    <3>3. \A r \in 0..(n - 1) :
             g[r] = f[r] /\ f[r] = IF r = 0 THEN DispatchStart(base) ELSE TurnOf(r, f[r - 1])
      BY <2>2, <3>1, <3>2
    <3>4. g[n] = TurnOf(n, f[n - 1]) BY <2>2
    <3>5. \A r \in 0..n : g[r] = IF r = 0 THEN DispatchStart(base) ELSE TurnOf(r, g[r - 1])
      <4> HIDE DEF g
      <4> QED BY <2>2, <2>5, <3>1, <3>3, <3>4
    <3>6. g = Turns(g, n)
      <4>1. DOMAIN g = 0..n /\ g = [r \in 0..n |-> g[r]] OBVIOUS
      <4> HIDE DEF g
      <4> QED BY <3>5, <4>1
    <3> QED BY <2>2, <3>6
  <2> QED BY <2>4, <2>5
<1>2. PICK f : f = Turns(f, NumRuns) BY <1>1, GatesAssumption
<1>3. Dispatched(base) = CHOOSE g : g = Turns(g, NumRuns)
  BY DEF Dispatched, TurnOf, DispatchStart
<1>4. Dispatched(base) = Turns(Dispatched(base), NumRuns)
  <2> HIDE DEF Turns
  <2> QED BY <1>2, <1>3
<1> DEFINE d == Dispatched(base)
<1> HIDE DEF d
<1>5. d = [r \in 0..NumRuns |-> IF r = 0 THEN DispatchStart(base) ELSE TurnOf(r, d[r - 1])]
  BY <1>4 DEF d
<1>6. 0 \in 0..NumRuns /\ \A r \in Runs : r \in 0..NumRuns /\ r # 0
  BY GatesAssumption DEF Runs
<1>7. d[0] = DispatchStart(base) /\ \A r \in Runs : d[r] = TurnOf(r, d[r - 1])
  BY <1>5, <1>6
<1> QED BY <1>7 DEF d
\* the batch's runs up to run k that were given to member m
Given(base, k, m) == {r \in Batch : r <= k /\ Dispatched(base)[r].member = m}

\* After k turns: the loads count what was given, and no member that was given a run is
\* more than one run above another.
EvenAt(base, k) ==
    LET s == Dispatched(base)[k]
    IN
    /\ s \in DispatchStates
    /\ k \in Batch => s.member \in Members
    /\ \A m \in Members : s.load[m] = base[m] + Cardinality(Given(base, k, m))
    /\ \A m, n \in Members : Given(base, k, m) # {} => s.load[m] <= s.load[n] + 1

\* A turn keeps them even: the member it chooses had the lowest load.
LEMMA EvenTurn ==
    ASSUME NEW base \in Loads, NEW k \in Runs, EvenAt(base, k - 1)
    PROVE  EvenAt(base, k)
<1> DEFINE d == Dispatched(base)
           s == d[k - 1]
           t == d[k]
<1>1. /\ s \in DispatchStates
      /\ \A m \in Members : s.load[m] = base[m] + Cardinality(Given(base, k - 1, m))
      /\ \A m, n \in Members : Given(base, k - 1, m) # {} => s.load[m] <= s.load[n] + 1
  BY DEF EvenAt
<1>2. t = TurnOf(k, s) BY DispatchedTurns
<1>3. k \in Nat /\ Batch \subseteq Runs /\ Batch \subseteq Nat BY GatesAssumption DEF Runs
<1>4. \A m \in Members : Given(base, k, m) =
         IF k \in Batch /\ t.member = m THEN Given(base, k - 1, m) \cup {k}
         ELSE Given(base, k - 1, m)
  <2>1. \A r \in Batch : (r <= k <=> r <= k - 1 \/ r = k) /\ ~(k <= k - 1) BY <1>3
  <2> HIDE DEF d
  <2>2. t.member = Dispatched(base)[k].member BY DEF d
  <2> HIDE DEF t
  <2> QED BY <2>1, <2>2 DEF Given
<1>5. \A m \in Members :
         /\ IsFiniteSet(Given(base, k - 1, m)) /\ Cardinality(Given(base, k - 1, m)) \in Nat
         /\ k \notin Given(base, k - 1, m)
  <2> SUFFICES ASSUME NEW m \in Members
               PROVE  /\ IsFiniteSet(Given(base, k - 1, m))
                      /\ Cardinality(Given(base, k - 1, m)) \in Nat
                      /\ k \notin Given(base, k - 1, m)
    OBVIOUS
  <2>1. Given(base, k - 1, m) \in SUBSET Runs BY <1>3 DEF Given
  <2>2. k \notin Given(base, k - 1, m) BY <1>3 DEF Given
  <2> QED BY <2>1, <2>2, RunSets, FS_CardinalityType
<1> HIDE DEF d
<1>6. CASE k \notin Batch
  <2>1. t = s BY <1>2, <1>6 DEF TurnOf
  <2> HIDE DEF s, t
  <2>2. \A m \in Members : Given(base, k, m) = Given(base, k - 1, m) BY <1>4, <1>6
  <2>3. t = Dispatched(base)[k] BY DEF t, d
  <2> QED BY <1>1, <1>6, <2>1, <2>2, <2>3 DEF EvenAt
<1>7. CASE k \in Batch
  <2> DEFINE c == t.member
  <2>1. t = DispatchNext(s) BY <1>2, <1>7 DEF TurnOf
  <2> HIDE DEF s
  <2>2. /\ t \in DispatchStates /\ t.load = [s.load EXCEPT ![c] = @ + 1]
        /\ \A n \in Members : s.load[c] <= s.load[n]
    BY <1>1, <2>1, DispatchTurn
  <2>3. t = Dispatched(base)[k] BY DEF d
  <2> HIDE DEF t
  <2>4. c \in Members /\ s.load \in Loads BY <1>1, <2>2 DEF DispatchStates
  <2> HIDE DEF c
  <2>5. \A m \in Members : /\ s.load[m] \in Nat
                           /\ t.load[m] = IF m = c THEN s.load[m] + 1 ELSE s.load[m]
    BY <2>2, <2>4 DEF Loads
  <2>6. \A m \in Members : Cardinality(Given(base, k, m)) =
           IF m = c THEN Cardinality(Given(base, k - 1, m)) + 1
           ELSE Cardinality(Given(base, k - 1, m))
    BY <1>4, <1>5, <1>7, FS_AddElement DEF c
  <2>7. \A m \in Members : t.load[m] = base[m] + Cardinality(Given(base, k, m))
    <3> SUFFICES ASSUME NEW m \in Members
                 PROVE  t.load[m] = base[m] + Cardinality(Given(base, k, m))
      OBVIOUS
    <3>1. base[m] \in Nat /\ Cardinality(Given(base, k - 1, m)) \in Nat BY <1>5 DEF Loads
    <3> QED BY <1>1, <2>5, <2>6, <3>1
  <2>8. ASSUME NEW m \in Members, NEW n \in Members, Given(base, k, m) # {}
        PROVE  t.load[m] <= t.load[n] + 1
    <3>1. CASE m = c BY <2>2, <2>4, <2>5, <3>1
    <3>2. CASE m # c
      <4>1. Given(base, k - 1, m) # {} BY <1>4, <2>8, <3>2 DEF c
      <4>2. s.load[m] <= s.load[n] + 1 BY <1>1, <4>1
      <4> QED BY <2>5, <3>2, <4>2
    <3> QED BY <3>1, <3>2
  <2>9. t.member \in Members BY <2>4 DEF c
  <2> QED BY <2>2, <2>3, <2>7, <2>8, <2>9 DEF EvenAt
<1> QED BY <1>6, <1>7

LEMMA EvenAlways ==
    ASSUME NEW base \in Loads, NEW k \in 0..NumRuns
    PROVE  EvenAt(base, k)
<1> DEFINE Fails == {n \in Nat : n <= NumRuns /\ ~EvenAt(base, n)}
<1>1. ASSUME Fails # {} PROVE FALSE
  <2>1. PICK n \in Fails : \A j \in Fails : n <= j
    <3> HIDE DEF Fails
    <3> QED BY <1>1, LeastNumber DEF Fails
  <2>2. n \in Nat /\ n <= NumRuns /\ ~EvenAt(base, n) BY <2>1
  <2>3. CASE n = 0
    <3> DEFINE s == Dispatched(base)[0]
    <3>1. s = [load |-> base, cursor |-> 0, member |-> 0]
      BY DispatchedTurns DEF DispatchStart
    <3>2. 0 \in Members BY GatesAssumption DEF Members
    <3>3. 0 \notin Batch /\ \A r \in Batch : r \in Int /\ r >= 1 BY GatesAssumption
    <3>4. \A m \in Members : Given(base, 0, m) = {} BY <3>3 DEF Given
    <3>5. \A m \in Members : base[m] = base[m] + Cardinality(Given(base, 0, m))
      BY <3>4, FS_EmptySet DEF Loads
    <3> HIDE DEF s
    <3>6. s.load = base /\ s \in DispatchStates BY <3>1, <3>2 DEF DispatchStates
    <3>7. EvenAt(base, 0) BY <3>3, <3>4, <3>5, <3>6 DEF EvenAt, s
    <3> QED BY <2>2, <2>3, <3>7
  <2>4. CASE n # 0
    <3>1. n \in Runs /\ n - 1 \in Nat /\ n - 1 < n /\ n - 1 <= NumRuns
      BY <2>2, <2>4, GatesAssumption DEF Runs
    <3>2. n - 1 \notin Fails
      <4> HIDE DEF Fails
      <4> QED BY <2>1, <2>2, <3>1
    <3>3. EvenAt(base, n - 1) BY <3>1, <3>2
    <3> QED BY <2>2, <3>1, <3>3, EvenTurn
  <2> QED BY <2>3, <2>4
<1>2. k \in Nat /\ k <= NumRuns BY GatesAssumption
<1> QED BY <1>1, <1>2

\* BalancedDispatch of any loads and any assignment
EvenDispatch(base, assigned) ==
    \A m, n \in Members :
        (\E r \in Batch : assigned[r] = m)
          => base[m] + Cardinality({r \in Batch : assigned[r] = m})
               <= base[n] + Cardinality({r \in Batch : assigned[r] = n}) + 1

\* Every child gets a member, and the members end up even, whatever the loads were.
LEMMA DispatchIsEven ==
    ASSUME NEW base \in Loads, NEW assigned, assigned = ResolveDispatchPool(base)
    PROVE  assigned \in [Batch -> Members] /\ EvenDispatch(base, assigned)
<1>1. NumRuns \in 0..NumRuns /\ NumRuns \in Nat /\ \A r \in Batch : r \in 0..NumRuns
  BY GatesAssumption
<1>2. assigned = [r \in Batch |-> Dispatched(base)[r].member] BY DEF ResolveDispatchPool
<1>3. assigned \in [Batch -> Members]
  <2>1. \A r \in Batch : Dispatched(base)[r].member \in Members
    BY <1>1, EvenAlways DEF EvenAt
  <2> QED BY <1>2, <2>1
<1>4. \A m \in Members : {r \in Batch : assigned[r] = m} = Given(base, NumRuns, m)
  BY <1>1, <1>2 DEF Given
<1>5. EvenAt(base, NumRuns) BY <1>1, EvenAlways
<1>6. ASSUME NEW m \in Members, NEW n \in Members, \E r \in Batch : assigned[r] = m
      PROVE  base[m] + Cardinality({r \in Batch : assigned[r] = m})
               <= base[n] + Cardinality({r \in Batch : assigned[r] = n}) + 1
  <2>1. Given(base, NumRuns, m) # {} BY <1>4, <1>6
  <2> DEFINE s == Dispatched(base)[NumRuns]
  <2>2. /\ s.load[m] = base[m] + Cardinality(Given(base, NumRuns, m))
        /\ s.load[n] = base[n] + Cardinality(Given(base, NumRuns, n))
        /\ s.load[m] <= s.load[n] + 1
    BY <1>5, <2>1 DEF EvenAt
  <2> QED BY <1>4, <2>2
<1> QED BY <1>3, <1>6 DEF EvenDispatch
--------------------------------------------------------------------------------
(***************************************************************************)
(* Types.  The count of a pass stays within the runs because no plan holds *)
(* more of them and every one of the plan is counted at most once.         *)
(***************************************************************************)
Passes == [drain : Drains, todo : Seq(Runs), left : 0..MaxLeft, count : 0..NumRuns,
           pc : {"idle", "inspect", "claim", "batch", "rate", "tenant", "await", "settle"}]

SoundPass(p) ==
    /\ p \in Passes
    /\ p.todo = <<>> <=> p.pc \in {"idle", "inspect", "settle"}
    /\ Len(p.todo) + p.count <= NumRuns

\* A drain's budget is within the largest one.
LEMMA BudgetFits ==
    MaxLeft \in Nat /\ \A d \in Drains : MaxRuns(d) \in 0..MaxLeft
<1> DEFINE budgets == {MaxRuns(d) : d \in Drains}
           b == Min({Cardinality(Batch), BatchLimit})
<1>1. b \in Nat /\ RecoverRuns \in Nat
  <2>1. Batch \in SUBSET Runs BY GatesAssumption DEF Runs
  <2>2. Cardinality(Batch) \in 0..NumRuns BY <2>1, RunSets
  <2>3. Cardinality(Batch) \in Nat BY <2>2
  <2> QED BY <2>3, GatesAssumption, MinOfTwo
<1> HIDE DEF b
<1>2. \A d \in Drains : MaxRuns(d) \in {b, RecoverRuns, 1}
  BY DEF MaxRuns, b
<1>3. b \in budgets /\ RecoverRuns \in budgets /\ 1 \in budgets
  <2>1. /\ MaxRuns(Drain("batch", None)) = b
        /\ MaxRuns(Drain("recovery", None)) = RecoverRuns
        /\ MaxRuns(Drain("background", None)) = 1
    BY DEF MaxRuns, Drain, b
  <2>2. \A kind \in {"background", "batch", "recovery"} : Drain(kind, None) \in Drains
    BY DEF Drain, Drains
  <2> QED BY <2>1, <2>2
<1>4. budgets \subseteq {b, RecoverRuns, 1} BY <1>2
<1> HIDE DEF budgets
<1>5. \E x \in budgets : \A y \in budgets : x >= y BY <1>1, <1>3, <1>4
<1>6. Max(budgets) \in budgets /\ \A y \in budgets : Max(budgets) >= y BY <1>5 DEF Max
<1>7. MaxLeft = Max(budgets) BY DEF MaxLeft, budgets
<1>8. \A d \in Drains : MaxRuns(d) \in budgets BY DEF budgets
<1>9. budgets \subseteq Nat BY <1>1, <1>4
<1>10. ASSUME NEW x \in Nat, NEW y \in Nat, x >= y PROVE y \in 0..x BY <1>10
<1> QED BY <1>6, <1>7, <1>8, <1>9, <1>10

LEMMA NoPassSound == SoundPass(NoPass)
<1>1. Drain("background", None) \in Drains BY DEF Drain, Drains
<1>2. NoPass \in Passes BY <1>1, BudgetFits, GatesAssumption DEF NoPass, Passes
<1> QED BY <1>2, GatesAssumption DEF SoundPass, NoPass

LEMMA GotoSound ==
    ASSUME SoundPass(pass), pass.todo # <<>>,
           NEW pc \in {"claim", "batch", "rate", "tenant", "await"}, Goto(pc)
    PROVE  SoundPass(pass')
  BY DEF SoundPass, Passes, Goto

\* Past a candidate there is one less, and one more executed at most.
LEMMA AdvanceSound ==
    ASSUME SoundPass(pass), pass.todo # <<>>, NEW executed \in {0, 1}, Advance(executed)
    PROVE  SoundPass(pass')
<1> DEFINE rest == Tail(pass.todo)
<1>1. pass \in Passes /\ pass.todo \in Seq(Runs) /\ pass.count \in Nat BY DEF SoundPass, Passes
<1>2. rest \in Seq(Runs) /\ Len(rest) = Len(pass.todo) - 1 /\ Len(rest) \in Nat
  BY <1>1, HeadTailProperties, LenProperties
<1> HIDE DEF rest
<1>3. pass' = [pass EXCEPT !.pc = IF rest # <<>> THEN "claim" ELSE "settle", !.todo = rest,
                           !.count = @ + executed]
  BY DEF Advance, rest
<1>4. /\ Len(rest) + (pass.count + executed) <= NumRuns
      /\ pass.count + executed \in 0..NumRuns
  <2> DEFINE l == Len(pass.todo)
             k == Len(rest)
             c == pass.count
  <2>1. NumRuns \in Nat /\ executed \in Nat /\ executed <= 1 BY GatesAssumption
  <2>2. l \in Nat /\ k \in Nat /\ c \in Nat /\ k = l - 1 /\ l + c <= NumRuns
    BY <1>1, <1>2, LenProperties DEF SoundPass
  <2> HIDE DEF l, k, c
  <2>3. k + (c + executed) <= NumRuns /\ c + executed \in Nat /\ c + executed <= NumRuns
    BY <2>1, <2>2
  <2>4. c + executed \in 0..NumRuns BY <2>1, <2>3
  <2> QED BY <2>3, <2>4 DEF k, c
<1>6. pass' \in Passes BY <1>1, <1>2, <1>3, <1>4 DEF Passes
<1>7. /\ pass'.todo = rest /\ pass'.count = pass.count + executed
      /\ pass'.pc = IF rest # <<>> THEN "claim" ELSE "settle"
  BY <1>1, <1>3 DEF Passes
<1> QED BY <1>4, <1>6, <1>7 DEF SoundPass
\* everything but the pass
StoreTyped ==
    /\ status \in [Runs -> {"absent", "planned", "running"} \cup Terminal]
    /\ lease \in [Runs -> {"none", "held", "lapsed"}]
    /\ started \in [Runs -> Ages]
    /\ agent \in [Runs -> Members \cup {None}]
    /\ batch \in [pc : {"resolve", "create", "written", "lost"},
                  assigned : [Batch -> Members], base : [Members -> 0..NumRuns]]
    /\ queue \in Seq(Drains)
    /\ exec \in [Runs -> {"none", "starting", "leased", "working"}]
    /\ reserved \in [Runs -> Ages \cup {None}]
    /\ crashes \in 0..MaxCrashes

GatesTyped == StoreTyped /\ SoundPass(pass)

LEMMA GatesTypedGives == ASSUME GatesTyped PROVE TypeOK
  BY DEF GatesTyped, StoreTyped, SoundPass, Passes, TypeOK

LEMMA GatesInit == ASSUME Init PROVE GatesTyped
<1>1. /\ NumRuns \in Nat \ {0} /\ NumMembers \in Nat \ {0} /\ Hour \in Nat /\ MaxCrashes \in Nat
      /\ Batch \subseteq Runs
  BY GatesAssumption DEF Runs
<1>2. StoreTyped BY <1>1 DEF Init, StoreTyped, Ages, Old, Members, Runs
<1> QED BY <1>2, NoPassSound DEF Init, GatesTyped

LEMMA BatchStepTyped ==
    ASSUME GatesTyped,
           BatchStep \/ (\E r \in Runs \ Batch : CreateResponse(r)) \/ BackgroundDrain
    PROVE  GatesTyped'
<1> USE DEF GatesTyped, StoreTyped
<1>1. Batch \subseteq Runs /\ OneShotAgent \in Members BY GatesAssumption DEF Runs, Members
<1>2. /\ Drain("batch", None) \in Drains /\ Drain("background", None) \in Drains
      /\ \A r \in Runs : Drain("create", r) \in Drains
  BY DEF Drain, Drains
<1>3. \A d \in Drains : Append(queue, d) \in Seq(Drains) OBVIOUS
<1>4. CASE ResolveDispatch
  <2> DEFINE base == [m \in Members |-> MemberLoad(m)]
  <2>1. base \in [Members -> 0..NumRuns]
    <3>1. ASSUME NEW m \in Members PROVE MemberLoad(m) \in 0..NumRuns
      BY RunSets DEF MemberLoad
    <3> QED BY <3>1
  <2>2. batch' = [pc |-> "create", assigned |-> ResolveDispatchPool(base), base |-> base]
    BY <1>4 DEF ResolveDispatch
  <2> HIDE DEF base
  <2>3. base \in Loads
    <3>1. 0..NumRuns \subseteq Nat BY GatesAssumption
    <3> QED BY <2>1, <3>1 DEF Loads
  <2>4. ResolveDispatchPool(base) \in [Batch -> Members] BY <2>3, DispatchIsEven
  <2>5. batch' \in [pc : {"resolve", "create", "written", "lost"},
                    assigned : [Batch -> Members], base : [Members -> 0..NumRuns]]
    BY <2>1, <2>2, <2>4
  <2> QED BY <1>4, <2>5 DEF ResolveDispatch, SoundPass
<1>5. CASE WriteBatch BY <1>2, <1>3, <1>5 DEF WriteBatch, SoundPass
<1>6. ASSUME NEW r \in Batch, CreateChild(r) PROVE GatesTyped'
  BY <1>1, <1>6 DEF CreateChild, SoundPass
<1>7. ASSUME NEW r \in Runs \ Batch, CreateResponse(r) PROVE GatesTyped'
  <2>1. queue' \in Seq(Drains)
    <3> DEFINE longer == Append(queue, Drain("create", r))
    <3>1. longer \in Seq(Drains) BY <1>2, <1>3
    <3>2. queue' \in {queue, longer} BY <1>7 DEF CreateResponse
    <3> HIDE DEF longer
    <3> QED BY <3>1, <3>2
  <2>2. status' \in [Runs -> {"absent", "planned", "running"} \cup Terminal]
    BY <1>7 DEF CreateResponse
  <2>3. agent' \in [Runs -> Members \cup {None}] BY <1>1, <1>7 DEF CreateResponse
  <2> QED BY <1>7, <2>1, <2>2, <2>3 DEF CreateResponse, SoundPass
<1>8. CASE BackgroundDrain BY <1>2, <1>3, <1>8 DEF BackgroundDrain, SoundPass
<1> QED BY <1>4, <1>5, <1>6, <1>7, <1>8 DEF BatchStep

\* A function stays in its set when at most one value is replaced.
LEMMA OneReplaced ==
    ASSUME NEW D, NEW S, NEW f \in [D -> S], NEW d, NEW e \in S,
           NEW g, g \in {f, [f EXCEPT ![d] = e]}
    PROVE  g \in [D -> S]
  OBVIOUS

LEMMA PassStepTyped ==
    ASSUME GatesTyped, PassStep
    PROVE  GatesTyped'
<1> USE DEF GatesTyped, StoreTyped
<1>1. /\ pass \in Passes /\ pass.todo \in Seq(Runs) /\ pass.count \in Nat
      /\ pass.left \in Nat /\ pass.left <= MaxLeft
  BY BudgetFits DEF SoundPass, Passes
<1>2. pass.pc \in {"claim", "batch", "rate", "tenant", "await"}
        => pass.todo # <<>> /\ Head(pass.todo) \in Runs
  BY <1>1, HeadTailProperties DEF SoundPass
<1>3. CASE BeginDrain
  <2>1. Head(queue) \in Drains /\ Tail(queue) \in Seq(Drains)
    BY <1>3, HeadTailProperties DEF BeginDrain
  <2>2. MaxRuns(Head(queue)) \in 0..MaxLeft BY <2>1, BudgetFits
  <2> DEFINE d == Head(queue)
             n == MaxRuns(Head(queue))
  <2> HIDE DEF d, n
  <2>3. pass' = [drain |-> d, pc |-> "inspect", todo |-> <<>>, left |-> n, count |-> 0]
    BY <1>3 DEF BeginDrain, NoPass, d, n
  <2>4. 0 \in 0..NumRuns /\ 0 + 0 <= NumRuns BY GatesAssumption
  <2>5. SoundPass(pass') BY <2>1, <2>2, <2>3, <2>4 DEF SoundPass, Passes, d, n
  <2> QED BY <1>3, <2>1, <2>5 DEF BeginDrain
<1>4. CASE InspectCandidates
  <2> DEFINE plan == ActionablePlan(ByCreation({r \in Runs : RunnableRun(r)}),
                                    ByCreation({r \in Runs : StrandedRun(r)}))
  <2>1. plan \in Seq(Runs) /\ Len(plan) <= NumRuns BY <1>1, PlanFits
  <2>2. pass' = IF plan = <<>> THEN NoPass
                ELSE [pass EXCEPT !.pc = "claim", !.todo = plan, !.count = 0]
    BY <1>4 DEF InspectCandidates
  <2> HIDE DEF plan
  <2>3. Len(plan) + 0 <= NumRuns /\ 0 \in 0..NumRuns BY <2>1, GatesAssumption
  <2>4. SoundPass(pass')
    BY <1>1, <2>1, <2>2, <2>3, NoPassSound DEF SoundPass, Passes
  <2> QED BY <1>4, <2>4 DEF InspectCandidates
<1>5. CASE SelectLocalClaim
  <2>1. SoundPass(pass') BY <1>2, <1>5, AdvanceSound, GotoSound DEF SelectLocalClaim
  <2> QED BY <1>2, <1>5, <2>1 DEF SelectLocalClaim
<1>6. CASE BatchConcurrencyGate
  <2>1. SoundPass(pass') BY <1>2, <1>6, AdvanceSound, GotoSound DEF BatchConcurrencyGate
  <2> QED BY <1>6, <2>1 DEF BatchConcurrencyGate
<1>7. CASE BatchRateGate
  <2>1. SoundPass(pass') BY <1>2, <1>7, AdvanceSound, GotoSound DEF BatchRateGate
  <2> QED BY <1>7, <2>1 DEF BatchRateGate
<1>8. CASE TenantGate
  <2>1. SoundPass(pass') BY <1>2, <1>8, AdvanceSound, GotoSound DEF TenantGate
  <2>2. Pruned \in [Runs -> Ages \cup {None}] BY DEF Pruned
  <2>3. 0 \in Ages BY GatesAssumption DEF Ages, Old
  <2>4. Head(pass.todo) \in Runs BY <1>2, <1>8 DEF TenantGate
  <2> DEFINE r == Head(pass.todo)
             kept == Pruned
  <2>5. /\ reserved' \in {kept, [kept EXCEPT ![r] = 0]}
        /\ exec' \in {exec, [exec EXCEPT ![r] = "starting"]}
        /\ UNCHANGED <<status, lease, started, agent, batch, queue, crashes>>
    BY <1>8 DEF TenantGate
  <2> HIDE DEF r, kept
  <2>6. reserved' \in [Runs -> Ages \cup {None}]
    <3>1. kept \in [Runs -> Ages \cup {None}] BY <2>2 DEF kept
    <3>2. reserved' \in {kept, [kept EXCEPT ![r] = 0]} BY <2>5
    <3> HIDE DEF GatesTyped, StoreTyped
    <3> QED BY <2>3, <3>1, <3>2, OneReplaced
  <2>7. exec' \in [Runs -> {"none", "starting", "leased", "working"}] BY <2>5
  <2> QED BY <2>1, <2>5, <2>6, <2>7
<1>9. CASE AwaitExecution
  <2>1. SoundPass(pass') BY <1>2, <1>9, AdvanceSound DEF AwaitExecution
  <2> QED BY <1>9, <2>1 DEF AwaitExecution
<1>10. CASE SettleDeferred
  <2>1. CASE pass.count > 0 /\ pass.count < pass.left
    <3>1. pass' = [pass EXCEPT !.pc = "inspect", !.left = @ - pass.count]
      BY <1>10, <2>1 DEF SettleDeferred
    <3>2. pass.left - pass.count \in 0..MaxLeft BY <1>1, <2>1, BudgetFits
    <3>3. pass.pc = "settle" BY <1>10 DEF SettleDeferred
    <3>4. SoundPass(pass') BY <1>1, <3>1, <3>2, <3>3 DEF SoundPass, Passes
    <3> QED BY <1>10, <3>4 DEF SettleDeferred
  <2>2. CASE ~(pass.count > 0 /\ pass.count < pass.left)
    BY <1>10, <2>2, NoPassSound DEF SettleDeferred
  <2> QED BY <2>1, <2>2
<1> QED BY <1>3, <1>4, <1>5, <1>6, <1>7, <1>8, <1>9, <1>10 DEF PassStep

LEMMA OtherStepTyped ==
    ASSUME GatesTyped,
           \/ \E r \in Runs : ExecStep(r) \/ CancelRun(r) \/ LeaseLapses(r)
           \/ Crash \/ Tick \/ UNCHANGED vars
    PROVE  GatesTyped'
<1> USE DEF GatesTyped, StoreTyped
<1>1. Hour \in Nat /\ MaxCrashes \in Nat /\ None \notin Int BY GatesAssumption
<1>2. ASSUME NEW r \in Runs, ExecStep(r) PROVE GatesTyped'
  <2>1. CASE AcquireLease(r) BY <2>1 DEF AcquireLease, SoundPass
  <2>2. CASE StartStep(r)
    <3>1. 0 \in Ages BY <1>1 DEF Ages, Old
    <3> QED BY <2>2, <3>1 DEF StartStep, SoundPass
  <2>3. CASE EndRun(r) BY <2>3 DEF EndRun, SoundPass, Terminal
  <2> QED BY <1>2, <2>1, <2>2, <2>3 DEF ExecStep
<1>3. ASSUME NEW r \in Runs, CancelRun(r) PROVE GatesTyped'
  BY <1>3 DEF CancelRun, SoundPass, Terminal
<1>4. ASSUME NEW r \in Runs, LeaseLapses(r) PROVE GatesTyped'
  BY <1>4 DEF LeaseLapses, SoundPass
<1>5. CASE Crash
  <2>1. <<Drain("recovery", None)>> \in Seq(Drains) BY DEF Drain, Drains
  <2>2. SoundPass(pass') BY <1>5, NoPassSound DEF Crash
  <2>3. crashes' \in 0..MaxCrashes BY <1>1, <1>5 DEF Crash
  <2> QED BY <1>5, <2>1, <2>2, <2>3 DEF Crash
<1>6. CASE Tick
  <2>1. \A age \in Ages : Older(age) \in Ages BY <1>1 DEF Older, Ages, Old
  <2>2. Older(None) = None BY DEF Older
  <2> QED BY <1>6, <2>1, <2>2 DEF Tick, SoundPass
<1>7. CASE UNCHANGED vars BY <1>7 DEF vars, SoundPass
<1> QED BY <1>2, <1>3, <1>4, <1>5, <1>6, <1>7

LEMMA GatesStep == ASSUME GatesTyped, [Next]_vars PROVE GatesTyped'
  BY BatchStepTyped, PassStepTyped, OtherStepTyped DEF Next

LEMMA GatesTypedHolds == Spec => []GatesTyped
  BY GatesInit, GatesStep, PTL DEF Spec

\* The gates keep their types, for any number of runs, members, crashes and
\* cancellations.
THEOREM GatesTypeCorrect == Spec => []TypeOK
  BY GatesTypedHolds, GatesTypedGives, PTL
--------------------------------------------------------------------------------
(***************************************************************************)
(* The tenant's limits.  The gate counts leases and reservations; what it  *)
(* promises to bound are runs on their way as well.  So the invariant says *)
(* what stands for a run on its way at every point of it: from its         *)
(* admission to its start a reservation no older than a minute, from its   *)
(* lease on a lease that nobody lets lapse.  Only the gate adds a run to   *)
(* either count, and it counts all of them first.                          *)
(***************************************************************************)
LeasesHeld == \A r \in Runs : exec[r] \in {"leased", "working"} => lease[r] = "held"
Reservations == \A r \in Runs : Due(r) => reserved[r] # None /\ reserved[r] <= Minute

HourChats == {r \in Runs : started[r] <= Hour \/ Due(r)}

TenantInv ==
    /\ LeasesHeld
    /\ Reservations
    /\ Cardinality(Chats) <= TenantLimit
    /\ Cardinality(HourChats) <= HourLimit

\* no run has come to count
NoneAdded == LeasesHeld' /\ Reservations' /\ Chats' \subseteq Chats /\ HourChats' \subseteq HourChats

LEMMA BatchStepAddsNone ==
    ASSUME GatesTyped, LeasesHeld, Reservations,
           BatchStep \/ (\E r \in Runs \ Batch : CreateResponse(r)) \/ BackgroundDrain
    PROVE  NoneAdded
<1> USE DEF NoneAdded, LeasesHeld, Reservations, Chats, HourChats, Due, HoldsLease, Terminal,
            GatesTyped, StoreTyped
<1>1. Batch \subseteq Runs BY GatesAssumption DEF Runs
<1>2. CASE ResolveDispatch \/ WriteBatch \/ BackgroundDrain
  BY <1>2 DEF ResolveDispatch, WriteBatch, BackgroundDrain
<1>3. ASSUME NEW r \in Batch, CreateChild(r) PROVE NoneAdded
  BY <1>1, <1>3 DEF CreateChild, NextToCreate
<1>4. ASSUME NEW r \in Runs \ Batch, CreateResponse(r) PROVE NoneAdded
  BY <1>4 DEF CreateResponse, NextToCreate
<1> QED BY <1>2, <1>3, <1>4 DEF BatchStep

LEMMA PassStepAddsNone ==
    ASSUME GatesTyped, LeasesHeld, Reservations, PassStep, ~TenantGate
    PROVE  NoneAdded
<1> USE DEF NoneAdded, LeasesHeld, Reservations, Chats, HourChats, Due, HoldsLease, Terminal,
            GatesTyped, StoreTyped
<1>1. CASE InspectCandidates BY <1>1 DEF InspectCandidates
<1>2. CASE SelectLocalClaim
  <2>1. /\ UNCHANGED <<lease, exec, started, reserved>>
        /\ \A q \in Runs : status'[q] = status[q]
              \/ (status[q] \notin Terminal /\ status'[q] = "planned")
    BY <1>2 DEF SelectLocalClaim
  <2> QED BY <2>1
<1>3. CASE BeginDrain \/ BatchConcurrencyGate \/ BatchRateGate \/ AwaitExecution
             \/ SettleDeferred
  BY <1>3 DEF BeginDrain, BatchConcurrencyGate, BatchRateGate, AwaitExecution, SettleDeferred
<1> QED BY <1>1, <1>2, <1>3 DEF PassStep

LEMMA ExecStepAddsNone ==
    ASSUME GatesTyped, LeasesHeld, Reservations,
           NEW r \in Runs, ExecStep(r) \/ CancelRun(r) \/ LeaseLapses(r)
    PROVE  NoneAdded
<1> USE DEF NoneAdded, LeasesHeld, Reservations, Chats, HourChats, Due, HoldsLease, Terminal,
            GatesTyped, StoreTyped
<1>1. CASE AcquireLease(r)
  <2>1. UNCHANGED <<status, started, reserved>> BY <1>1 DEF AcquireLease
  <2>2. CASE status[r] = "planned"
    <3>1. /\ exec[r] = "starting" /\ exec'[r] = "leased" /\ lease'[r] = "held"
          /\ \A q \in Runs \ {r} : exec'[q] = exec[q] /\ lease'[q] = lease[q]
      BY <1>1, <2>2 DEF AcquireLease
    <3> QED BY <2>1, <2>2, <3>1
  <2>3. CASE status[r] # "planned"
    <3>1. /\ lease' = lease /\ exec'[r] = "none"
          /\ \A q \in Runs \ {r} : exec'[q] = exec[q]
      BY <1>1, <2>3 DEF AcquireLease
    <3> QED BY <2>1, <3>1
  <2> QED BY <2>2, <2>3
<1>2. CASE StartStep(r) BY <1>2 DEF StartStep
<1>3. CASE EndRun(r) BY <1>3 DEF EndRun
<1>4. CASE CancelRun(r) BY <1>4 DEF CancelRun
<1>5. CASE LeaseLapses(r) BY <1>5 DEF LeaseLapses
<1> QED BY <1>1, <1>2, <1>3, <1>4, <1>5 DEF ExecStep

LEMMA OtherStepAddsNone ==
    ASSUME GatesTyped, LeasesHeld, Reservations, Crash \/ Tick \/ UNCHANGED vars
    PROVE  NoneAdded
<1> USE DEF NoneAdded, LeasesHeld, Reservations, Chats, HourChats, Due, HoldsLease, Terminal,
            GatesTyped, StoreTyped
<1>1. CASE Crash BY <1>1 DEF Crash
<1>2. CASE Tick
  <2>1. /\ Hour \in Nat /\ Minute \in Nat /\ Minute <= Hour /\ None \notin Int
    BY GatesAssumption
  <2>2. \A age \in Ages : Older(age) \in Ages /\ Older(age) >= age
          /\ (age < Minute => Older(age) <= Minute)
    BY <2>1 DEF Older, Ages, Old
  <2>3. \A q \in Runs : started[q] \in Ages /\ started'[q] = Older(started[q])
    BY <1>2 DEF Tick
  <2>4. HourChats' \subseteq HourChats BY <1>2, <2>1, <2>2, <2>3 DEF Tick, Ages, Old
  <2>5. Reservations'
    <3> SUFFICES ASSUME NEW q \in Runs, Due(q) PROVE reserved'[q] # None /\ reserved'[q] <= Minute
      BY <1>2 DEF Tick
    <3>1. reserved[q] \in Ages /\ reserved[q] < Minute BY <1>2 DEF Tick, StartsInTime
    <3>2. reserved'[q] = Older(reserved[q]) BY <1>2 DEF Tick
    <3>3. Older(reserved[q]) \in Int BY <2>2, <3>1 DEF Ages
    <3> QED BY <2>1, <2>2, <3>1, <3>2, <3>3
  <2> QED BY <1>2, <2>4, <2>5 DEF Tick
<1>3. CASE UNCHANGED vars BY <1>3 DEF vars
<1> QED BY <1>1, <1>2, <1>3

\* Pruning keeps what stands for a run on its way, so the gate's two counts miss none of them.
LEMMA GateMissesNone ==
    ASSUME GatesTyped, TenantInv, NEW r \in Runs
    PROVE  /\ \A q \in Runs : Due(q) => Pruned[q] # None /\ Pruned[q] <= Minute
           /\ Chats \ {r} \subseteq ActiveChats(r, Pruned)
           /\ HourChats \subseteq StartedChats(Pruned)
<1>1. Minute \in Nat /\ Hour \in Nat /\ Minute <= Hour /\ None \notin Int BY GatesAssumption
<1>2. ASSUME NEW q \in Runs, Due(q)
      PROVE  Pruned[q] # None /\ Pruned[q] <= Minute /\ Pruned[q] \in Ages
  <2>1. reserved[q] # None /\ reserved[q] <= Minute /\ reserved[q] \in Ages
    BY <1>2 DEF TenantInv, Reservations, GatesTyped, StoreTyped
  <2>2. KeepsReservation(q, reserved[q])
    BY <1>1, <1>2, <2>1 DEF Due, KeepsReservation, Ages
  <2>3. Pruned[q] = reserved[q] BY <2>2 DEF Pruned
  <2> QED BY <2>1, <2>3
<1>3. ASSUME NEW q \in Chats \ {r} PROVE q \in ActiveChats(r, Pruned)
  <2>1. q \in Runs BY DEF Chats
  <2>2. CASE Due(q) BY <1>2, <2>1, <2>2 DEF ActiveChats
  <2>3. CASE ~Due(q)
    <3>1. exec[q] \in {"none", "starting", "leased", "working"}
      BY <2>1 DEF GatesTyped, StoreTyped
    <3>2. HoldsLease(q)
      BY <2>1, <2>3, <3>1 DEF Chats, HoldsLease, Due, TenantInv, LeasesHeld
    <3> QED BY <2>1, <3>2 DEF ActiveChats
  <2> QED BY <2>2, <2>3
<1>4. ASSUME NEW q \in HourChats PROVE q \in StartedChats(Pruned)
  <2>1. q \in Runs /\ (started[q] <= Hour \/ Due(q)) BY DEF HourChats
  <2>2. Due(q) => Pruned[q] # None /\ Pruned[q] <= Hour BY <1>1, <1>2, <2>1 DEF Ages
  <2> QED BY <2>1, <2>2 DEF StartedChats
<1> QED BY <1>2, <1>3, <1>4

\* The gate lets a run on its way only below both limits.
LEMMA TenantGateKeepsLimits ==
    ASSUME GatesTyped, TenantInv, TenantGate
    PROVE  TenantInv'
<1> DEFINE r == Head(pass.todo)
<1>1. r \in Runs
  <2>1. pass.todo \in Seq(Runs) /\ pass.todo # <<>>
    BY DEF TenantGate, GatesTyped, SoundPass, Passes
  <2> QED BY <2>1, HeadTailProperties
<1> HIDE DEF r
<1>2. UNCHANGED <<status, lease, started>> BY DEF TenantGate
<1>3. Minute \in Nat /\ TenantLimit \in Nat /\ HourLimit \in Nat /\ None \notin Int
  BY GatesAssumption
<1>4. \A q \in Runs : Due(q) => Pruned[q] # None /\ Pruned[q] <= Minute
  BY <1>1, GateMissesNone
<1>5. CASE ~TenantAdmits(r, Pruned)
  <2>1. reserved' = Pruned /\ UNCHANGED exec BY <1>5 DEF TenantGate, r
  <2>2. Chats' = Chats /\ HourChats' = HourChats /\ LeasesHeld'
    BY <1>2, <2>1 DEF TenantInv, LeasesHeld, Chats, HourChats, HoldsLease, Due
  <2>3. Reservations' BY <1>2, <1>4, <2>1 DEF Reservations, Due
  <2> QED BY <2>2, <2>3 DEF TenantInv
<1>6. CASE TenantAdmits(r, Pruned)
  <2>1. reserved' = [Pruned EXCEPT ![r] = 0] /\ exec' = [exec EXCEPT ![r] = "starting"]
    BY <1>6 DEF TenantGate, r
  <2>2. exec'[r] = "starting" /\ \A q \in Runs \ {r} : exec'[q] = exec[q]
    BY <1>1, <2>1 DEF GatesTyped, StoreTyped
  <2>3. LeasesHeld' BY <1>1, <1>2, <2>2 DEF TenantInv, LeasesHeld
  <2>4. Reservations'
    <3> SUFFICES ASSUME NEW q \in Runs, Due(q)'
                 PROVE  reserved'[q] # None /\ reserved'[q] <= Minute
      BY DEF Reservations
    <3>1. CASE q = r
      <4>1. reserved'[q] = 0 BY <1>1, <2>1, <3>1 DEF Pruned
      <4> QED BY <1>3, <4>1
    <3>2. CASE q # r
      <4>1. Due(q) /\ reserved'[q] = Pruned[q] BY <1>2, <2>1, <2>2, <3>2 DEF Due, Pruned
      <4> QED BY <1>4, <4>1
    <3> QED BY <3>1, <3>2
  <2>5. Chats' \subseteq Chats \cup {r} BY <1>2, <2>2 DEF Chats, HoldsLease
  <2>6. HourChats' \subseteq HourChats \cup {r} BY <1>2, <2>2 DEF HourChats, Due
  <2>7. Cardinality(Chats') <= TenantLimit /\ Cardinality(HourChats') <= HourLimit
    <3>1. ActiveChats(r, Pruned) \in SUBSET Runs /\ Chats' \in SUBSET Runs
            /\ StartedChats(Pruned) \in SUBSET Runs /\ HourChats' \in SUBSET Runs
      BY DEF ActiveChats, StartedChats, Chats, HourChats
    <3>2. Cardinality(ActiveChats(r, Pruned)) < TenantLimit
            /\ Cardinality(StartedChats(Pruned)) < HourLimit
      BY <1>6 DEF TenantAdmits
    <3>3. Chats \ {r} \subseteq ActiveChats(r, Pruned) /\ HourChats \subseteq StartedChats(Pruned)
      BY <1>1, GateMissesNone
    <3>4. Chats' \subseteq ActiveChats(r, Pruned) \cup {r} BY <2>5, <3>3
    <3>5. HourChats' \subseteq StartedChats(Pruned) \cup {r} BY <2>6, <3>3
    <3> QED BY <1>1, <1>3, <3>1, <3>2, <3>4, <3>5, OneMore
  <2> QED BY <2>3, <2>4, <2>7 DEF TenantInv
<1> QED BY <1>5, <1>6

LEMMA TenantInit == ASSUME Init PROVE TenantInv
<1>1. Hour \in Nat /\ TenantLimit \in Nat /\ HourLimit \in Nat BY GatesAssumption
<1>2. Chats = {} /\ HourChats = {}
  BY <1>1 DEF Init, Chats, HourChats, HoldsLease, Due, Old
<1> QED BY <1>1, <1>2, FS_EmptySet DEF Init, TenantInv, LeasesHeld, Reservations, Due

LEMMA TenantStep == ASSUME GatesTyped, TenantInv, [Next]_vars PROVE TenantInv'
<1>1. ASSUME NoneAdded PROVE TenantInv'
  <2>1. Chats \in SUBSET Runs /\ HourChats \in SUBSET Runs
        /\ Chats' \in SUBSET Runs /\ HourChats' \in SUBSET Runs
        /\ Chats' \subseteq Chats /\ HourChats' \subseteq HourChats
    BY <1>1 DEF NoneAdded, Chats, HourChats
  <2>2. /\ Cardinality(Chats) \in 0..NumRuns /\ Cardinality(Chats') \in 0..NumRuns
        /\ Cardinality(HourChats) \in 0..NumRuns /\ Cardinality(HourChats') \in 0..NumRuns
        /\ Cardinality(Chats') <= Cardinality(Chats)
        /\ Cardinality(HourChats') <= Cardinality(HourChats)
    BY <2>1, RunSets
  <2> QED BY <1>1, <2>2, GatesAssumption DEF NoneAdded, TenantInv
<1>2. LeasesHeld /\ Reservations BY DEF TenantInv
<1>3. CASE TenantGate BY <1>3, TenantGateKeepsLimits
<1>4. CASE ~TenantGate
  BY <1>1, <1>2, <1>4, BatchStepAddsNone, PassStepAddsNone, ExecStepAddsNone,
     OtherStepAddsNone DEF Next
<1> QED BY <1>3, <1>4

LEMMA TenantInvHolds == Spec => []TenantInv
  BY TenantInit, TenantStep, GatesTypedHolds, PTL DEF Spec

\* The tenant never has more than maxConcurrentChats runs under way: a run counts from
\* its admission on, though the store shows it only once it has its lease.
THEOREM TenantLimitAlwaysHolds == Spec => []TenantLimitHolds
<1>1. TenantInv => TenantLimitHolds BY DEF TenantInv, TenantLimitHolds
<1> QED BY <1>1, TenantInvHolds, PTL

\* The tenant never starts more than maxChatsPerHour runs within an hour, also when
\* crashes take the reservations away.
THEOREM HourLimitAlwaysHolds == Spec => []HourLimitHolds
<1>1. ASSUME TenantInv PROVE HourLimitHolds
  <2>1. HourChats \in SUBSET Runs /\ RecentChats \in SUBSET HourChats
    BY DEF HourChats, RecentChats
  <2>2. RecentChats \in SUBSET Runs BY <2>1
  <2>3. /\ Cardinality(RecentChats) <= Cardinality(HourChats)
        /\ Cardinality(RecentChats) \in 0..NumRuns /\ Cardinality(HourChats) \in 0..NumRuns
    BY <2>1, <2>2, RunSets
  <2>4. Cardinality(RecentChats) <= HourLimit
    BY <1>1, <2>3, GatesAssumption DEF TenantInv
  <2> QED BY <2>4 DEF HourLimitHolds
<1>2. TenantInv => HourLimitHolds BY <1>1
<1> QED BY <1>2, TenantInvHolds, PTL
--------------------------------------------------------------------------------
(***************************************************************************)
(* The drains, the gate and the executions implement TenantQuota.  Under   *)
(* TenantInv every step is one of its steps: an admission counted all the  *)
(* runs TenantQuota counts, because GateMissesNone; a run that starts was  *)
(* still due and stays under way by its lease; everything else lets runs   *)
(* leave, or leaves them alone.                                            *)
(***************************************************************************)
\* runs leave or nothing changes for the quota
RunsLeave == Chats' \subseteq Chats /\ DueChats' \subseteq DueChats /\ RecentChats' = RecentChats

LEMMA LeavingIsAllowed == ASSUME RunsLeave PROVE [Quota!QuotaNext]_(Quota!quota)
  BY DEF RunsLeave, Quota!QuotaNext, Quota!Leave

LEMMA BatchStepLeaves ==
    ASSUME GatesTyped,
           BatchStep \/ (\E r \in Runs \ Batch : CreateResponse(r)) \/ BackgroundDrain
    PROVE  RunsLeave
<1> USE DEF RunsLeave, Chats, DueChats, RecentChats, Due, HoldsLease, Terminal
<1>1. Batch \subseteq Runs /\ status \in [Runs -> {"absent", "planned", "running"} \cup Terminal]
  BY GatesAssumption DEF Runs, GatesTyped, StoreTyped
<1>2. CASE ResolveDispatch \/ WriteBatch \/ BackgroundDrain
  BY <1>2 DEF ResolveDispatch, WriteBatch, BackgroundDrain
<1>3. ASSUME NEW r \in Batch, CreateChild(r) PROVE RunsLeave
  BY <1>1, <1>3 DEF CreateChild, NextToCreate
<1>4. ASSUME NEW r \in Runs \ Batch, CreateResponse(r) PROVE RunsLeave
  BY <1>1, <1>4 DEF CreateResponse, NextToCreate
<1> QED BY <1>2, <1>3, <1>4 DEF BatchStep

LEMMA PassStepLeaves ==
    ASSUME GatesTyped, PassStep, ~TenantGate
    PROVE  RunsLeave
<1> USE DEF RunsLeave, Chats, DueChats, RecentChats, Due, HoldsLease, Terminal
<1>1. CASE InspectCandidates
  <2>1. /\ UNCHANGED <<status, exec, started>>
        /\ \A q \in Runs : lease'[q] # "none" => lease[q] # "none"
    BY <1>1 DEF InspectCandidates
  <2> QED BY <2>1
<1>2. CASE SelectLocalClaim
  <2>1. /\ UNCHANGED <<lease, exec, started>>
        /\ \A q \in Runs : status'[q] = status[q]
              \/ (status[q] \notin Terminal /\ status'[q] = "planned")
    BY <1>2 DEF SelectLocalClaim, GatesTyped, StoreTyped
  <2> QED BY <2>1
<1>3. CASE BeginDrain \/ BatchConcurrencyGate \/ BatchRateGate \/ AwaitExecution
             \/ SettleDeferred
  BY <1>3 DEF BeginDrain, BatchConcurrencyGate, BatchRateGate, AwaitExecution, SettleDeferred
<1> QED BY <1>1, <1>2, <1>3 DEF PassStep

\* A run counts as under way by its execution before it has its lease, and by either after.
LEMMA ExecStepLeaves ==
    ASSUME GatesTyped, NEW r \in Runs,
           AcquireLease(r) \/ EndRun(r) \/ CancelRun(r) \/ LeaseLapses(r)
    PROVE  RunsLeave
<1> USE DEF RunsLeave, Chats, DueChats, RecentChats, Due, HoldsLease, Terminal
<1>1. /\ exec \in [Runs -> {"none", "starting", "leased", "working"}]
      /\ lease \in [Runs -> {"none", "held", "lapsed"}]
      /\ status \in [Runs -> {"absent", "planned", "running"} \cup Terminal]
  BY DEF GatesTyped, StoreTyped
<1>2. CASE AcquireLease(r)
  <2>1. UNCHANGED <<status, started>> BY <1>2 DEF AcquireLease
  <2>2. CASE status[r] = "planned"
    <3>1. /\ exec[r] = "starting" /\ exec'[r] = "leased" /\ lease'[r] = "held"
          /\ \A q \in Runs \ {r} : exec'[q] = exec[q] /\ lease'[q] = lease[q]
      BY <1>1, <1>2, <2>2 DEF AcquireLease
    <3> QED BY <2>1, <2>2, <3>1
  <2>3. CASE status[r] # "planned"
    <3>1. /\ lease' = lease /\ exec'[r] = "none"
          /\ \A q \in Runs \ {r} : exec'[q] = exec[q]
      BY <1>1, <1>2, <2>3 DEF AcquireLease
    <3> QED BY <2>1, <3>1
  <2> QED BY <2>2, <2>3
<1>3. CASE EndRun(r)
  <2>1. /\ UNCHANGED started /\ lease'[r] = "none" /\ exec'[r] = "none"
        /\ \A q \in Runs \ {r} : /\ exec'[q] = exec[q] /\ lease'[q] = lease[q]
                                 /\ status'[q] = status[q]
    BY <1>1, <1>3 DEF EndRun
  <2> QED BY <2>1
<1>4. CASE CancelRun(r)
  <2>1. /\ UNCHANGED <<started, lease, exec>> /\ status'[r] = "cancelled"
        /\ \A q \in Runs \ {r} : status'[q] = status[q]
    BY <1>1, <1>4 DEF CancelRun
  <2> QED BY <2>1
<1>5. CASE LeaseLapses(r)
  <2>1. /\ UNCHANGED <<started, status, exec>> /\ lease[r] # "none"
        /\ \A q \in Runs \ {r} : lease'[q] = lease[q]
    BY <1>1, <1>5 DEF LeaseLapses
  <2> QED BY <2>1
<1> QED BY <1>2, <1>3, <1>4, <1>5

\* A start uses up an admission, and the run stays under way by its lease.
LEMMA StartIsStart ==
    ASSUME GatesTyped, LeasesHeld, NEW r \in Runs, StartStep(r)
    PROVE  Quota!Start(r)
<1>1. /\ exec[r] = "leased" /\ status[r] = "planned" /\ lease[r] = "held"
      /\ exec'[r] = "working" /\ status'[r] = "running" /\ started'[r] = 0 /\ lease' = lease
      /\ \A q \in Runs \ {r} : /\ exec'[q] = exec[q] /\ status'[q] = status[q]
                               /\ started'[q] = started[q]
  BY DEF StartStep, LeasesHeld, GatesTyped, StoreTyped
<1>2. Chats' = Chats BY <1>1 DEF Chats, HoldsLease, Terminal
<1>3. r \in DueChats /\ DueChats' = DueChats \ {r} BY <1>1 DEF DueChats, Due, Terminal
<1>4. RecentChats' = RecentChats \cup {r} BY <1>1, GatesAssumption DEF RecentChats
<1> QED BY <1>2, <1>3, <1>4 DEF Quota!Start

\* The instance counts sets as this module does.
LEMMA SameCount == ASSUME NEW S PROVE Quota!Cardinality(S) = Cardinality(S)
  BY DEF Quota!Cardinality, Cardinality

\* Whoever the gate admits, TenantQuota may admit: the gate's counts cover its own.
LEMMA TenantGateAdmits ==
    ASSUME GatesTyped, TenantInv, TenantGate
    PROVE  RunsLeave \/ \E r \in Runs : Quota!Admit(r)
<1> DEFINE r == Head(pass.todo)
<1>1. r \in Runs
  <2>1. pass.todo \in Seq(Runs) /\ pass.todo # <<>>
    BY DEF TenantGate, GatesTyped, SoundPass, Passes
  <2> QED BY <2>1, HeadTailProperties
<1> HIDE DEF r
<1>2. UNCHANGED <<status, lease, started>> BY DEF TenantGate
<1>3. RecentChats' = RecentChats BY <1>2 DEF RecentChats
<1>4. CASE ~TenantAdmits(r, Pruned)
  <2>1. UNCHANGED exec BY <1>4 DEF TenantGate, r
  <2>2. Chats' = Chats /\ DueChats' = DueChats
    BY <1>2, <2>1 DEF Chats, DueChats, Due, HoldsLease
  <2> QED BY <1>3, <2>2 DEF RunsLeave
<1>5. CASE TenantAdmits(r, Pruned)
  <2>1. exec'[r] = "starting" /\ \A q \in Runs \ {r} : exec'[q] = exec[q]
    BY <1>1, <1>5 DEF TenantGate, r, GatesTyped, StoreTyped
  <2>2. CASE status[r] \in Terminal
    <3>1. Chats' = Chats BY <1>2, <2>1, <2>2 DEF Chats, HoldsLease
    <3>2. DueChats' = DueChats BY <1>2, <2>1, <2>2 DEF DueChats, Due
    <3> QED BY <1>3, <3>1, <3>2 DEF RunsLeave
  <2>3. CASE status[r] \notin Terminal
    <3>1. Chats' = Chats \cup {r} BY <1>1, <1>2, <2>1, <2>3 DEF Chats, HoldsLease
    <3>2. DueChats' = DueChats \cup {r} BY <1>1, <1>2, <2>1, <2>3 DEF DueChats, Due
    <3>3. Cardinality(Chats \ {r}) < TenantLimit
      <4>1. ActiveChats(r, Pruned) \in SUBSET Runs /\ Chats \ {r} \in SUBSET Runs
        BY DEF ActiveChats, Chats
      <4>2. Chats \ {r} \in SUBSET ActiveChats(r, Pruned) BY <1>1, GateMissesNone
      <4>3. /\ Cardinality(Chats \ {r}) <= Cardinality(ActiveChats(r, Pruned))
            /\ Cardinality(ActiveChats(r, Pruned)) \in Nat /\ Cardinality(Chats \ {r}) \in Nat
        BY <4>1, <4>2, RunSets, FS_CardinalityType
      <4>4. Cardinality(ActiveChats(r, Pruned)) < TenantLimit BY <1>5 DEF TenantAdmits
      <4> QED BY <4>3, <4>4, GatesAssumption
    <3>4. Cardinality(RecentChats \cup DueChats) < HourLimit
      <4>1. RecentChats \cup DueChats = HourChats BY DEF RecentChats, DueChats, HourChats
      <4>2. StartedChats(Pruned) \in SUBSET Runs /\ HourChats \in SUBSET Runs
        BY DEF StartedChats, HourChats
      <4>3. HourChats \in SUBSET StartedChats(Pruned) BY <1>1, GateMissesNone
      <4>4. /\ Cardinality(HourChats) <= Cardinality(StartedChats(Pruned))
            /\ Cardinality(StartedChats(Pruned)) \in Nat /\ Cardinality(HourChats) \in Nat
        BY <4>2, <4>3, RunSets, FS_CardinalityType
      <4>5. Cardinality(StartedChats(Pruned)) < HourLimit BY <1>5 DEF TenantAdmits
      <4>6. Cardinality(HourChats) < HourLimit BY <4>4, <4>5, GatesAssumption
      <4> QED BY <4>1, <4>6, Zenon
    <3>5. Quota!Admit(r) BY <1>3, <3>1, <3>2, <3>3, <3>4, SameCount DEF Quota!Admit
    <3> QED BY <1>1, <3>5
  <2> QED BY <2>2, <2>3
<1> QED BY <1>4, <1>5

\* A crash takes away what was due; time makes starts old and nothing else.
LEMMA CrashAndTickAllowed ==
    ASSUME GatesTyped, Crash \/ Tick
    PROVE  [Quota!QuotaNext]_(Quota!quota)
<1>1. CASE Crash
  <2>1. UNCHANGED <<status, lease, started>> /\ \A q \in Runs : exec'[q] = "none"
    BY <1>1 DEF Crash
  <2>2. Chats' \subseteq Chats BY <2>1 DEF Chats, HoldsLease
  <2>3. DueChats' \subseteq DueChats BY <2>1 DEF DueChats, Due
  <2>4. RecentChats' = RecentChats BY <2>1 DEF RecentChats
  <2> QED BY <2>2, <2>3, <2>4, LeavingIsAllowed DEF RunsLeave
<1>2. CASE Tick
  <2>1. UNCHANGED <<status, lease, exec>> /\ \A q \in Runs : started'[q] = Older(started[q])
    BY <1>2 DEF Tick
  <2>2. Chats' = Chats /\ DueChats' = DueChats
    BY <2>1 DEF Chats, DueChats, Due, HoldsLease
  <2>3. RecentChats' \subseteq RecentChats
    <3>1. Hour \in Nat /\ \A q \in Runs : started[q] \in Ages
      BY GatesAssumption DEF GatesTyped, StoreTyped
    <3>2. \A age \in Ages : age \in Int /\ Older(age) \in Int /\ Older(age) >= age
      BY <3>1 DEF Older, Ages, Old
    <3>3. \A q \in Runs : started'[q] <= Hour => started[q] <= Hour BY <2>1, <3>1, <3>2
    <3> QED BY <3>3 DEF RecentChats
  <2> QED BY <2>2, <2>3 DEF Quota!QuotaNext, Quota!HourPasses
<1> QED BY <1>1, <1>2

LEMMA QuotaStep ==
    ASSUME GatesTyped, TenantInv, [Next]_vars
    PROVE  [Quota!QuotaNext]_(Quota!quota)
<1>1. CASE TenantGate BY <1>1, TenantGateAdmits, LeavingIsAllowed DEF Quota!QuotaNext
<1>2. CASE PassStep /\ ~TenantGate BY <1>2, PassStepLeaves, LeavingIsAllowed
<1>3. CASE BatchStep \/ (\E r \in Runs \ Batch : CreateResponse(r)) \/ BackgroundDrain
  BY <1>3, BatchStepLeaves, LeavingIsAllowed
<1>4. ASSUME NEW r \in Runs, AcquireLease(r) \/ EndRun(r) \/ CancelRun(r) \/ LeaseLapses(r)
      PROVE  [Quota!QuotaNext]_(Quota!quota)
  BY <1>4, ExecStepLeaves, LeavingIsAllowed
<1>5. ASSUME NEW r \in Runs, StartStep(r) PROVE [Quota!QuotaNext]_(Quota!quota)
  <2>1. Quota!Start(r) BY <1>5, StartIsStart DEF TenantInv
  <2> QED BY <2>1 DEF Quota!QuotaNext
<1>6. CASE Crash \/ Tick BY <1>6, CrashAndTickAllowed
<1>7. CASE UNCHANGED vars
  <2>1. UNCHANGED <<status, lease, started, exec>> BY <1>7 DEF vars
  <2>2. Chats' = Chats /\ DueChats' = DueChats /\ RecentChats' = RecentChats
    BY <2>1 DEF Chats, DueChats, RecentChats, Due, HoldsLease
  <2> QED BY <2>2 DEF Quota!quota
<1> QED BY <1>1, <1>2, <1>3, <1>4, <1>5, <1>6, <1>7 DEF Next, ExecStep

\* The execution gate keeps its promise to the account: seen through the runs that are under
\* way, due and recently started, every behaviour of the drains is one of TenantQuota, for any
\* limits, budgets, drains, crashes and cancellations.
THEOREM QuotaImplemented == Spec => ImplementsQuota
<1>1. ASSUME Init PROVE Quota!QuotaInit
  <2>1. Hour \in Nat BY GatesAssumption
  <2>2. Chats = {} BY <1>1 DEF Init, Chats, HoldsLease
  <2>3. DueChats = {} /\ RecentChats = {}
    BY <1>1, <2>1 DEF Init, DueChats, Due, RecentChats, Old
  <2> QED BY <2>2, <2>3 DEF Quota!QuotaInit
<1>2. GatesTyped /\ TenantInv /\ [Next]_vars => [Quota!QuotaNext]_(Quota!quota) BY QuotaStep
<1>3. Init => Quota!QuotaInit BY <1>1
<1> QED BY <1>2, <1>3, GatesTypedHolds, TenantInvHolds, PTL
        DEF Spec, ImplementsQuota, Quota!QuotaSpec
--------------------------------------------------------------------------------
(***************************************************************************)
(* The batch: its dispatch.                                                *)
(***************************************************************************)
\* what createBatch leaves behind
BatchMade == batch.pc # "resolve" => batch.assigned = ResolveDispatchPool(batch.base)

\* Only resolving sets the dispatch.
LEMMA BatchMadeStep == ASSUME GatesTyped, BatchMade, [Next]_vars PROVE BatchMade'
<1> USE DEF GatesTyped, StoreTyped
<1>1. Batch \subseteq Runs BY GatesAssumption DEF Runs
<1>2. CASE ResolveDispatch BY <1>2 DEF ResolveDispatch, BatchMade
<1>3. CASE WriteBatch BY <1>3 DEF WriteBatch, BatchMade
<1>4. CASE Crash BY <1>4 DEF Crash, BatchMade
<1>5. CASE UNCHANGED batch BY <1>5 DEF BatchMade
<1>6. ASSUME NEW r \in Runs,
             \/ CreateChild(r) \/ CreateResponse(r) \/ ExecStep(r)
             \/ CancelRun(r) \/ LeaseLapses(r)
      PROVE  BatchMade'
  BY <1>5, <1>6 DEF CreateChild, CreateResponse, ExecStep, AcquireLease, StartStep, EndRun,
     CancelRun, LeaseLapses
<1>7. CASE PassStep
  BY <1>5, <1>7 DEF PassStep, BeginDrain, InspectCandidates, SelectLocalClaim,
     BatchConcurrencyGate, BatchRateGate, TenantGate, AwaitExecution, SettleDeferred
<1>8. CASE BackgroundDrain \/ Tick \/ UNCHANGED vars
  BY <1>5, <1>8 DEF BackgroundDrain, Tick, vars
<1> QED BY <1>1, <1>2, <1>3, <1>4, <1>6, <1>7, <1>8 DEF Next, BatchStep

LEMMA BatchMadeHolds == Spec => []BatchMade
<1>1. Init => BatchMade BY DEF Init, BatchMade
<1> QED BY <1>1, BatchMadeStep, GatesTypedHolds, PTL DEF Spec

\* The pool is balanced: no member that was given a child ends up more than one run above
\* another, for any loads the members had.
THEOREM BalancedDispatchHolds == Spec => []BalancedDispatch
<1>1. ASSUME GatesTyped, BatchMade PROVE BalancedDispatch
  <2>1. batch.base \in Loads
    <3>1. batch.base \in [Members -> 0..NumRuns] /\ 0..NumRuns \subseteq Nat
      BY <1>1, GatesAssumption DEF GatesTyped, StoreTyped
    <3> QED BY <3>1 DEF Loads
  <2>2. CASE batch.pc # "resolve"
    <3>1. batch.assigned = ResolveDispatchPool(batch.base) BY <1>1, <2>2 DEF BatchMade
    <3>2. EvenDispatch(batch.base, batch.assigned) BY <2>1, <3>1, DispatchIsEven
    <3> QED BY <3>2 DEF EvenDispatch, BalancedDispatch
  <2>3. CASE batch.pc = "resolve" BY <2>3 DEF BalancedDispatch
  <2> QED BY <2>2, <2>3
<1>2. GatesTyped /\ BatchMade => BalancedDispatch BY <1>1
<1> QED BY <1>2, GatesTypedHolds, BatchMadeHolds, PTL

--------------------------------------------------------------------------------
(***************************************************************************)
(* The batch's limits.  Its gates look at the store only and so miss what  *)
(* the pass has started and not waited for.  The invariant bounds that:    *)
(* no more runs are under way than the pass has counted (and the one it    *)
(* awaits), it never counts more than its budget, and no pass begins       *)
(* before the runs of the last one have ended.  What the gates saw stands  *)
(* from then on for the runs that have taken their lease, or started, or   *)
(* are about to, taken together: taking a lease and starting move a run    *)
(* from one part to the other.                                             *)
(* Until the first crash, moreover, no lease is left without its           *)
(* execution, and every drain's budget is within maxConcurrentRuns.        *)
(***************************************************************************)
Begun == {r \in Batch : started[r] <= Minute}
Leases == {r \in Batch : HoldsLease(r)}
Live == {r \in Runs : exec[r] # "none"}
Coming == {r \in Batch : exec[r] \in {"starting", "leased"}}
Claiming == {r \in Batch : exec[r] = "starting"}

Candidate(pcs) == pass.pc \in pcs /\ Head(pass.todo) \in Batch

\* the pass and what it has under way
Budget ==
    /\ pass.left <= Unseen
    /\ pass.pc # "inspect" => pass.count + Len(pass.todo) <= pass.left
    /\ pass.pc \in {"idle", "inspect"} => Live = {}
    /\ Cardinality(Live) <= IF pass.pc = "await" THEN pass.count + 1 ELSE pass.count
    /\ Distinct(pass.todo)
    /\ \A i \in DOMAIN pass.todo :
           exec[pass.todo[i]] = "none" \/ (pass.pc = "await" /\ i = 1)
    /\ \A i \in DOMAIN queue : queue[i].kind = "recovery" => crashes > 0

RateRoom ==
    /\ Cardinality(Begun \cup Coming) <= BatchRate - 1 + Unseen
    /\ Candidate({"tenant"}) => Cardinality(Begun \cup Coming) <= BatchRate - 1 + pass.count

LimitRoom ==
    /\ Cardinality(Leases \cup Claiming) <= BatchLimit - 1 + Unseen
    /\ Candidate({"rate", "tenant"})
         => Cardinality((Leases \cup Claiming) \ {Head(pass.todo)}) <= BatchLimit - 1 + pass.count
    /\ crashes = 0 => \A r \in Runs : lease[r] # "none" => exec[r] \in {"leased", "working"}

BatchInv == Budget /\ RateRoom /\ LimitRoom

\* Unseen, of a number of crashes
UnseenAt(c) == Max({MaxRuns(d) : d \in {x \in Drains : x.kind = "recovery" => c > 0}})

LEMMA UnseenFacts ==
    ASSUME NEW c \in Nat
    PROVE  /\ UnseenAt(c) \in Nat /\ UnseenAt(c) >= 1
           /\ \A d \in Drains : (d.kind = "recovery" => c > 0)
                                  => MaxRuns(d) \in Nat /\ MaxRuns(d) <= UnseenAt(c)
           /\ c = 0 => UnseenAt(c) <= BatchLimit
           /\ \E d \in Drains : (d.kind = "recovery" => c > 0) /\ UnseenAt(c) = MaxRuns(d)
<1> DEFINE allowed == {x \in Drains : x.kind = "recovery" => c > 0}
           budgets == {MaxRuns(d) : d \in allowed}
           b == Min({Cardinality(Batch), BatchLimit})
<1>1. b \in Nat /\ b <= BatchLimit /\ RecoverRuns \in Nat /\ BatchLimit \in Nat /\ BatchLimit >= 1
  <2>1. Batch \in SUBSET Runs BY GatesAssumption DEF Runs
  <2>2. Cardinality(Batch) \in 0..NumRuns BY <2>1, RunSets
  <2>3. Cardinality(Batch) \in Nat BY <2>2
  <2> QED BY <2>3, GatesAssumption, MinOfTwo
<1>2. \A d \in Drains : MaxRuns(d) = IF d.kind = "batch" THEN b
                                     ELSE IF d.kind = "recovery" THEN RecoverRuns ELSE 1
  BY DEF MaxRuns
<1> HIDE DEF b
<1>3. 1 \in budgets
  <2>1. Drain("background", None) \in allowed BY DEF Drain, Drains
  <2>2. MaxRuns(Drain("background", None)) = 1 BY DEF MaxRuns, Drain
  <2> QED BY <2>1, <2>2
<1>4. budgets \subseteq {b, RecoverRuns, 1} BY <1>2
<1>5. c = 0 => budgets \subseteq {b, 1} BY <1>2
<1>6. \A d \in allowed : MaxRuns(d) \in budgets OBVIOUS
<1>7. \A n \in budgets : \E d \in allowed : n = MaxRuns(d) OBVIOUS
<1> HIDE DEF budgets
<1>8. \E x \in budgets : \A y \in budgets : x >= y BY <1>1, <1>3, <1>4
<1>9. Max(budgets) \in budgets /\ \A y \in budgets : Max(budgets) >= y BY <1>8 DEF Max
<1>10. UnseenAt(c) = Max(budgets) BY DEF UnseenAt, budgets
<1>11. budgets \subseteq Nat BY <1>1, <1>4
<1>12. UnseenAt(c) \in Nat /\ UnseenAt(c) >= 1 BY <1>3, <1>9, <1>10, <1>11
<1>13. \A d \in allowed : MaxRuns(d) \in Nat /\ MaxRuns(d) <= UnseenAt(c)
  BY <1>6, <1>9, <1>10, <1>11
<1>14. c = 0 => UnseenAt(c) <= BatchLimit BY <1>1, <1>5, <1>9, <1>10
<1>15. \E d \in allowed : UnseenAt(c) = MaxRuns(d) BY <1>7, <1>9, <1>10
<1> QED BY <1>12, <1>13, <1>14, <1>15

LEMMA UnseenGrows ==
    ASSUME NEW c \in Nat, NEW d \in Nat, c <= d
    PROVE  UnseenAt(c) <= UnseenAt(d)
<1>1. PICK x \in Drains : (x.kind = "recovery" => c > 0) /\ UnseenAt(c) = MaxRuns(x)
  BY UnseenFacts
<1>2. x.kind = "recovery" => d > 0 BY <1>1
<1> QED BY <1>1, <1>2, UnseenFacts

LEMMA BatchSets ==
    /\ Batch \subseteq Runs /\ BatchRate \in Nat \ {0} /\ BatchLimit \in Nat \ {0}
    /\ \A S \in {Begun, Leases, Live, Coming, Claiming, Begun \cup Coming, Leases \cup Claiming} :
           S \in SUBSET Runs /\ Cardinality(S) \in Nat
    /\ Begun' \in SUBSET Runs /\ Coming' \in SUBSET Runs /\ Live' \in SUBSET Runs
    /\ Leases' \in SUBSET Runs /\ Claiming' \in SUBSET Runs
<1>1. Batch \subseteq Runs /\ BatchRate \in Nat \ {0} /\ BatchLimit \in Nat \ {0}
  BY GatesAssumption DEF Runs
<1>2. \A S \in SUBSET Runs : Cardinality(S) \in Nat BY RunSets, FS_CardinalityType
<1>3. /\ Begun \in SUBSET Runs /\ Leases \in SUBSET Runs /\ Live \in SUBSET Runs
      /\ Coming \in SUBSET Runs /\ Claiming \in SUBSET Runs
  BY <1>1 DEF Begun, Leases, Live, Coming, Claiming
<1>4. /\ Begun' \in SUBSET Runs /\ Coming' \in SUBSET Runs /\ Live' \in SUBSET Runs
      /\ Leases' \in SUBSET Runs /\ Claiming' \in SUBSET Runs
  BY <1>1 DEF Begun, Leases, Live, Coming, Claiming
<1> QED BY <1>1, <1>2, <1>3, <1>4

LEMMA NoMore ==
    ASSUME NEW S \in SUBSET Runs, NEW T \in SUBSET S
    PROVE  /\ Cardinality(S) \in Nat /\ Cardinality(T) \in Nat
           /\ Cardinality(T) <= Cardinality(S)
<1>1. T \in SUBSET Runs OBVIOUS
<1> QED BY <1>1, RunSets, FS_CardinalityType

\* Two sets together hold no more than the sum of what they hold.
LEMMA Together ==
    ASSUME NEW S \in SUBSET Runs, NEW T \in SUBSET Runs
    PROVE  /\ Cardinality(S \cup T) \in Nat /\ Cardinality(S) \in Nat /\ Cardinality(T) \in Nat
           /\ Cardinality(S \cup T) <= Cardinality(S) + Cardinality(T)
<1>1. /\ IsFiniteSet(S) /\ IsFiniteSet(T) /\ Cardinality(S) \in Nat /\ Cardinality(T) \in Nat
  BY RunSets, FS_CardinalityType
<1>2. S \cap T \in SUBSET Runs /\ S \cup T \in SUBSET Runs OBVIOUS
<1>3. Cardinality(S \cap T) \in Nat /\ Cardinality(S \cup T) \in Nat
  BY <1>2, RunSets, FS_CardinalityType
<1>4. Cardinality(S \cup T) = Cardinality(S) + Cardinality(T) - Cardinality(S \cap T)
  BY <1>1, FS_Union
<1> QED BY <1>1, <1>3, <1>4

\* no child comes to count, and the drain does not come to ask about one
NoneJoins ==
    /\ (Begun \cup Coming)' \subseteq Begun \cup Coming
    /\ (Leases \cup Claiming)' \subseteq Leases \cup Claiming
    /\ pass'.pc \in {"rate", "tenant"} => pass' = pass
    /\ crashes' \in {crashes, crashes + 1}
    /\ crashes' = 0 => \A r \in Runs : lease'[r] # "none" => exec'[r] \in {"leased", "working"}

LEMMA NoneJoinsKeepsRoom ==
    ASSUME GatesTyped, RateRoom, LimitRoom, NoneJoins
    PROVE  RateRoom' /\ LimitRoom'
<1> DEFINE B == Begun \cup Coming
           L == Leases \cup Claiming
           h == Head(pass.todo)
<1>1. crashes \in Nat /\ crashes' \in Nat /\ crashes <= crashes'
  BY GatesAssumption DEF GatesTyped, StoreTyped, NoneJoins
<1>2. /\ Unseen \in Nat /\ Unseen' \in Nat /\ Unseen <= Unseen'
  <2>1. Unseen = UnseenAt(crashes) /\ Unseen' = UnseenAt(crashes') BY DEF Unseen, UnseenAt
  <2> QED BY <1>1, <2>1, UnseenFacts, UnseenGrows
<1>3. BatchRate \in Nat /\ BatchLimit \in Nat BY BatchSets
<1>4. B \in SUBSET Runs /\ B' \in SUBSET B /\ L \in SUBSET Runs /\ L' \in SUBSET L
  BY BatchSets DEF NoneJoins
<1>5. L \ {h} \in SUBSET Runs /\ L' \ {h} \in SUBSET (L \ {h}) BY <1>4
<1> HIDE DEF B, L, h
<1>6. /\ Cardinality(B) \in Nat /\ Cardinality(B') \in Nat /\ Cardinality(B') <= Cardinality(B)
      /\ Cardinality(L) \in Nat /\ Cardinality(L') \in Nat /\ Cardinality(L') <= Cardinality(L)
  BY <1>4, NoMore
<1>7. /\ Cardinality(L \ {h}) \in Nat /\ Cardinality(L' \ {h}) \in Nat
      /\ Cardinality(L' \ {h}) <= Cardinality(L \ {h})
  BY <1>5, NoMore
<1>8. pass.count \in Nat BY DEF GatesTyped, SoundPass, Passes
<1>9. /\ Cardinality(B) <= BatchRate - 1 + Unseen
      /\ Candidate({"tenant"}) => Cardinality(B) <= BatchRate - 1 + pass.count
      /\ Cardinality(L) <= BatchLimit - 1 + Unseen
      /\ Candidate({"rate", "tenant"}) => Cardinality(L \ {h}) <= BatchLimit - 1 + pass.count
  BY DEF RateRoom, LimitRoom, B, L, h
<1>10. /\ Cardinality(B') <= BatchRate - 1 + Unseen'
       /\ Cardinality(L') <= BatchLimit - 1 + Unseen'
  BY <1>2, <1>3, <1>6, <1>9
<1>11. ASSUME Candidate({"tenant"})'
       PROVE  Cardinality(B') <= BatchRate - 1 + pass'.count
  <2>1. pass' = pass /\ Candidate({"tenant"}) BY <1>11 DEF Candidate, NoneJoins
  <2> QED BY <1>3, <1>6, <1>8, <1>9, <2>1
<1>12. ASSUME Candidate({"rate", "tenant"})'
       PROVE  Cardinality(L' \ {Head(pass'.todo)}) <= BatchLimit - 1 + pass'.count
  <2>1. pass' = pass /\ Candidate({"rate", "tenant"}) BY <1>12 DEF Candidate, NoneJoins
  <2>2. Head(pass'.todo) = h BY <2>1 DEF h
  <2> QED BY <1>3, <1>7, <1>8, <1>9, <2>1, <2>2
<1>13. crashes' = 0 => \A r \in Runs : lease'[r] # "none" => exec'[r] \in {"leased", "working"}
  BY DEF NoneJoins
<1>14. RateRoom' BY <1>10, <1>11 DEF RateRoom, B
<1>15. LimitRoom' BY <1>10, <1>12, <1>13 DEF LimitRoom, L
<1> QED BY <1>14, <1>15

\* While the pass stands still, runs may come out of execution, not into it.
LEMMA StillPassKeepsBudget ==
    ASSUME GatesTyped, Budget, pass' = pass, crashes' = crashes,
           \A r \in Runs : exec[r] = "none" => exec'[r] = "none",
           \A i \in DOMAIN queue' : queue'[i].kind = "recovery" => crashes > 0
    PROVE  Budget'
<1>1. Unseen' = Unseen BY DEF Unseen
<1>2. Live' \in SUBSET Live BY DEF Live
<1>3. /\ Cardinality(Live) \in Nat /\ Cardinality(Live') \in Nat
      /\ Cardinality(Live') <= Cardinality(Live)
  <2>1. Live \in SUBSET Runs BY DEF Live
  <2> QED BY <1>2, <2>1, NoMore
<1>4. pass.count \in Nat /\ pass.todo \in Seq(Runs) BY DEF GatesTyped, SoundPass, Passes
<1>5. Cardinality(Live') <= IF pass'.pc = "await" THEN pass'.count + 1 ELSE pass'.count
  BY <1>3, <1>4 DEF Budget
<1>6. pass'.pc \in {"idle", "inspect"} => Live' = {} BY <1>2 DEF Budget
<1>7. \A i \in DOMAIN pass'.todo :
          exec'[pass'.todo[i]] = "none" \/ (pass'.pc = "await" /\ i = 1)
  <2>1. \A i \in DOMAIN pass.todo : pass.todo[i] \in Runs BY <1>4
  <2> QED BY <2>1 DEF Budget
<1>8. /\ pass'.left <= Unseen'
      /\ pass'.pc # "inspect" => pass'.count + Len(pass'.todo) <= pass'.left
      /\ Distinct(pass'.todo)
  BY <1>1 DEF Budget
<1> QED BY <1>5, <1>6, <1>7, <1>8 DEF Budget

\* Creating runs and asking for drains leave executions and leases alone.
LEMMA BatchStepJoins ==
    ASSUME GatesTyped, BatchInv,
           BatchStep \/ (\E r \in Runs \ Batch : CreateResponse(r)) \/ BackgroundDrain
    PROVE  BatchInv'
<1> USE DEF GatesTyped, StoreTyped
<1>1. Batch \subseteq Runs BY BatchSets
<1>2. /\ UNCHANGED <<lease, started, exec, pass, crashes>>
      /\ \/ queue' = queue
         \/ \E d \in Drains : queue' = Append(queue, d) /\ d.kind # "recovery"
  <2>1. /\ Drain("batch", None) \in Drains /\ Drain("background", None) \in Drains
        /\ \A r \in Runs : Drain("create", r) \in Drains
        /\ \A k, r : Drain(k, r).kind = k
    BY DEF Drain, Drains
  <2>2. CASE BatchStep
    BY <2>1, <2>2 DEF BatchStep, ResolveDispatch, WriteBatch, CreateChild
  <2>3. CASE \E r \in Runs \ Batch : CreateResponse(r) BY <2>1, <2>3 DEF CreateResponse
  <2>4. CASE BackgroundDrain BY <2>1, <2>4 DEF BackgroundDrain
  <2> QED BY <2>2, <2>3, <2>4
<1>3. \A r \in Runs : status'[r] = status[r] \/ (status[r] = "absent" /\ status'[r] = "planned")
  <2>1. CASE BatchStep BY <1>1, <2>1 DEF BatchStep, ResolveDispatch, WriteBatch, CreateChild, NextToCreate
  <2>2. ASSUME NEW r \in Runs \ Batch, CreateResponse(r)
        PROVE  \A q \in Runs : status'[q] = status[q] \/ (status[q] = "absent" /\ status'[q] = "planned")
    BY <2>2 DEF CreateResponse, NextToCreate
  <2>3. CASE BackgroundDrain BY <2>3 DEF BackgroundDrain
  <2> QED BY <2>1, <2>2, <2>3
<1>4. Begun' = Begun /\ Coming' = Coming /\ Claiming' = Claiming
  BY <1>2 DEF Begun, Coming, Claiming
<1>5. Leases' = Leases BY <1>1, <1>2, <1>3 DEF Leases, HoldsLease, Terminal
<1>6. NoneJoins BY <1>2, <1>4, <1>5 DEF NoneJoins, BatchInv, LimitRoom
<1>7. \A i \in DOMAIN queue' : queue'[i].kind = "recovery" => crashes > 0
  <2>1. \A i \in DOMAIN queue : queue[i].kind = "recovery" => crashes > 0
    BY DEF BatchInv, Budget
  <2>2. CASE queue' = queue BY <2>1, <2>2
  <2>3. ASSUME NEW d \in Drains, queue' = Append(queue, d), d.kind # "recovery"
        PROVE  \A i \in DOMAIN queue' : queue'[i].kind = "recovery" => crashes > 0
    <3>1. DOMAIN queue = 1..Len(queue) /\ Len(queue) \in Nat OBVIOUS
    <3>2. /\ DOMAIN queue' = 1..(Len(queue) + 1) /\ queue'[Len(queue) + 1] = d
          /\ \A i \in 1..Len(queue) : queue'[i] = queue[i]
      BY <2>3, AppendProperties
    <3>3. \A i \in DOMAIN queue' : i \in DOMAIN queue \/ i = Len(queue) + 1
      <4>1. \A n \in Nat : \A i \in 1..(n + 1) : i \in 1..n \/ i = n + 1 OBVIOUS
      <4> QED BY <3>1, <3>2, <4>1
    <3> QED BY <2>1, <2>3, <3>1, <3>2, <3>3
  <2> QED BY <1>2, <2>2, <2>3
<1>8. Budget' BY <1>2, <1>7, StillPassKeepsBudget DEF BatchInv
<1> QED BY <1>6, <1>8, NoneJoinsKeepsRoom DEF BatchInv

\* A run under way takes its lease, starts or ends: it stays in the part it counts in.
LEMMA ExecStepJoins ==
    ASSUME GatesTyped, BatchInv, NEW r \in Runs, ExecStep(r)
    PROVE  BatchInv'
<1> USE DEF GatesTyped, StoreTyped
<1>1. Batch \subseteq Runs /\ Minute \in Nat BY BatchSets, GatesAssumption
<1>2. UNCHANGED <<pass, queue, crashes>> BY DEF ExecStep, AcquireLease, StartStep, EndRun
<1>3. CASE AcquireLease(r) /\ status[r] = "planned"
  <2>1. /\ exec[r] = "starting" /\ exec' = [exec EXCEPT ![r] = "leased"]
        /\ lease' = [lease EXCEPT ![r] = "held"] /\ UNCHANGED <<status, started>>
    BY <1>3 DEF AcquireLease
  <2>2. Begun' = Begun /\ Coming' \subseteq Coming BY <1>1, <2>1 DEF Begun, Coming
  <2>3. Claiming' \subseteq Claiming /\ Leases' \subseteq Leases \cup Claiming
    BY <1>1, <2>1 DEF Leases, Claiming, HoldsLease
  <2>4. crashes = 0 => \A q \in Runs : lease'[q] # "none" => exec'[q] \in {"leased", "working"}
    BY <2>1 DEF BatchInv, LimitRoom
  <2>5. NoneJoins BY <1>2, <2>2, <2>3, <2>4 DEF NoneJoins
  <2>6. \A q \in Runs : exec[q] = "none" => exec'[q] = "none" BY <2>1
  <2> QED BY <1>2, <2>5, <2>6, NoneJoinsKeepsRoom, StillPassKeepsBudget DEF BatchInv, Budget
<1>4. CASE AcquireLease(r) /\ status[r] # "planned"
  <2>1. /\ exec[r] = "starting" /\ exec' = [exec EXCEPT ![r] = "none"]
        /\ UNCHANGED <<status, lease, started>>
    BY <1>4 DEF AcquireLease
  <2>2. /\ Begun' = Begun /\ Leases' = Leases
        /\ Coming' \subseteq Coming /\ Claiming' \subseteq Claiming
    BY <1>1, <2>1 DEF Begun, Leases, Coming, Claiming, HoldsLease
  <2>3. crashes = 0 => \A q \in Runs : lease'[q] # "none" => exec'[q] \in {"leased", "working"}
    BY <2>1 DEF BatchInv, LimitRoom
  <2>4. NoneJoins BY <1>2, <2>2, <2>3 DEF NoneJoins
  <2>5. \A q \in Runs : exec[q] = "none" => exec'[q] = "none" BY <2>1
  <2> QED BY <1>2, <2>4, <2>5, NoneJoinsKeepsRoom, StillPassKeepsBudget DEF BatchInv, Budget
<1>5. CASE StartStep(r)
  <2>1. /\ exec[r] = "leased" /\ exec' = [exec EXCEPT ![r] = "working"]
        /\ status[r] = "planned" /\ status' = [status EXCEPT ![r] = "running"]
        /\ started' = [started EXCEPT ![r] = 0] /\ UNCHANGED lease
    BY <1>5 DEF StartStep
  <2>2. Begun' \subseteq Begun \cup Coming /\ Coming' \subseteq Coming
    BY <1>1, <2>1 DEF Begun, Coming
  <2>3. Leases' = Leases BY <1>1, <2>1 DEF Leases, HoldsLease, Terminal
  <2>4. Claiming' = Claiming BY <1>1, <2>1 DEF Claiming
  <2>5. crashes = 0 => \A q \in Runs : lease'[q] # "none" => exec'[q] \in {"leased", "working"}
    BY <2>1 DEF BatchInv, LimitRoom
  <2>6. NoneJoins BY <1>2, <2>2, <2>3, <2>4, <2>5 DEF NoneJoins
  <2>7. \A q \in Runs : exec[q] = "none" => exec'[q] = "none" BY <2>1
  <2> QED BY <1>2, <2>6, <2>7, NoneJoinsKeepsRoom, StillPassKeepsBudget DEF BatchInv, Budget
<1>6. CASE EndRun(r)
  <2>1. /\ exec' = [exec EXCEPT ![r] = "none"] /\ lease' = [lease EXCEPT ![r] = "none"]
        /\ UNCHANGED started /\ \A q \in Runs : q # r => status'[q] = status[q]
    BY <1>6 DEF EndRun
  <2>2. /\ Begun' = Begun /\ Leases' \subseteq Leases
        /\ Coming' \subseteq Coming /\ Claiming' \subseteq Claiming
    BY <1>1, <2>1 DEF Begun, Leases, Coming, Claiming, HoldsLease
  <2>3. crashes = 0 => \A q \in Runs : lease'[q] # "none" => exec'[q] \in {"leased", "working"}
    BY <2>1 DEF BatchInv, LimitRoom
  <2>4. NoneJoins BY <1>2, <2>2, <2>3 DEF NoneJoins
  <2>5. \A q \in Runs : exec[q] = "none" => exec'[q] = "none" BY <2>1
  <2> QED BY <1>2, <2>4, <2>5, NoneJoinsKeepsRoom, StillPassKeepsBudget DEF BatchInv, Budget
<1> QED BY <1>3, <1>4, <1>5, <1>6 DEF ExecStep

\* Cancelling, the passing of time and a crash only take children out of the counts; a lease
\* lapses only after a crash, when its execution is gone.
LEMMA OtherStepJoins ==
    ASSUME GatesTyped, BatchInv,
           \/ \E r \in Runs : CancelRun(r) \/ LeaseLapses(r)
           \/ Crash \/ Tick \/ UNCHANGED vars
    PROVE  BatchInv'
<1> USE DEF GatesTyped, StoreTyped
<1>1. Batch \subseteq Runs BY BatchSets
<1>2. ASSUME UNCHANGED <<pass, queue, crashes, exec>>, Begun' \subseteq Begun,
             Leases' \subseteq Leases,
             crashes = 0 => \A q \in Runs : lease'[q] # "none" => lease[q] # "none"
      PROVE  BatchInv'
  <2>1. Coming' = Coming /\ Claiming' = Claiming BY <1>2 DEF Coming, Claiming
  <2>2. NoneJoins BY <1>2, <2>1 DEF NoneJoins, BatchInv, LimitRoom
  <2> QED BY <1>2, <2>2, NoneJoinsKeepsRoom, StillPassKeepsBudget DEF BatchInv, Budget
<1>3. ASSUME NEW r \in Runs, CancelRun(r) PROVE BatchInv'
  <2>1. /\ UNCHANGED <<pass, queue, crashes, exec, lease, started>>
        /\ status' = [status EXCEPT ![r] = "cancelled"]
    BY <1>3 DEF CancelRun
  <2>2. Leases' \subseteq Leases BY <1>1, <2>1 DEF Leases, HoldsLease, Terminal
  <2>3. Begun' = Begun BY <2>1 DEF Begun
  <2> QED BY <1>2, <2>1, <2>2, <2>3
<1>4. ASSUME NEW r \in Runs, LeaseLapses(r) PROVE BatchInv'
  <2>1. /\ UNCHANGED <<pass, queue, crashes, exec, status, started>>
        /\ lease[r] = "held" /\ lease' = [lease EXCEPT ![r] = "lapsed"]
    BY <1>4 DEF LeaseLapses
  <2>2. Leases' \subseteq Leases BY <1>1, <2>1 DEF Leases, HoldsLease
  <2>3. Begun' = Begun BY <2>1 DEF Begun
  <2> QED BY <1>2, <2>1, <2>2, <2>3
<1>5. CASE Tick
  <2>1. Hour \in Nat /\ Minute \in Nat /\ None \notin Int BY GatesAssumption
  <2>2. \A q \in Batch : started'[q] = Older(started[q]) /\ started[q] \in Ages
    BY <1>1, <1>5 DEF Tick
  <2>3. \A age \in Ages : Older(age) >= age /\ Older(age) \in Int /\ age \in Int
    BY <2>1 DEF Older, Ages, Old
  <2>4. Begun' \subseteq Begun BY <2>1, <2>2, <2>3 DEF Begun
  <2>5. UNCHANGED <<status, lease, pass, exec, queue, crashes>> BY <1>5 DEF Tick
  <2>6. Leases' = Leases BY <2>5 DEF Leases, HoldsLease
  <2> QED BY <1>2, <2>4, <2>5, <2>6
<1>6. CASE UNCHANGED vars
  <2>1. Begun' = Begun /\ Leases' = Leases BY <1>6 DEF vars, Begun, Leases, HoldsLease
  <2> QED BY <1>2, <1>6, <2>1 DEF vars
<1>7. CASE Crash
  <2>1. /\ crashes' = crashes + 1 /\ pass' = NoPass /\ UNCHANGED <<status, lease, started>>
        /\ queue' = <<Drain("recovery", None)>>
        /\ \A r \in Runs : exec'[r] = "none"
    BY <1>7 DEF Crash
  <2>2. crashes' \in Nat /\ crashes' > 0 BY <2>1, GatesAssumption
  <2>3. Begun' = Begun /\ Leases' = Leases /\ Coming' = {} /\ Claiming' = {} /\ Live' = {}
    BY <1>1, <2>1 DEF Begun, Leases, Coming, Claiming, Live, HoldsLease
  <2>4. pass'.pc = "idle" /\ pass'.left = 0 /\ pass'.count = 0 /\ pass'.todo = <<>>
    BY <2>1 DEF NoPass
  <2>5. NoneJoins BY <2>1, <2>2, <2>3, <2>4 DEF NoneJoins
  <2>6. Unseen' \in Nat
    <3>1. Unseen' = UnseenAt(crashes') BY DEF Unseen, UnseenAt
    <3> QED BY <2>2, <3>1, UnseenFacts
  <2>7. Cardinality(Live') = 0 BY <2>3, FS_EmptySet
  <2>8. Budget' BY <2>2, <2>3, <2>4, <2>6, <2>7 DEF Budget, Distinct
  <2> QED BY <2>5, <2>8, NoneJoinsKeepsRoom DEF BatchInv
<1> QED BY <1>3, <1>4, <1>5, <1>6, <1>7

\* Past a candidate the pass has counted what it has under way, within its budget.
LEMMA AdvanceKeepsBudget ==
    ASSUME GatesTyped, Budget, pass.pc \in {"claim", "batch", "rate", "tenant", "await"},
           NEW executed \in {0, 1}, Advance(executed), UNCHANGED <<queue, crashes>>,
           Cardinality(Live') <= pass.count + executed,
           \A i \in DOMAIN pass.todo : i # 1 => exec'[pass.todo[i]] = "none"
    PROVE  Budget'
<1> DEFINE rest == Tail(pass.todo)
<1>1. /\ pass \in Passes /\ pass.todo \in Seq(Runs) /\ pass.todo # <<>>
      /\ pass.count \in Nat /\ pass.left \in Nat
  BY DEF GatesTyped, SoundPass, Passes
<1>2. /\ rest \in Seq(Runs) /\ Len(rest) = Len(pass.todo) - 1 /\ Len(rest) \in Nat
      /\ Len(pass.todo) \in Nat /\ DOMAIN pass.todo = 1..Len(pass.todo)
      /\ DOMAIN rest = 1..Len(rest)
      /\ \A i \in 1..Len(rest) : rest[i] = pass.todo[i + 1]
  BY <1>1, HeadTailProperties, LenProperties
<1> HIDE DEF rest
<1>3. pass' = [pass EXCEPT !.pc = IF rest # <<>> THEN "claim" ELSE "settle", !.todo = rest,
                           !.count = @ + executed]
  BY DEF Advance, rest
<1>4. /\ pass'.todo = rest /\ pass'.count = pass.count + executed /\ pass'.left = pass.left
      /\ pass'.pc \in {"claim", "settle"}
  BY <1>1, <1>3 DEF Passes
<1>5. Unseen' = Unseen BY DEF Unseen
<1>6. pass'.count + Len(pass'.todo) <= pass'.left
  <2>1. pass.count + Len(pass.todo) <= pass.left BY DEF Budget
  <2> QED BY <1>1, <1>2, <1>4, <2>1
<1>7. \A i \in DOMAIN rest : i + 1 \in DOMAIN pass.todo /\ i + 1 # 1 /\ rest[i] = pass.todo[i + 1]
  BY <1>2
<1>8. Distinct(rest)
  <2>1. ASSUME NEW i \in DOMAIN rest, NEW j \in DOMAIN rest, rest[i] = rest[j] PROVE i = j
    <3>1. i + 1 = j + 1 BY <1>7, <2>1 DEF Budget, Distinct
    <3> QED BY <1>2, <3>1
  <2> QED BY <2>1 DEF Distinct
<1>9. \A i \in DOMAIN rest : exec'[rest[i]] = "none" BY <1>7
<1>10. /\ pass'.left <= Unseen'
       /\ \A i \in DOMAIN queue' : queue'[i].kind = "recovery" => crashes' > 0
  BY <1>4, <1>5 DEF Budget
<1> QED BY <1>4, <1>6, <1>8, <1>9, <1>10 DEF Budget

\* Where the pass goes on to its next gate nothing else changes.
LEMMA GotoKeepsBudget ==
    ASSUME GatesTyped, Budget, pass.pc \in {"claim", "batch", "rate"},
           NEW pc \in {"batch", "rate", "tenant"}, Goto(pc), UNCHANGED <<exec, queue, crashes>>
    PROVE  Budget' /\ pass'.pc = pc /\ pass'.todo = pass.todo /\ pass'.count = pass.count
<1>1. /\ pass'.todo = pass.todo /\ pass'.count = pass.count /\ pass'.left = pass.left
      /\ pass'.pc = pc
  BY DEF GatesTyped, SoundPass, Passes, Goto
<1>2. Unseen' = Unseen /\ Live' = Live BY DEF Unseen, Live
<1> QED BY <1>1, <1>2 DEF Budget

\* The candidate the pass is at has no execution yet.
LEMMA CandidateAtRest ==
    ASSUME GatesTyped, Budget, pass.pc \in {"claim", "batch", "rate", "tenant"}
    PROVE  /\ Head(pass.todo) \in Runs /\ exec[Head(pass.todo)] = "none"
           /\ pass.todo \in Seq(Runs) /\ pass.todo # <<>>
           /\ \A i \in DOMAIN pass.todo : exec[pass.todo[i]] = "none"
           /\ \A i \in DOMAIN pass.todo : i # 1 => pass.todo[i] # Head(pass.todo)
           /\ pass.count \in Nat /\ Cardinality(Live) <= pass.count
           /\ pass.count + 1 <= pass.left /\ pass.left \in Nat
<1>1. /\ pass.todo \in Seq(Runs) /\ pass.todo # <<>> /\ pass.count \in Nat /\ pass.left \in Nat
  BY DEF GatesTyped, SoundPass, Passes
<1>2. /\ Head(pass.todo) \in Runs /\ Head(pass.todo) = pass.todo[1] /\ Len(pass.todo) \in Nat
      /\ Len(pass.todo) >= 1 /\ 1 \in DOMAIN pass.todo
  BY <1>1, EmptySeq, HeadTailProperties, LenProperties
<1>3. \A i \in DOMAIN pass.todo : exec[pass.todo[i]] = "none" BY DEF Budget
<1>4. \A i \in DOMAIN pass.todo : i # 1 => pass.todo[i] # pass.todo[1]
  BY <1>2 DEF Budget, Distinct
<1>5. pass.count + 1 <= pass.left
  <2>1. pass.count + Len(pass.todo) <= pass.left BY DEF Budget
  <2> QED BY <1>1, <1>2, <2>1
<1> QED BY <1>1, <1>2, <1>3, <1>4, <1>5 DEF Budget

\* A drain begins, plans, claims, waits and settles without a child coming to count.
LEMMA DrainJoins ==
    ASSUME GatesTyped, BatchInv,
           BeginDrain \/ InspectCandidates \/ SelectLocalClaim \/ AwaitExecution \/ SettleDeferred
    PROVE  BatchInv'
<1> USE DEF GatesTyped, StoreTyped
<1>0. Batch \subseteq Runs /\ pass \in Passes /\ Budget BY BatchSets DEF SoundPass, BatchInv
<1>1. /\ UNCHANGED <<exec, started, crashes>>
      /\ \A r \in Runs : lease'[r] # "none" => lease'[r] = lease[r]
      /\ \A r \in Runs : status'[r] = status[r] \/ status[r] \notin Terminal
    BY DEF BeginDrain, InspectCandidates, SelectLocalClaim, AwaitExecution, SettleDeferred
<1>2. /\ Begun' = Begun /\ Coming' = Coming /\ Claiming' = Claiming /\ Leases' \subseteq Leases
      /\ Live' = Live /\ Unseen' = Unseen
  BY <1>0, <1>1 DEF Begun, Coming, Claiming, Leases, Live, HoldsLease, Unseen
<1>3. crashes = 0 => \A r \in Runs : lease'[r] # "none" => exec'[r] \in {"leased", "working"}
  BY <1>1 DEF BatchInv, LimitRoom
<1>4. ASSUME pass'.pc \notin {"rate", "tenant"} PROVE RateRoom' /\ LimitRoom'
  <2>1. NoneJoins BY <1>1, <1>2, <1>3, <1>4 DEF NoneJoins
  <2> QED BY <2>1, NoneJoinsKeepsRoom DEF BatchInv
<1>5. ASSUME Live = {}, pass'.todo = <<>>, pass'.pc \in {"idle", "inspect"}, pass'.left \in Nat,
             pass'.count \in Nat, pass'.left <= Unseen,
             pass'.pc = "idle" => pass'.count = 0,
             \A i \in DOMAIN queue' : queue'[i].kind = "recovery" => crashes > 0
      PROVE  BatchInv'
  <2>1. Cardinality(Live') = 0 BY <1>2, <1>5, FS_EmptySet
  <2>2. Len(pass'.todo) = 0 BY <1>5, EmptySeq
  <2>3. Budget' BY <1>1, <1>2, <1>5, <2>1, <2>2 DEF Budget, Distinct
  <2> QED BY <1>4, <1>5, <2>3 DEF BatchInv
<1>6. CASE BeginDrain
  <2>1. /\ pass.pc = "idle" /\ queue # <<>> /\ queue' = Tail(queue) /\ queue \in Seq(Drains)
        /\ pass' = [NoPass EXCEPT !.pc = "inspect", !.drain = Head(queue),
                                  !.left = MaxRuns(Head(queue))]
    BY <1>6 DEF BeginDrain
  <2>2. /\ Head(queue) \in Drains /\ Head(queue) = queue[1] /\ Len(queue) \in Nat /\ Len(queue) >= 1
        /\ DOMAIN queue = 1..Len(queue)
        /\ Len(Tail(queue)) = Len(queue) - 1 /\ DOMAIN Tail(queue) = 1..Len(Tail(queue))
        /\ \A i \in 1..Len(Tail(queue)) : Tail(queue)[i] = queue[i + 1]
    BY <2>1, EmptySeq, HeadTailProperties, LenProperties
  <2>3. Head(queue).kind = "recovery" => crashes > 0
    <3>1. 1 \in DOMAIN queue BY <2>2
    <3> QED BY <1>0, <2>2, <3>1 DEF Budget
  <2>4. MaxRuns(Head(queue)) \in Nat /\ MaxRuns(Head(queue)) <= Unseen
    <3>1. Unseen = UnseenAt(crashes) /\ crashes \in Nat BY GatesAssumption DEF Unseen, UnseenAt
    <3> QED BY <2>2, <2>3, <3>1, UnseenFacts
  <2>5. \A i \in DOMAIN queue' : queue'[i].kind = "recovery" => crashes > 0
    <3>1. \A i \in DOMAIN Tail(queue) : i + 1 \in DOMAIN queue BY <2>2
    <3> QED BY <1>0, <2>1, <2>2, <3>1 DEF Budget
  <2>6. /\ pass'.pc = "inspect" /\ pass'.todo = <<>> /\ pass'.count = 0
        /\ pass'.left = MaxRuns(Head(queue))
    BY <2>1 DEF NoPass
  <2>7. Live = {} BY <1>0, <2>1 DEF Budget
  <2> QED BY <1>5, <2>4, <2>5, <2>6, <2>7
<1>7. CASE InspectCandidates
  <2> DEFINE plan == ActionablePlan(ByCreation({r \in Runs : RunnableRun(r)}),
                                    ByCreation({r \in Runs : StrandedRun(r)}))
  <2>1. /\ pass.pc = "inspect" /\ queue' = queue
        /\ pass' = IF plan = <<>> THEN NoPass
                   ELSE [pass EXCEPT !.pc = "claim", !.todo = plan, !.count = 0]
    BY <1>7 DEF InspectCandidates
  <2>2. pass.left \in Nat /\ Live = {} /\ pass.left <= Unseen
        /\ \A i \in DOMAIN queue : queue[i].kind = "recovery" => crashes > 0
    BY <1>0, <2>1 DEF Passes, Budget
  <2>3. plan \in Seq(Runs) /\ Len(plan) <= pass.left /\ Distinct(plan)
    BY <2>2, PlanFits, PlanWithin
  <2> HIDE DEF plan
  <2>4. CASE plan = <<>>
    <3>1. Unseen \in Nat
      <4>1. Unseen = UnseenAt(crashes) /\ crashes \in Nat BY GatesAssumption DEF Unseen, UnseenAt
      <4> QED BY <4>1, UnseenFacts
    <3>2. pass'.pc = "idle" /\ pass'.todo = <<>> /\ pass'.left = 0 /\ pass'.count = 0
      BY <2>1, <2>4 DEF NoPass
    <3> QED BY <1>5, <2>1, <2>2, <3>1, <3>2
  <2>5. CASE plan # <<>>
    <3>1. /\ pass'.pc = "claim" /\ pass'.todo = plan /\ pass'.count = 0
          /\ pass'.left = pass.left
      BY <1>0, <2>1, <2>5 DEF Passes
    <3>2. Cardinality(Live') = 0 BY <1>2, <2>2, FS_EmptySet
    <3>3. \A i \in DOMAIN plan : plan[i] \in Runs BY <2>3
    <3>4. \A r \in Runs : exec'[r] = "none" BY <1>1, <2>2 DEF Live
    <3>5. pass'.count + Len(pass'.todo) <= pass'.left
      <4>1. Len(plan) \in Nat BY <2>3
      <4> QED BY <2>3, <3>1, <4>1
    <3>6. Budget' BY <1>1, <1>2, <2>1, <2>2, <2>3, <3>1, <3>2, <3>3, <3>4, <3>5 DEF Budget
    <3> QED BY <1>4, <3>1, <3>6 DEF BatchInv
  <2> QED BY <2>4, <2>5
<1>8. CASE SelectLocalClaim
  <2>1. pass.pc = "claim" /\ queue' = queue /\ (Goto("batch") \/ Advance(0))
    BY <1>8 DEF SelectLocalClaim
  <2>2. /\ pass.count \in Nat /\ Cardinality(Live) <= pass.count
        /\ \A i \in DOMAIN pass.todo : exec[pass.todo[i]] = "none"
    BY <1>0, <2>1, CandidateAtRest
  <2>3. CASE Goto("batch")
    <3>1. Budget' /\ pass'.pc = "batch" BY <1>0, <1>1, <2>1, <2>3, GotoKeepsBudget
    <3> QED BY <1>4, <3>1 DEF BatchInv
  <2>4. CASE Advance(0)
    <3>1. Cardinality(Live') <= pass.count + 0 BY <1>2, <2>2
    <3>2. Budget' BY <1>0, <1>1, <2>1, <2>2, <2>4, <3>1, AdvanceKeepsBudget
    <3>3. pass'.pc \in {"claim", "settle"} BY <1>0, <2>4 DEF Advance, Passes
    <3> QED BY <1>4, <3>2, <3>3 DEF BatchInv
  <2> QED BY <2>1, <2>3, <2>4
<1>9. CASE AwaitExecution
  <2>1. pass.pc = "await" /\ queue' = queue /\ Advance(1) BY <1>9 DEF AwaitExecution
  <2>2. Cardinality(Live') <= pass.count + 1 BY <1>0, <1>2, <2>1 DEF Budget
  <2>3. \A i \in DOMAIN pass.todo : i # 1 => exec'[pass.todo[i]] = "none"
    BY <1>0, <1>1 DEF Budget
  <2>4. Budget' BY <1>0, <1>1, <2>1, <2>2, <2>3, AdvanceKeepsBudget
  <2>5. pass'.pc \in {"claim", "settle"} BY <1>0, <2>1 DEF Advance, Passes
  <2> QED BY <1>4, <2>4, <2>5 DEF BatchInv
<1>10. CASE SettleDeferred
  <2>1. /\ pass.pc = "settle" /\ queue' = queue /\ \A r \in Runs : exec[r] = "none"
        /\ pass' = IF pass.count > 0 /\ pass.count < pass.left
                   THEN [pass EXCEPT !.pc = "inspect", !.left = @ - pass.count]
                   ELSE NoPass
    BY <1>10 DEF SettleDeferred
  <2>2. /\ Live = {} /\ pass.left \in Nat /\ pass.count \in Nat /\ pass.left <= Unseen
        /\ pass.todo = <<>>
        /\ \A i \in DOMAIN queue : queue[i].kind = "recovery" => crashes > 0
    BY <1>0, <2>1 DEF Live, Passes, Budget, SoundPass
  <2>3. Unseen \in Nat
    <3>1. Unseen = UnseenAt(crashes) /\ crashes \in Nat BY GatesAssumption DEF Unseen, UnseenAt
    <3> QED BY <3>1, UnseenFacts
  <2>4. CASE pass.count > 0 /\ pass.count < pass.left
    <3>1. /\ pass'.pc = "inspect" /\ pass'.left = pass.left - pass.count
          /\ pass'.count = pass.count /\ pass'.todo = <<>>
      BY <1>0, <2>1, <2>2, <2>4 DEF Passes
    <3>2. pass'.left \in Nat /\ pass'.left <= Unseen BY <2>2, <2>3, <2>4, <3>1
    <3> QED BY <1>5, <2>1, <2>2, <3>1, <3>2
  <2>5. CASE ~(pass.count > 0 /\ pass.count < pass.left)
    <3>1. pass'.pc = "idle" /\ pass'.todo = <<>> /\ pass'.left = 0 /\ pass'.count = 0
      BY <2>1, <2>5 DEF NoPass
    <3> QED BY <1>5, <2>1, <2>2, <2>3, <3>1
  <2> QED BY <2>4, <2>5
<1> QED BY <1>6, <1>7, <1>8, <1>9, <1>10

\* What a gate saw below its limit stays below it together with what it could not see: the
\* executions of this pass that have not come so far, which the pass has counted.
LEMMA BatchGatesJoin ==
    ASSUME GatesTyped, BatchInv, BatchConcurrencyGate \/ BatchRateGate
    PROVE  BatchInv'
<1> USE DEF GatesTyped, StoreTyped
<1> DEFINE h == Head(pass.todo)
           B == Begun \cup Coming
           L == Leases \cup Claiming
<1>1. /\ pass.pc \in {"batch", "rate"} /\ pass \in Passes /\ Budget
      /\ UNCHANGED <<status, lease, started, exec, queue, crashes>>
  BY DEF BatchConcurrencyGate, BatchRateGate, SoundPass, BatchInv
<1>2. /\ Begun' = Begun /\ Leases' = Leases /\ Coming' = Coming /\ Claiming' = Claiming
      /\ Live' = Live /\ Unseen' = Unseen
  BY <1>1 DEF Begun, Leases, Coming, Claiming, Live, HoldsLease, Unseen
<1>3. /\ pass.count \in Nat /\ Cardinality(Live) <= pass.count
      /\ \A i \in DOMAIN pass.todo : exec[pass.todo[i]] = "none"
  BY <1>1, CandidateAtRest
<1>4. crashes' = 0 => \A r \in Runs : lease'[r] # "none" => exec'[r] \in {"leased", "working"}
  BY <1>1 DEF BatchInv, LimitRoom
<1>5. /\ Cardinality(B) <= BatchRate - 1 + Unseen
      /\ Cardinality(L) <= BatchLimit - 1 + Unseen
  BY DEF BatchInv, RateRoom, LimitRoom
<1>6. B' = B /\ L' = L BY <1>2
<1>7. /\ Cardinality(Coming) \in Nat /\ Cardinality(Coming) <= pass.count
      /\ Cardinality(Claiming) \in Nat /\ Cardinality(Claiming) <= pass.count
  <2>1. Live \in SUBSET Runs /\ Coming \in SUBSET Live /\ Claiming \in SUBSET Live
    BY BatchSets DEF Live, Coming, Claiming
  <2>2. /\ Cardinality(Coming) \in Nat /\ Cardinality(Coming) <= Cardinality(Live)
        /\ Cardinality(Claiming) \in Nat /\ Cardinality(Claiming) <= Cardinality(Live)
        /\ Cardinality(Live) \in Nat
    BY <2>1, NoMore
  <2> QED BY <1>3, <2>2
<1>8. BatchRate \in Nat /\ BatchLimit \in Nat BY BatchSets
<1>9. CASE Advance(0)
  <2>1. pass'.pc \in {"claim", "settle"} BY <1>1, <1>9 DEF Advance, Passes
  <2>2. NoneJoins BY <1>1, <1>2, <1>4, <2>1 DEF NoneJoins
  <2>3. Cardinality(Live') <= pass.count + 0 BY <1>2, <1>3
  <2>4. Budget' BY <1>1, <1>3, <1>9, <2>3, AdvanceKeepsBudget
  <2> QED BY <2>2, <2>4, NoneJoinsKeepsRoom DEF BatchInv
<1>10. CASE BatchConcurrencyGate /\ BelowBatchLimit(h) /\ Goto("rate")
  <2>1. Budget' /\ pass'.pc = "rate" /\ pass'.todo = pass.todo /\ pass'.count = pass.count
    BY <1>1, <1>10, GotoKeepsBudget DEF BatchConcurrencyGate
  <2>2. ASSUME h \in Batch PROVE Cardinality(L \ {h}) <= BatchLimit - 1 + pass.count
    <3>1. {q \in Batch \ {h} : HoldsLease(q)} = Leases \ {h} BY DEF Leases
    <3> HIDE DEF h
    <3>2. Cardinality(Leases \ {h}) < BatchLimit BY <1>10, <2>2, <3>1 DEF BelowBatchLimit
    <3>3. Leases \ {h} \in SUBSET Runs /\ Claiming \in SUBSET Runs BY BatchSets
    <3>4. /\ Cardinality((Leases \ {h}) \cup Claiming) \in Nat /\ Cardinality(Leases \ {h}) \in Nat
          /\ Cardinality((Leases \ {h}) \cup Claiming)
               <= Cardinality(Leases \ {h}) + Cardinality(Claiming)
      BY <3>3, Together
    <3>5. L \ {h} \in SUBSET ((Leases \ {h}) \cup Claiming)
          /\ (Leases \ {h}) \cup Claiming \in SUBSET Runs
      BY <3>3
    <3>6. Cardinality(L \ {h}) \in Nat
          /\ Cardinality(L \ {h}) <= Cardinality((Leases \ {h}) \cup Claiming)
      <4> HIDE DEF L
      <4> QED BY <3>5, NoMore
    <3> QED BY <1>3, <1>7, <1>8, <3>2, <3>4, <3>6
  <2>3. RateRoom' BY <1>2, <1>5, <2>1 DEF RateRoom, Candidate
  <2>4. LimitRoom' BY <1>2, <1>4, <1>5, <2>1, <2>2 DEF LimitRoom, Candidate
  <2> QED BY <2>1, <2>3, <2>4 DEF BatchInv
<1>11. CASE BatchRateGate /\ BelowBatchRate(h) /\ Goto("tenant")
  <2>1. Budget' /\ pass'.pc = "tenant" /\ pass'.todo = pass.todo /\ pass'.count = pass.count
    BY <1>1, <1>11, GotoKeepsBudget DEF BatchRateGate
  <2>2. ASSUME h \in Batch PROVE Cardinality(B) <= BatchRate - 1 + pass.count
    <3>1. Cardinality(Begun) < BatchRate BY <1>11, <2>2 DEF BelowBatchRate, Begun
    <3>2. /\ Cardinality(B) \in Nat /\ Cardinality(Begun) \in Nat
          /\ Cardinality(B) <= Cardinality(Begun) + Cardinality(Coming)
      BY BatchSets, Together
    <3> QED BY <1>3, <1>7, <1>8, <3>1, <3>2
  <2>3. h \in Batch => Cardinality(L \ {h}) <= BatchLimit - 1 + pass.count
    BY <1>11 DEF BatchRateGate, BatchInv, LimitRoom, Candidate
  <2>4. RateRoom' BY <1>2, <1>5, <2>1, <2>2 DEF RateRoom, Candidate
  <2>5. LimitRoom' BY <1>2, <1>4, <1>5, <2>1, <2>3 DEF LimitRoom, Candidate
  <2> QED BY <2>1, <2>4, <2>5 DEF BatchInv
<1> QED BY <1>9, <1>10, <1>11 DEF BatchConcurrencyGate, BatchRateGate

\* An admitted child is one more than the pass had counted, and the budget has room for it.
LEMMA TenantGateJoins ==
    ASSUME GatesTyped, BatchInv, TenantGate
    PROVE  BatchInv'
<1> USE DEF GatesTyped, StoreTyped
<1> DEFINE r == Head(pass.todo)
           B == Begun \cup Coming
           L == Leases \cup Claiming
<1>1. /\ pass.pc = "tenant" /\ pass \in Passes /\ Budget
      /\ UNCHANGED <<status, lease, started, queue, crashes>>
      /\ \/ exec' = exec /\ Advance(0)
         \/ exec' = [exec EXCEPT ![r] = "starting"] /\ (Advance(1) \/ Goto("await"))
  BY DEF TenantGate, SoundPass, BatchInv
<1>2. /\ r \in Runs /\ exec[r] = "none" /\ pass.todo \in Seq(Runs) /\ pass.todo # <<>>
      /\ \A i \in DOMAIN pass.todo : exec[pass.todo[i]] = "none" /\ pass.todo[i] \in Runs
      /\ \A i \in DOMAIN pass.todo : i # 1 => pass.todo[i] # r
      /\ pass.count \in Nat /\ Cardinality(Live) <= pass.count
      /\ pass.count + 1 <= pass.left /\ pass.left \in Nat /\ pass.left <= Unseen
  BY <1>1, CandidateAtRest DEF Budget
<1>3. Begun' = Begun /\ Leases' = Leases /\ Unseen' = Unseen
  BY <1>1 DEF Begun, Leases, HoldsLease, Unseen
<1>4. Unseen \in Nat
  <2>1. Unseen = UnseenAt(crashes) /\ crashes \in Nat BY GatesAssumption DEF Unseen, UnseenAt
  <2> QED BY <2>1, UnseenFacts
<1> HIDE DEF r
<1>5. CASE exec' = exec /\ Advance(0)
  <2>1. pass'.pc \in {"claim", "settle"} BY <1>1, <1>5 DEF Advance, Passes
  <2>2. Coming' = Coming /\ Claiming' = Claiming /\ Live' = Live
    BY <1>5 DEF Coming, Claiming, Live
  <2>3. NoneJoins BY <1>1, <1>3, <1>5, <2>1, <2>2 DEF NoneJoins, BatchInv, LimitRoom
  <2>4. Cardinality(Live') <= pass.count + 0 BY <1>2, <2>2
  <2>5. Budget' BY <1>1, <1>2, <1>5, <2>4, AdvanceKeepsBudget
  <2> QED BY <2>3, <2>5, NoneJoinsKeepsRoom DEF BatchInv
<1>6. CASE exec' = [exec EXCEPT ![r] = "starting"] /\ (Advance(1) \/ Goto("await"))
  <2>1. \A q \in Runs : exec'[q] = IF q = r THEN "starting" ELSE exec[q] BY <1>2, <1>6
  <2>2. Cardinality(Live') <= pass.count + 1
    <3>1. Live \in SUBSET Runs /\ Live' \in SUBSET Runs /\ Live' \subseteq Live \cup {r}
      BY <1>2, <2>1 DEF Live
    <3>2. Cardinality(Live) \in Nat BY BatchSets
    <3>3. Cardinality(Live) < pass.count + 1 /\ pass.count + 1 \in Nat BY <1>2, <3>2
    <3> QED BY <1>2, <3>1, <3>3, OneMore
  <2>3. \A i \in DOMAIN pass.todo : i # 1 => exec'[pass.todo[i]] = "none" BY <1>2, <2>1
  <2>4. Budget' /\ pass'.pc \in {"claim", "settle", "await"}
    <3>1. CASE Advance(1)
      <4>1. pass'.pc \in {"claim", "settle"} BY <1>1, <3>1 DEF Advance, Passes
      <4> QED BY <1>1, <2>2, <2>3, <3>1, <4>1, AdvanceKeepsBudget
    <3>2. CASE Goto("await")
      <4>1. /\ pass'.pc = "await" /\ pass'.todo = pass.todo /\ pass'.count = pass.count
            /\ pass'.left = pass.left
        BY <1>1, <3>2 DEF Goto, Passes
      <4> QED BY <1>1, <1>3, <2>2, <2>3, <4>1 DEF Budget
    <3> QED BY <1>6, <3>1, <3>2
  <2>5. crashes' = 0 => \A q \in Runs : lease'[q] # "none" => exec'[q] \in {"leased", "working"}
    <3>1. crashes = 0 => lease[r] = "none" BY <1>2 DEF BatchInv, LimitRoom
    <3> QED BY <1>1, <2>1, <3>1 DEF BatchInv, LimitRoom
  <2>6. BatchRate \in Nat /\ BatchLimit \in Nat /\ Batch \subseteq Runs BY BatchSets
  <2>7. Cardinality(B') <= BatchRate - 1 + Unseen
    <3>1. CASE r \in Batch
      <4>1. Cardinality(B) <= BatchRate - 1 + pass.count
        BY <1>1, <3>1 DEF BatchInv, RateRoom, Candidate, r
      <4>2. B' \subseteq B \cup {r} BY <1>3, <2>1, <2>6 DEF Coming
      <4>3. B \in SUBSET Runs /\ B' \in SUBSET Runs /\ Cardinality(B) \in Nat BY BatchSets
      <4> HIDE DEF B
      <4>0. \A x, y, z \in Nat : x <= y - 1 + z => x < y + z /\ y + z \in Nat OBVIOUS
      <4>4. Cardinality(B) < BatchRate + pass.count /\ BatchRate + pass.count \in Nat
        BY <1>2, <2>6, <4>0, <4>1, <4>3
      <4>5. Cardinality(B') <= BatchRate + pass.count BY <1>2, <4>2, <4>3, <4>4, OneMore
      <4>6. Cardinality(B') \in Nat BY <4>3, NoMore
      <4> QED BY <1>2, <1>4, <2>6, <4>5, <4>6
    <3>2. CASE r \notin Batch
      <4>1. Coming' = Coming BY <2>1, <2>6, <3>2 DEF Coming
      <4> QED BY <1>3, <4>1 DEF BatchInv, RateRoom
    <3> QED BY <3>1, <3>2
  <2>8. Cardinality(L') <= BatchLimit - 1 + Unseen
    <3>1. CASE r \in Batch
      <4>1. Cardinality(L \ {r}) <= BatchLimit - 1 + pass.count
        BY <1>1, <3>1 DEF BatchInv, LimitRoom, Candidate, r
      <4>2. L' \subseteq (L \ {r}) \cup {r} BY <1>3, <2>1, <2>6 DEF Claiming
      <4>3. L \ {r} \in SUBSET Runs /\ L' \in SUBSET Runs BY BatchSets
      <4> HIDE DEF L
      <4>4. Cardinality(L \ {r}) \in Nat /\ Cardinality(L') \in Nat BY <4>3, NoMore
      <4>0. \A x, y, z \in Nat : x <= y - 1 + z => x < y + z /\ y + z \in Nat OBVIOUS
      <4>5. Cardinality(L \ {r}) < BatchLimit + pass.count /\ BatchLimit + pass.count \in Nat
        BY <1>2, <2>6, <4>0, <4>1, <4>4
      <4>6. Cardinality(L') <= BatchLimit + pass.count BY <1>2, <4>2, <4>3, <4>5, OneMore
      <4>7. pass.count + 1 <= Unseen BY <1>2, <1>4
      <4> QED BY <1>2, <1>4, <2>6, <4>4, <4>6, <4>7
    <3>2. CASE r \notin Batch
      <4>1. Claiming' = Claiming BY <2>1, <2>6, <3>2 DEF Claiming
      <4> QED BY <1>3, <4>1 DEF BatchInv, LimitRoom
    <3> QED BY <3>1, <3>2
  <2>9. RateRoom' BY <1>3, <2>4, <2>7 DEF RateRoom, Candidate
  <2>10. LimitRoom' BY <1>3, <2>4, <2>5, <2>8 DEF LimitRoom, Candidate
  <2> QED BY <2>4, <2>9, <2>10 DEF BatchInv
<1> QED BY <1>1, <1>5, <1>6

LEMMA BatchInit == ASSUME Init PROVE BatchInv
<1>1. /\ BatchRate \in Nat \ {0} /\ BatchLimit \in Nat \ {0} /\ Minute \in Nat /\ Hour \in Nat
      /\ Minute <= Hour /\ Batch \subseteq Runs
  BY GatesAssumption DEF Runs
<1>2. Begun = {} /\ Leases = {} /\ Coming = {} /\ Claiming = {} /\ Live = {}
  BY <1>1 DEF Init, Begun, Leases, Coming, Claiming, Live, HoldsLease, Old
<1>3. Cardinality({}) = 0 BY FS_EmptySet
<1>4. Unseen \in Nat
  <2>1. Unseen = UnseenAt(0) BY DEF Init, Unseen, UnseenAt
  <2> QED BY <2>1, UnseenFacts
<1>5. pass.pc = "idle" /\ pass.todo = <<>> /\ pass.left = 0 /\ pass.count = 0 /\ queue = <<>>
  BY DEF Init, NoPass
<1>6. Budget BY <1>2, <1>3, <1>4, <1>5 DEF Budget, Distinct
<1>7. \A r \in Runs : lease[r] = "none" BY DEF Init
<1>8. /\ Cardinality(Begun \cup Coming) = 0 /\ Cardinality(Leases \cup Claiming) = 0
  BY <1>2, <1>3
<1>9. RateRoom BY <1>1, <1>4, <1>5, <1>8 DEF RateRoom, Candidate
<1>10. LimitRoom BY <1>1, <1>4, <1>5, <1>7, <1>8 DEF LimitRoom, Candidate
<1> QED BY <1>6, <1>9, <1>10 DEF BatchInv

LEMMA BatchInvStep == ASSUME GatesTyped, BatchInv, [Next]_vars PROVE BatchInv'
<1>1. CASE PassStep BY <1>1, DrainJoins, BatchGatesJoin, TenantGateJoins DEF PassStep
<1>2. CASE \E r \in Runs : ExecStep(r) BY <1>2, ExecStepJoins
<1>3. CASE BatchStep \/ (\E r \in Runs \ Batch : CreateResponse(r)) \/ BackgroundDrain
  BY <1>3, BatchStepJoins
<1>4. CASE \/ \E r \in Runs : CancelRun(r) \/ LeaseLapses(r)
           \/ Crash \/ Tick \/ UNCHANGED vars
  BY <1>4, OtherStepJoins
<1> QED BY <1>1, <1>2, <1>3, <1>4 DEF Next

LEMMA BatchInvHolds == Spec => []BatchInv
<1>1. GatesTyped /\ BatchInv /\ [Next]_vars => BatchInv' BY BatchInvStep
<1>2. Init => BatchInv BY BatchInit
<1> QED BY <1>1, <1>2, GatesTypedHolds, PTL DEF Spec

\* The children that start within a minute exceed maxBrowserInteractionsPerMinute by what a
\* single pass started without waiting at most, however the drains, crashes, restarts and
\* cancellations fall.
THEOREM BatchRateAlwaysHolds == Spec => []BatchRateHolds
<1>1. ASSUME GatesTyped, BatchInv PROVE BatchRateHolds
  <2>1. Begun \in SUBSET (Begun \cup Coming) /\ Begun \cup Coming \in SUBSET Runs BY BatchSets
  <2>2. /\ Cardinality(Begun) \in Nat /\ Cardinality(Begun \cup Coming) \in Nat
        /\ Cardinality(Begun) <= Cardinality(Begun \cup Coming)
    BY <2>1, NoMore
  <2>3. Cardinality(Begun \cup Coming) <= BatchRate - 1 + Unseen BY <1>1 DEF BatchInv, RateRoom
  <2>4. BatchRate \in Nat /\ Unseen \in Nat
    <3>1. Unseen = UnseenAt(crashes) /\ crashes \in Nat
      BY <1>1, GatesAssumption DEF GatesTyped, StoreTyped, Unseen, UnseenAt
    <3> QED BY <3>1, BatchSets, UnseenFacts
  <2>5. Cardinality(Begun) <= BatchRate - 1 + Unseen BY <2>2, <2>3, <2>4
  <2> QED BY <2>5 DEF BatchRateHolds, Begun
<1>2. GatesTyped /\ BatchInv => BatchRateHolds BY <1>1
<1> QED BY <1>2, GatesTypedHolds, BatchInvHolds, PTL

\* Until the first crash no more than maxConcurrentRuns children hold a lease, because every
\* lease has its execution and one pass has started them all; after it the excess is one
\* recovery pass at most.
THEOREM BatchLeasesAlwaysBounded == Spec => []BatchLeasesBounded
<1>1. ASSUME GatesTyped, BatchInv PROVE BatchLeasesBounded
  <2>1. /\ Unseen \in Nat /\ (crashes = 0 => Unseen <= BatchLimit)
        /\ BatchLimit \in Nat /\ BatchLimit >= 1
    <3>1. Unseen = UnseenAt(crashes) /\ crashes \in Nat
      BY <1>1, GatesAssumption DEF GatesTyped, StoreTyped, Unseen, UnseenAt
    <3> QED BY <3>1, BatchSets, UnseenFacts
  <2>2. CASE crashes = 0
    <3>1. Leases \in SUBSET Live /\ Live \in SUBSET Runs
      BY <1>1, <2>2, BatchSets DEF BatchInv, LimitRoom, Leases, Live, HoldsLease
    <3>2. /\ Cardinality(Leases) \in Nat /\ Cardinality(Live) \in Nat
          /\ Cardinality(Leases) <= Cardinality(Live)
      BY <3>1, NoMore
    <3>3. Cardinality(Live) <= pass.left \/ Live = {}
      <4>1. pass \in Passes /\ pass.todo \in Seq(Runs) /\ pass.count \in Nat /\ pass.left \in Nat
        BY <1>1 DEF GatesTyped, SoundPass, Passes
      <4>2. CASE pass.pc = "await"
        <5>1. pass.todo # <<>> BY <1>1, <4>2 DEF GatesTyped, SoundPass
        <5>2. Len(pass.todo) \in Nat /\ Len(pass.todo) >= 1 BY <4>1, <5>1, EmptySeq
        <5>3. pass.count + Len(pass.todo) <= pass.left /\ Cardinality(Live) <= pass.count + 1
          BY <1>1, <4>2 DEF BatchInv, Budget
        <5> QED BY <3>2, <4>1, <5>2, <5>3
      <4>3. CASE pass.pc \notin {"await", "idle", "inspect"}
        <5>1. Len(pass.todo) \in Nat BY <4>1
        <5>2. pass.count + Len(pass.todo) <= pass.left /\ Cardinality(Live) <= pass.count
          BY <1>1, <4>3 DEF BatchInv, Budget
        <5> QED BY <3>2, <4>1, <5>1, <5>2
      <4>4. CASE pass.pc \in {"idle", "inspect"} BY <1>1, <4>4 DEF BatchInv, Budget
      <4> QED BY <4>2, <4>3, <4>4
    <3>4. pass.left \in Nat /\ pass.left <= Unseen
      BY <1>1 DEF GatesTyped, SoundPass, Passes, BatchInv, Budget
    <3>5. Cardinality(Live) <= BatchLimit
      <4>1. Live = {} => Cardinality(Live) = 0 BY FS_EmptySet
      <4> QED BY <2>1, <2>2, <3>2, <3>3, <3>4, <4>1
    <3>6. Cardinality(Leases) <= BatchLimit BY <2>1, <3>2, <3>5
    <3> QED BY <2>2, <3>6 DEF BatchLeasesBounded, Leases
  <2>3. CASE crashes # 0
    <3>1. Leases \in SUBSET (Leases \cup Claiming) /\ Leases \cup Claiming \in SUBSET Runs
      BY BatchSets
    <3>2. /\ Cardinality(Leases) \in Nat /\ Cardinality(Leases \cup Claiming) \in Nat
          /\ Cardinality(Leases) <= Cardinality(Leases \cup Claiming)
      BY <3>1, NoMore
    <3>3. Cardinality(Leases \cup Claiming) <= BatchLimit - 1 + Unseen
      BY <1>1 DEF BatchInv, LimitRoom
    <3>4. Cardinality(Leases) <= BatchLimit - 1 + Unseen BY <2>1, <3>2, <3>3
    <3> QED BY <2>3, <3>4 DEF BatchLeasesBounded, Leases
  <2> QED BY <2>2, <2>3
<1>2. GatesTyped /\ BatchInv => BatchLeasesBounded BY <1>1
<1> QED BY <1>2, GatesTypedHolds, BatchInvHolds, PTL
================================================================================
