-------------------------- MODULE RetentionPlanProofs --------------------------
(***************************************************************************)
(* TLAPS proof that the retention plan keeps its promises, for any number  *)
(* of backups, any calendar and any policies: the part "retention" of      *)
(* Services.                                                               *)
(***************************************************************************)
EXTENDS Services, FiniteSetTheorems, TLAPS

\* What the planner sees of a step of the whole: its own or none.
LEMMA RetentionStep == [Next]_vars => [RetentionPlanNext]_planVars
BY DEF Next, vars, RestRetention

-----------------------------------------------------------------------------
(* The calendar *)

\* A division keeps the order.
LEMMA QuotientMonotone ==
    ASSUME NEW x \in Nat, NEW y \in Nat, x <= y, NEW d \in Nat \ {0}
    PROVE  x \div d \in Nat /\ y \div d \in Nat /\ x \div d <= y \div d
<1> DEFINE a == x \div d
           b == y \div d
<1>1. a \in Nat /\ b \in Nat OBVIOUS
<1>2. a * d <= x /\ y < (b + 1) * d OBVIOUS
<1> HIDE DEF a, b
<1>3. a <= b
  <2> SUFFICES ASSUME b + 1 <= a PROVE FALSE BY <1>1
  <2>1. (b + 1) * d <= a * d BY <1>1
  <2>2. a * d \in Nat /\ (b + 1) * d \in Nat BY <1>1
  <2> QED BY <1>2, <2>1, <2>2
<1> QED BY <1>1, <1>3 DEF a, b

\* Days, weeks and months are numbers that never go back.
LEMMA Calendar ==
    ASSUME NEW s \in 0..MaxTick, NEW t \in 0..MaxTick, s <= t
    PROVE  /\ Day[s] \in Nat /\ Day[t] \in Nat /\ Day[s] <= Day[t]
           /\ Week[s] \in Nat /\ Week[t] \in Nat /\ Week[s] <= Week[t]
           /\ Month[s] \in Nat /\ Month[t] \in Nat /\ Month[s] <= Month[t]
<1>0. s \in Nat /\ t \in Nat BY PlanAssumption
<1>1. Day[s] = s \div DayTicks /\ Day[t] = t \div DayTicks BY DEF Day
<1>2. Day[s] \in Nat /\ Day[t] \in Nat /\ Day[s] <= Day[t]
  BY <1>0, <1>1, PlanAssumption, QuotientMonotone
<1>3. Week[s] = Day[s] \div WeekDays /\ Week[t] = Day[t] \div WeekDays BY DEF Week
<1>4. Month[s] = Day[s] \div MonthDays /\ Month[t] = Day[t] \div MonthDays BY DEF Month
<1>5. Week[s] \in Nat /\ Week[t] \in Nat /\ Week[s] <= Week[t]
  BY <1>2, <1>3, PlanAssumption, QuotientMonotone
<1>6. Month[s] \in Nat /\ Month[t] \in Nat /\ Month[s] <= Month[t]
  BY <1>2, <1>4, PlanAssumption, QuotientMonotone
<1> QED BY <1>2, <1>5, <1>6

-----------------------------------------------------------------------------
(* The inductive invariant *)

\* The storage has had the copies of successful backups only, and the order of
\* creation is that of their instants.
PlanTypes ==
    /\ tick \in 0..MaxTick
    /\ backup \in [Backups -> [at : 0..MaxTick, status : {"none", "active", "changed",
                                                          "unchanged", "failed"}]]
    /\ copies \subseteq everCopied
    /\ everCopied \subseteq {b \in Backups : backup[b].status \in {"changed", "unchanged"}}
    /\ policyOf \in PolicyRecords

PlanInv == PlanTypes /\ PromisesKept

\* Instants are numbers of the calendar.
LEMMA Instants ==
    ASSUME PlanTypes
    PROVE  \A b \in Backups : /\ MadeAt(b) \in 0..MaxTick /\ MadeAt(b) \in Nat
                              /\ b \in Nat
BY PlanAssumption DEF PlanTypes, MadeAt, Backups

\* Sets of backups are finite.
LEMMA BackupsFinite ==
    ASSUME NEW S \in SUBSET Backups
    PROVE  IsFiniteSet(S) /\ Cardinality(S) \in Nat
<1>1. IsFiniteSet(Backups)
  <2>1. 1 \in Int /\ MaxBackup \in Int BY PlanAssumption
  <2> QED BY <2>1, FS_Interval DEF Backups
<1>2. IsFiniteSet(S) BY <1>1, FS_Subset
<1> QED BY <1>2, FS_CardinalityType

\* In a set of backups that is not empty one is the newest.  (Of the sets of
\* those newer than a member one is smallest.)
LEMMA NewestExists ==
    ASSUME PlanTypes, NEW S \in SUBSET Backups, S # {}
    PROVE  \E d \in S : NewerThan(d, S) = {}
<1> DEFINE T == {NewerThan(b, S) : b \in S}
<1>1. IsWellFoundedOn(StrictSubsetOrdering(Backups), FiniteSubsetsOf(Backups))
  BY FS_StrictSubsetOrderingWellFounded
<1>2. T \subseteq FiniteSubsetsOf(Backups)
  <2> SUFFICES ASSUME NEW b \in S PROVE NewerThan(b, S) \in FiniteSubsetsOf(Backups)
    OBVIOUS
  <2>1. NewerThan(b, S) \in SUBSET Backups BY DEF NewerThan
  <2> QED BY <2>1, BackupsFinite DEF FiniteSubsetsOf
<1>3. T # {} OBVIOUS
<1>4. PICK t \in T : \A u \in T : ~ (<<u, t>> \in StrictSubsetOrdering(Backups))
  <2> HIDE DEF T
  <2> QED BY <1>1, <1>2, <1>3, WFMin
<1>5. PICK d \in S : t = NewerThan(d, S) OBVIOUS
<1>6. ASSUME NEW e \in NewerThan(d, S) PROVE FALSE
  <2>0. /\ \A b \in S : MadeAt(b) \in Nat /\ b \in Nat
        /\ e \in S
    BY Instants DEF NewerThan
  <2>1. NewerThan(e, S) \subseteq NewerThan(d, S)
    BY <2>0 DEF NewerThan
  <2>2. e \notin NewerThan(e, S) BY <2>0 DEF NewerThan
  <2>3. NewerThan(e, S) \in SUBSET Backups /\ NewerThan(d, S) \in SUBSET Backups
    BY DEF NewerThan
  <2>4. <<NewerThan(e, S), NewerThan(d, S)>> \in StrictSubsetOrdering(Backups)
    BY <2>1, <2>2, <2>3 DEF StrictSubsetOrdering
  <2>5. NewerThan(e, S) \in T BY <2>0
  <2> QED BY <1>4, <1>5, <2>4, <2>5
<1> QED BY <1>6

\* Each bucket of a set of backups keeps a member of it.
LEMMA BucketKept ==
    ASSUME PlanTypes, NEW S \in SUBSET Backups, NEW bucket, NEW c \in S
    PROVE  \E d \in LatestPerBucket(S, bucket) : bucket[MadeAt(d)] = bucket[MadeAt(c)]
<1> DEFINE D == {b \in S : bucket[MadeAt(b)] = bucket[MadeAt(c)]}
<1>1. D \in SUBSET Backups /\ D # {} OBVIOUS
<1>2. PICK d \in D : NewerThan(d, D) = {} BY <1>1, NewestExists
<1>3. d \in LatestPerBucket(S, bucket)
  BY <1>2 DEF LatestPerBucket, NewerThan
<1> QED BY <1>2, <1>3

\* A member that is among the first n of a set is so in a smaller one.
LEMMA FirstOfSmaller ==
    ASSUME NEW S \in SUBSET Backups, NEW T \in SUBSET S, NEW n \in Nat,
           NEW b \in T, b \in FirstOf(n, S)
    PROVE  b \in FirstOf(n, T)
<1>1. NewerThan(b, T) \in SUBSET NewerThan(b, S) /\ NewerThan(b, S) \in SUBSET Backups
  BY DEF NewerThan
<1>2. NewerThan(b, T) \in SUBSET Backups BY <1>1
<1>3. Cardinality(NewerThan(b, T)) <= Cardinality(NewerThan(b, S))
  BY <1>1, BackupsFinite, FS_Subset
<1>4. Cardinality(NewerThan(b, T)) \in Nat /\ Cardinality(NewerThan(b, S)) \in Nat
  BY <1>1, <1>2, BackupsFinite
<1>5. Cardinality(NewerThan(b, S)) < n BY DEF FirstOf
<1> QED BY <1>3, <1>4, <1>5 DEF FirstOf

\* Nor does a backup come among the first n when others are made, while its own
\* instant stays.
LEMMA FirstOfGrows ==
    ASSUME PlanTypes, PlanTypes',
           NEW S \in SUBSET Backups, NEW T \in SUBSET Backups, S \subseteq T,
           \A b \in S : backup'[b] = backup[b],
           NEW n \in Nat, NEW b \in S, b \in {x \in T : Cardinality(NewerThan(x, T)') < n}
    PROVE  b \in FirstOf(n, S)
<1>1. NewerThan(b, T)' = {c \in T : MadeAt(c)' > MadeAt(b)' \/ (MadeAt(c)' = MadeAt(b)' /\ c > b)}
  BY DEF NewerThan
<1>2. \A c \in S : MadeAt(c)' = MadeAt(c) BY DEF MadeAt
<1>3. NewerThan(b, S) \in SUBSET (NewerThan(b, T)') /\ NewerThan(b, T)' \in SUBSET Backups
  BY <1>1, <1>2 DEF NewerThan
<1>4. NewerThan(b, S) \in SUBSET Backups BY <1>3
<1>5. Cardinality(NewerThan(b, S)) <= Cardinality(NewerThan(b, T)')
  BY <1>3, BackupsFinite, FS_Subset
<1>6. Cardinality(NewerThan(b, S)) \in Nat /\ Cardinality(NewerThan(b, T)') \in Nat
  BY <1>3, <1>4, BackupsFinite
<1>7. Cardinality(NewerThan(b, T)') < n OBVIOUS
<1> QED BY <1>5, <1>6, <1>7 DEF FirstOf

-----------------------------------------------------------------------------
(* What a cleanup leaves *)

\* A plan expires and keeps only what there is, and never expires the newest
\* copy nor a protected one, whatever the cap.
LEMMA KeptIsMandatory ==
    ASSUME NEW S
    PROVE  /\ KeptRevisions(S) \subseteq S
           /\ Mandatory(S) \subseteq KeptRevisions(S)
           /\ policyOf.cap = 0 => KeptRevisions(S) = Wanted(S)
<1>1. Mandatory(S) \subseteq S BY DEF Mandatory, FirstOf
<1>2. Wanted(S) \subseteq S BY <1>1 DEF Wanted, FirstOf, LatestPerBucket
<1>3. Mandatory(S) \subseteq Wanted(S) BY DEF Wanted
<1>4. \A n, T : FirstOf(n, T) \subseteq T BY DEF FirstOf
<1> QED BY <1>1, <1>2, <1>3, <1>4 DEF KeptRevisions

\* A bucket in its window that has a copy keeps one.
LEMMA WindowKept ==
    ASSUME PlanTypes, NEW bucket \in {Day, Week, Month}, NEW n \in Nat,
           NEW b \in everCopied, bucket[tick] < bucket[MadeAt(b)] + n,
           NEW c \in copies, bucket[MadeAt(c)] = bucket[MadeAt(b)]
    PROVE  \E d \in LatestPerBucket({x \in copies : Within(bucket, MadeAt(x), n)}, bucket) :
              bucket[MadeAt(d)] = bucket[MadeAt(b)]
<1> DEFINE S == {x \in copies : Within(bucket, MadeAt(x), n)}
<1>1. S \in SUBSET Backups BY DEF PlanTypes
<1>2. tick \in 0..MaxTick /\ MadeAt(c) \in 0..MaxTick
  BY Instants DEF PlanTypes
<1>3. bucket[tick] \in Nat /\ bucket[MadeAt(c)] \in Nat
  <2>1. tick <= tick /\ MadeAt(c) <= MadeAt(c) BY <1>2, PlanAssumption
  <2> QED BY <1>2, <2>1, Calendar
<1>4. c \in S BY <1>3 DEF Within
<1> HIDE DEF S
<1> QED BY <1>1, <1>4, BucketKept DEF S

\* The promises, part by part.
WindowPromise(bucket, n) ==
    \A b \in everCopied : bucket[tick] < bucket[MadeAt(b)] + n
        => \E c \in copies : bucket[MadeAt(c)] = bucket[MadeAt(b)]

ChangedCopies == {b \in everCopied : backup[b].status = "changed"}

MinimumPromise == FirstOf(policyOf.minimum, ChangedCopies) \subseteq copies

Promises ==
    /\ FirstOf(1, everCopied) \cup pinned \subseteq copies
    /\ policyOf.cap = 0 => /\ WindowPromise(Day, policyOf.daily)
                           /\ WindowPromise(Week, policyOf.weekly)
                           /\ WindowPromise(Month, policyOf.monthly)
                           /\ MinimumPromise

\* They are all of it.
LEMMA PromisesParts == (PromisesKept <=> Promises) /\ (PromisesKept' <=> Promises')
<1>1. PromisesKept <=> Promises
  BY DEF PromisesKept, Promises, WindowPromise, MinimumPromise, ChangedCopies
<1>2. PromisesKept' <=> Promises'
  BY DEF PromisesKept, Promises, WindowPromise, MinimumPromise, ChangedCopies
<1> QED BY <1>1, <1>2

\* A cleanup, whichever revisions it defers, keeps the promises.
LEMMA CleanupKeeps ==
    ASSUME PlanInv, CleanupRuns
    PROVE  PlanInv'
<1>1. UNCHANGED <<tick, backup, everCopied, pinned, policyOf>>
  BY DEF CleanupRuns
<1>2. KeptRevisions(copies) \subseteq copies' /\ copies' \subseteq copies
  BY KeptIsMandatory DEF CleanupRuns, ExpiredRevisions
<1>3. PlanTypes' BY <1>1, <1>2 DEF PlanInv, PlanTypes
<1>0. PlanTypes /\ copies \subseteq everCopied /\ everCopied \subseteq Backups
  BY DEF PlanInv, PlanTypes
<1>4. FirstOf(1, everCopied)' = FirstOf(1, everCopied)
  BY <1>1 DEF FirstOf, NewerThan, MadeAt
<1>5. FirstOf(1, everCopied) \cup pinned \subseteq copies
  BY PromisesParts DEF PlanInv, Promises
<1>6. FirstOf(1, everCopied) \subseteq FirstOf(1, copies)
  BY <1>0, <1>5, FirstOfSmaller
<1>7. FirstOf(1, everCopied) \cup pinned \subseteq copies'
  BY <1>2, <1>5, <1>6, KeptIsMandatory DEF Mandatory
<1>8. ASSUME policyOf.cap = 0
      PROVE  /\ WindowPromise(Day, policyOf.daily)'
             /\ WindowPromise(Week, policyOf.weekly)'
             /\ WindowPromise(Month, policyOf.monthly)'
             /\ MinimumPromise'
  <2>1. Wanted(copies) \subseteq copies' BY <1>2, <1>8, KeptIsMandatory
  <2>2. /\ WindowPromise(Day, policyOf.daily)
        /\ WindowPromise(Week, policyOf.weekly)
        /\ WindowPromise(Month, policyOf.monthly)
        /\ MinimumPromise
    BY <1>8, PromisesParts DEF PlanInv, Promises
  <2>3. \A b : MadeAt(b)' = MadeAt(b) BY <1>1 DEF MadeAt
  <2>4. /\ policyOf.daily \in Nat /\ policyOf.weekly \in Nat
        /\ policyOf.monthly \in Nat /\ policyOf.minimum \in Nat
    BY <1>0 DEF PlanTypes, PolicyRecords
  <2>5. ASSUME NEW bucket \in {Day, Week, Month}, NEW n \in Nat, WindowPromise(bucket, n),
               LatestPerBucket({x \in copies : Within(bucket, MadeAt(x), n)}, bucket)
                   \subseteq copies',
               NEW b \in everCopied, bucket[tick] < bucket[MadeAt(b)] + n
        PROVE  \E c \in copies' : bucket[MadeAt(c)] = bucket[MadeAt(b)]
    <3>1. PICK c \in copies : bucket[MadeAt(c)] = bucket[MadeAt(b)]
      BY <2>5 DEF WindowPromise
    <3>2. PICK d \in LatestPerBucket({x \in copies : Within(bucket, MadeAt(x), n)}, bucket) :
              bucket[MadeAt(d)] = bucket[MadeAt(b)]
      BY <1>0, <2>5, <3>1, WindowKept
    <3> QED BY <2>5, <3>2
  <2>6. WindowPromise(Day, policyOf.daily)'
    <3>1. LatestPerBucket({x \in copies : Within(Day, MadeAt(x), policyOf.daily)}, Day)
             \subseteq copies'
      BY <2>1 DEF Wanted
    <3>2. \A b \in everCopied : Day[tick] < Day[MadeAt(b)] + policyOf.daily
             => \E c \in copies' : Day[MadeAt(c)] = Day[MadeAt(b)]
      BY <2>2, <2>4, <2>5, <3>1
    <3> QED BY <1>1, <2>3, <3>2 DEF WindowPromise, Day
  <2>7. WindowPromise(Week, policyOf.weekly)'
    <3>1. LatestPerBucket({x \in copies : Within(Week, MadeAt(x), policyOf.weekly)}, Week)
             \subseteq copies'
      BY <2>1 DEF Wanted
    <3>2. \A b \in everCopied : Week[tick] < Week[MadeAt(b)] + policyOf.weekly
             => \E c \in copies' : Week[MadeAt(c)] = Week[MadeAt(b)]
      BY <2>2, <2>4, <2>5, <3>1
    <3> QED BY <1>1, <2>3, <3>2 DEF WindowPromise
  <2>8. WindowPromise(Month, policyOf.monthly)'
    <3>1. LatestPerBucket({x \in copies : Within(Month, MadeAt(x), policyOf.monthly)}, Month)
             \subseteq copies'
      BY <2>1 DEF Wanted
    <3>2. \A b \in everCopied : Month[tick] < Month[MadeAt(b)] + policyOf.monthly
             => \E c \in copies' : Month[MadeAt(c)] = Month[MadeAt(b)]
      BY <2>2, <2>4, <2>5, <3>1
    <3> QED BY <1>1, <2>3, <3>2 DEF WindowPromise
  <2>9. MinimumPromise'
    <3> DEFINE C == {b \in copies : backup[b].status = "changed"}
    <3>1. ChangedCopies \in SUBSET Backups /\ C \in SUBSET ChangedCopies
      BY <1>0 DEF ChangedCopies
    <3>2. FirstOf(policyOf.minimum, ChangedCopies) \subseteq C
      BY <2>2 DEF MinimumPromise, FirstOf, ChangedCopies
    <3>3. FirstOf(policyOf.minimum, C) \subseteq copies' BY <2>1 DEF Wanted
    <3> HIDE DEF C
    <3>4. FirstOf(policyOf.minimum, ChangedCopies) \subseteq FirstOf(policyOf.minimum, C)
      BY <2>4, <3>1, <3>2, FirstOfSmaller
    <3>5. FirstOf(policyOf.minimum, ChangedCopies)' = FirstOf(policyOf.minimum, ChangedCopies)
      BY <1>1 DEF FirstOf, NewerThan, MadeAt, ChangedCopies
    <3> QED BY <3>3, <3>4, <3>5 DEF MinimumPromise
  <2> QED BY <2>6, <2>7, <2>8, <2>9
<1> QED BY <1>1, <1>3, <1>4, <1>7, <1>8, PromisesParts DEF PlanInv, Promises

\* Steps that add backups and copies keep the promises: a copy that is added is
\* one of those the promises count.
LEMMA GrowthKeeps ==
    ASSUME PlanInv, PlanTypes', UNCHANGED <<tick, policyOf>>,
           everCopied \subseteq everCopied', copies \subseteq copies',
           everCopied' \subseteq everCopied \cup copies',
           \A b \in everCopied : backup'[b] = backup[b],
           pinned' \subseteq copies'
    PROVE  PlanInv'
<1>0. /\ PlanTypes /\ copies \subseteq everCopied
      /\ everCopied \subseteq Backups /\ everCopied' \subseteq Backups
  BY DEF PlanInv, PlanTypes
<1>1. FirstOf(1, everCopied) \cup pinned \subseteq copies
  BY PromisesParts DEF PlanInv, Promises
<1>3. \A b \in everCopied : MadeAt(b)' = MadeAt(b) BY DEF MadeAt
<1>2. FirstOf(1, everCopied)' \subseteq copies'
  <2> SUFFICES ASSUME NEW b \in FirstOf(1, everCopied)', b \in everCopied PROVE b \in copies'
    BY DEF FirstOf
  <2>1. PICK T : T = everCopied' OBVIOUS
  <2>2. b \in {x \in T : Cardinality(NewerThan(x, T)') < 1}
    BY <2>1 DEF FirstOf, NewerThan
  <2>3. b \in FirstOf(1, everCopied)
    BY <1>0, <2>1, <2>2, FirstOfGrows
  <2> QED BY <1>1, <2>3
<1>4. ASSUME NEW bucket, NEW n, WindowPromise(bucket, n),
             NEW b \in everCopied', bucket[tick] < bucket[MadeAt(b)'] + n
      PROVE  \E c \in copies' : bucket[MadeAt(c)'] = bucket[MadeAt(b)']
  <2>1. CASE b \in copies' BY <2>1
  <2>2. CASE b \in everCopied
    <3>1. PICK c \in copies : bucket[MadeAt(c)] = bucket[MadeAt(b)]
      BY <1>3, <1>4, <2>2 DEF WindowPromise
    <3> QED BY <1>0, <1>3, <2>2, <3>1
  <2> QED BY <2>1, <2>2
<1>5. MinimumPromise => MinimumPromise'
  <2> SUFFICES ASSUME MinimumPromise, NEW b \in FirstOf(policyOf.minimum, ChangedCopies)',
                      b \in everCopied
               PROVE  b \in copies'
    BY DEF MinimumPromise, FirstOf, ChangedCopies
  <2>1. PICK T : T = ChangedCopies' OBVIOUS
  <2>2. b \in {x \in T : Cardinality(NewerThan(x, T)') < policyOf.minimum}
    BY <2>1 DEF FirstOf, NewerThan
  <2>3. /\ ChangedCopies \in SUBSET Backups /\ T \in SUBSET Backups
        /\ ChangedCopies \subseteq T /\ b \in ChangedCopies
        /\ \A c \in ChangedCopies : backup'[c] = backup[c]
    BY <1>0, <2>1, <2>2 DEF ChangedCopies
  <2>4. policyOf.minimum \in Nat BY <1>0 DEF PlanTypes, PolicyRecords
  <2>5. b \in FirstOf(policyOf.minimum, ChangedCopies)
    BY <1>0, <2>2, <2>3, <2>4, FirstOfGrows
  <2> QED BY <2>5 DEF MinimumPromise
<1>6. ASSUME NEW bucket, NEW n, WindowPromise(bucket, n) PROVE WindowPromise(bucket, n)'
  BY <1>4, <1>6 DEF WindowPromise
<1>7. policyOf.cap = 0 => /\ WindowPromise(Day, policyOf.daily)'
                          /\ WindowPromise(Week, policyOf.weekly)'
                          /\ WindowPromise(Month, policyOf.monthly)'
                          /\ MinimumPromise'
  BY <1>5, <1>6, PromisesParts DEF PlanInv, Promises
<1> QED BY <1>2, <1>7, PromisesParts DEF PlanInv, Promises

\* Time only takes buckets out of their windows.
LEMMA TimeKeeps ==
    ASSUME PlanInv, PassTime
    PROVE  PlanInv'
<1>1. /\ tick' = tick + 1 /\ tick < MaxTick
      /\ UNCHANGED <<backup, copies, everCopied, pinned, policyOf>>
  BY DEF PassTime
<1>0. PlanTypes /\ tick \in 0..MaxTick /\ everCopied \subseteq Backups
  BY DEF PlanInv, PlanTypes
<1>2. tick' \in 0..MaxTick /\ tick <= tick' BY <1>0, <1>1, PlanAssumption
<1>3. PlanTypes' BY <1>1, <1>2 DEF PlanInv, PlanTypes
<1>4. FirstOf(1, everCopied)' = FirstOf(1, everCopied)
  BY <1>1 DEF FirstOf, NewerThan, MadeAt
<1>5. MinimumPromise => MinimumPromise'
  BY <1>1 DEF MinimumPromise, ChangedCopies, FirstOf, NewerThan, MadeAt
<1>6. \A b : MadeAt(b)' = MadeAt(b) BY <1>1 DEF MadeAt
<1>7. ASSUME NEW bucket \in {Day, Week, Month}, NEW n \in Nat, WindowPromise(bucket, n),
             NEW b \in everCopied, bucket[tick'] < bucket[MadeAt(b)] + n
      PROVE  \E c \in copies : bucket[MadeAt(c)] = bucket[MadeAt(b)]
  <2>1. MadeAt(b) \in 0..MaxTick BY <1>0, Instants
  <2>2. MadeAt(b) <= MadeAt(b) BY <2>1, PlanAssumption
  <2>3. /\ bucket[tick] \in Nat /\ bucket[tick'] \in Nat /\ bucket[tick] <= bucket[tick']
        /\ bucket[MadeAt(b)] \in Nat
    BY <1>0, <1>2, <2>1, <2>2, Calendar
  <2>4. bucket[tick] < bucket[MadeAt(b)] + n BY <1>7, <2>3
  <2> QED BY <1>7, <2>4 DEF WindowPromise
<1>8. /\ policyOf.daily \in Nat /\ policyOf.weekly \in Nat /\ policyOf.monthly \in Nat
  BY <1>0 DEF PlanTypes, PolicyRecords
<1>9. policyOf.cap = 0 =>
         /\ WindowPromise(Day, policyOf.daily)'
         /\ WindowPromise(Week, policyOf.weekly)'
         /\ WindowPromise(Month, policyOf.monthly)'
         /\ MinimumPromise'
  <2> SUFFICES ASSUME policyOf.cap = 0
               PROVE  /\ WindowPromise(Day, policyOf.daily)'
                      /\ WindowPromise(Week, policyOf.weekly)'
                      /\ WindowPromise(Month, policyOf.monthly)'
                      /\ MinimumPromise'
    OBVIOUS
  <2>1. Promises BY PromisesParts DEF PlanInv
  <2>2. \A b \in everCopied : Day[tick'] < Day[MadeAt(b)] + policyOf.daily
           => \E c \in copies : Day[MadeAt(c)] = Day[MadeAt(b)]
    BY <1>7, <1>8, <2>1 DEF Promises
  <2>3. \A b \in everCopied : Week[tick'] < Week[MadeAt(b)] + policyOf.weekly
           => \E c \in copies : Week[MadeAt(c)] = Week[MadeAt(b)]
    BY <1>7, <1>8, <2>1 DEF Promises
  <2>4. \A b \in everCopied : Month[tick'] < Month[MadeAt(b)] + policyOf.monthly
           => \E c \in copies : Month[MadeAt(c)] = Month[MadeAt(b)]
    BY <1>7, <1>8, <2>1 DEF Promises
  <2>5. WindowPromise(Day, policyOf.daily)' BY <1>1, <1>6, <2>2 DEF WindowPromise
  <2>6. WindowPromise(Week, policyOf.weekly)' BY <1>1, <1>6, <2>3 DEF WindowPromise
  <2>7. WindowPromise(Month, policyOf.monthly)' BY <1>1, <1>6, <2>4 DEF WindowPromise
  <2> QED BY <1>5, <2>1, <2>5, <2>6, <2>7 DEF Promises
<1> QED BY <1>1, <1>3, <1>4, <1>9, PromisesParts DEF PlanInv, Promises

-----------------------------------------------------------------------------
(* The steps, and the theorem *)

\* Every step of the part keeps the invariant.
LEMMA PlanStep == PlanInv /\ [RetentionPlanNext]_planVars => PlanInv'
<1> SUFFICES ASSUME PlanInv, [RetentionPlanNext]_planVars PROVE PlanInv'
  OBVIOUS
<1>0. /\ PlanTypes /\ everCopied \subseteq Backups /\ pinned \subseteq copies
      /\ \A b \in everCopied : backup[b].status \in {"changed", "unchanged"}
  BY PromisesParts DEF PlanInv, PlanTypes, Promises
<1>1. CASE PassTime BY <1>1, TimeKeeps
<1>2. CASE CleanupRuns BY <1>2, CleanupKeeps
<1>3. CASE UNCHANGED <<tick, backup, copies, everCopied, pinned, policyOf>>
  <2>1. PlanTypes' BY <1>0, <1>3 DEF PlanTypes
  <2> QED BY <1>0, <1>3, <2>1, GrowthKeeps
<1>4. CASE CleanupQueued BY <1>3, <1>4 DEF CleanupQueued
<1>5. ASSUME NEW b \in Backups, StartBackup(b) PROVE PlanInv'
  <2>1. /\ backup' = [backup EXCEPT ![b] = [at |-> tick, status |-> "active"]]
        /\ UNCHANGED <<tick, copies, everCopied, pinned, policyOf>>
        /\ backup[b].status = "none"
    BY <1>5 DEF StartBackup
  <2>2. \A c \in everCopied : c # b /\ backup'[c] = backup[c]
    BY <1>0, <2>1 DEF PlanTypes
  <2>3. PlanTypes' BY <1>0, <2>1, <2>2 DEF PlanTypes
  <2> QED BY <1>0, <2>1, <2>2, <2>3, GrowthKeeps
<1>6. ASSUME NEW b \in Backups, EndBackup(b) PROVE PlanInv'
  <2>1. PICK status \in {"changed", "unchanged", "failed"} :
           /\ backup' = [backup EXCEPT ![b] = [at |-> tick, status |-> status]]
           /\ \/ UNCHANGED <<copies, everCopied>>
              \/ /\ status # "failed"
                 /\ copies' = copies \cup {b} /\ everCopied' = everCopied \cup {b}
    BY <1>6 DEF EndBackup
  <2>2. UNCHANGED <<tick, pinned, policyOf>> /\ backup[b].status = "active"
    BY <1>6 DEF EndBackup
  <2>3. \A c \in everCopied : c # b /\ backup'[c] = backup[c]
    BY <1>0, <2>1, <2>2 DEF PlanTypes
  <2>4. backup'[b].status = status BY <1>0, <2>1 DEF PlanTypes
  <2>5. backup' \in [Backups -> [at : 0..MaxTick, status : {"none", "active", "changed",
                                                            "unchanged", "failed"}]]
    BY <1>0, <2>1 DEF PlanTypes
  <2>6. \A c \in everCopied' : c \in Backups /\ backup'[c].status \in {"changed", "unchanged"}
    BY <1>0, <2>1, <2>3, <2>4
  <2>7. copies' \subseteq everCopied' BY <1>0, <2>1 DEF PlanTypes
  <2>8. PlanTypes' BY <1>0, <2>2, <2>5, <2>6, <2>7 DEF PlanTypes
  <2> QED BY <1>0, <2>1, <2>2, <2>3, <2>8, GrowthKeeps
<1>7. ASSUME NEW b \in Backups, UploadCopy(b) PROVE PlanInv'
  <2>1. /\ copies' = copies \cup {b} /\ everCopied' = everCopied \cup {b}
        /\ UNCHANGED <<tick, backup, pinned, policyOf>>
        /\ backup[b].status \in {"changed", "unchanged"}
    BY <1>7 DEF UploadCopy
  <2>2. PlanTypes' BY <1>0, <2>1 DEF PlanTypes
  <2> QED BY <1>0, <2>1, <2>2, GrowthKeeps
<1>8. ASSUME NEW b \in Backups, Protect(b) PROVE PlanInv'
  <2>1. /\ pinned' = {b} /\ b \in copies
        /\ UNCHANGED <<tick, backup, copies, everCopied, policyOf>>
    BY <1>8 DEF Protect
  <2>2. PlanTypes' BY <1>0, <2>1 DEF PlanTypes
  <2> QED BY <2>1, <2>2, GrowthKeeps
<1>9. CASE UNCHANGED planVars BY <1>3, <1>9 DEF planVars
<1> QED
  BY <1>1, <1>2, <1>4, <1>5, <1>6, <1>7, <1>8, <1>9
  DEF RetentionPlanNext, RetentionDispatcher, DispatchExpired, DispatchExpiredRemote,
      CleanupView, RemoteCleanupView, RetentionCleanupJob, RemoteRetentionCleanupJob

\* Whatever the chain of policies, the effective one is a policy or none.
LEMMA EffectivePolicy ==
    ASSUME NEW n \in 3..4, NEW chain \in [1..n -> PolicyRecords]
    PROVE  FirstPolicy(chain) \in PolicyRecords
<1> DEFINE given == {i \in DOMAIN chain : chain[i] # NoPolicy}
<1>1. NoPolicy \in PolicyRecords BY DEF NoPolicy, PolicyRecords
<1>2. CASE given = {} BY <1>1, <1>2 DEF FirstPolicy
<1>3. CASE given # {}
  <2>1. given \in SUBSET (1..4) OBVIOUS
  <2> HIDE DEF given
  <2>2. PICK x : x \in given BY <1>3
  <2>3. \E m \in given : \A i \in given : m <= i
    <3>1. CASE 1 \in given BY <2>1, <3>1
    <3>2. CASE 1 \notin given /\ 2 \in given BY <2>1, <3>2
    <3>3. CASE 1 \notin given /\ 2 \notin given /\ 3 \in given BY <2>1, <3>3
    <3>4. CASE 1 \notin given /\ 2 \notin given /\ 3 \notin given
      <4>1. \A y \in given : y = 4 BY <2>1, <3>4
      <4> QED BY <2>2, <4>1
    <3> QED BY <3>1, <3>2, <3>3, <3>4
  <2>4. Min(given) \in given BY <2>3 DEF Min
  <2> QED BY <1>3, <2>4 DEF FirstPolicy, given
<1> QED BY <1>2, <1>3

\* The initial states are within the types and promise nothing yet.
LEMMA PlanInit == RetentionPlanInit => PlanInv
<1> SUFFICES ASSUME RetentionPlanInit PROVE PlanInv
  OBVIOUS
<1>1. NoPolicy \in PolicyRecords BY DEF NoPolicy, PolicyRecords
<1>2. policyOf \in PolicyRecords
  <2>1. ASSUME NEW enforce \in BOOLEAN, NEW s \in LocalPolicies \cup {NoPolicy},
               NEW d \in LocalPolicies \cup {NoPolicy}, NEW p \in LocalPolicies \cup {NoPolicy},
               policyOf = EffectiveLocal(enforce, s, d, p)
        PROVE  policyOf \in PolicyRecords
    <3> DEFINE chain == <<IF enforce THEN s ELSE NoPolicy, d, p, s>>
    <3>1. chain \in [1..4 -> PolicyRecords] BY <1>1, PlanAssumption
    <3> HIDE DEF chain
    <3>2. FirstPolicy(chain) \in PolicyRecords BY <3>1, EffectivePolicy
    <3> QED BY <2>1, <3>2 DEF EffectiveLocal, chain
  <2>2. ASSUME NEW enforce \in BOOLEAN, NEW s \in RemotePolicies \cup {NoPolicy},
               NEW d \in RemotePolicies \cup {NoPolicy},
               policyOf = EffectiveRemote(enforce, s, d)
        PROVE  policyOf \in PolicyRecords
    <3> DEFINE chain == <<IF enforce THEN s ELSE NoPolicy, d, s>>
    <3>1. chain \in [1..3 -> PolicyRecords] BY <1>1, PlanAssumption
    <3> HIDE DEF chain
    <3>2. FirstPolicy(chain) \in PolicyRecords BY <3>1, EffectivePolicy
    <3> QED BY <2>2, <3>2 DEF EffectiveRemote, chain
  <2> QED BY <2>1, <2>2 DEF RetentionPlanInit
<1>3. /\ tick = 0 /\ copies = {} /\ everCopied = {} /\ pinned = {}
      /\ backup = [b \in Backups |-> [at |-> 0, status |-> "none"]]
  BY DEF RetentionPlanInit
<1>4. PlanTypes BY <1>2, <1>3, PlanAssumption DEF PlanTypes
<1>5. Promises
  BY <1>3 DEF Promises, WindowPromise, MinimumPromise, ChangedCopies, FirstOf
<1> QED BY <1>4, <1>5, PromisesParts DEF PlanInv

\* However backups, uploads, protections, cleanups and the clock interleave, and
\* for any policy: the newest copy and a protected one stay, and without a cap
\* each day, week and month of the windows that ever had a copy has one, and the
\* newest changed revisions are there.
THEOREM PromisesKeptHolds == Spec => []PromisesKept
<1>1. Init => PlanInv
  BY PlanInit DEF Init
<1>2. PlanInv /\ [Next]_vars => PlanInv'
  BY PlanStep, RetentionStep
<1>3. PlanInv => PromisesKept
  BY DEF PlanInv
<1> QED BY <1>1, <1>2, <1>3, PTL DEF Spec
=============================================================================
