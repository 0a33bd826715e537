--------------------------- MODULE SchedulingProofs ---------------------------
(***************************************************************************)
(* TLAPS proofs about Scheduling, for any length of the day, offsets,      *)
(* jitter, intervals and backoff.  They need NoFallBack: when wall-clock   *)
(* time falls back, a daily policy breaks both properties.                 *)
(***************************************************************************)
EXTENDS Scheduling, TLAPS

\* The policy counts in UTC, or its zone never falls back.
NoFallBack == schedulePolicy.type = "interval" \/ Before <= After

SchedInv ==
    /\ schedulePolicy \in Policies
    /\ NoFallBack
    /\ utcNow \in 0..MaxTime
    /\ nextRun \in Int
    /\ failureCount \in Nat
    /\ dedupeKeys \subseteq {"retry", "scheduled"} \X Int
    /\ \A k \in dedupeKeys : k[2] <= utcNow /\ (nextRun # Never => k[2] < nextRun)

-----------------------------------------------------------------------------
(* Slots *)

\* What is known of a division.
LEMMA DivBounds ==
    ASSUME NEW x \in Int, NEW d \in Nat \ {0}
    PROVE  /\ x \div d \in Int
           /\ (x \div d) * d <= x
           /\ x < ((x \div d) + 1) * d
OBVIOUS

\* A division keeps the order.
LEMMA DivMonotone ==
    ASSUME NEW x \in Int, NEW y \in Int, x <= y, NEW d \in Nat \ {0}
    PROVE  x \div d <= y \div d
<1>1. SUFFICES ASSUME (y \div d) + 1 <= x \div d PROVE FALSE
  BY DivBounds
<1> DEFINE a == x \div d
           b == y \div d
<1>2. a \in Int /\ b \in Int /\ a * d <= x /\ y < (b + 1) * d BY DivBounds
<1>3. b + 1 <= a BY <1>1
<1> HIDE DEF a, b
<1>4. (b + 1) * d <= a * d BY <1>2, <1>3
<1> QED BY <1>2, <1>4

\* Whole intervals are skipped until the slot is in the future.
LEMMA IntervalNextLater ==
    ASSUME NEW interval \in Nat \ {0}, NEW after \in Int, NEW reference \in Int
    PROVE  /\ IntervalNext(interval, after, reference) \in Int
           /\ IntervalNext(interval, after, reference) > reference
<1> DEFINE candidate == after + interval
           q == (reference - candidate) \div interval
<1>1. candidate \in Int /\ reference - candidate \in Int OBVIOUS
<1>2. q \in Int /\ reference - candidate < (q + 1) * interval BY <1>1, DivBounds
<1>3. IntervalNext(interval, after, reference) =
         IF candidate <= reference THEN candidate + (q + 1) * interval ELSE candidate
  BY DEF IntervalNext, Passed
<1> HIDE DEF candidate, q
<1>4. (q + 1) * interval \in Int BY <1>2
<1> QED BY <1>1, <1>2, <1>3, <1>4

\* A wall-clock time after that of an instant comes after the instant, when the
\* switch skips time: neither of the two readings of Utc falls behind.
LEMMA UtcLater ==
    ASSUME Before <= After, NEW u \in Int, NEW t \in Int, t > Local(u)
    PROVE  Utc(t) \in Int /\ Utc(t) > u
BY ScheduleAssumption DEF Local, Utc

\* The dates of the model have their jitter.
LEMMA DatesCover ==
    ASSUME Before <= After, NEW u \in 0..MaxTime
    PROVE  /\ Local(u) \in Int
           /\ Local(u) \div DayLen \in Dates
           /\ (Local(u) \div DayLen) + 1 \in Dates
<1>1. /\ Local(u) \in Int /\ Local(0) \in Int /\ Local(MaxTime) \in Int
      /\ Local(0) <= Local(u) /\ Local(u) <= Local(MaxTime)
  BY ScheduleAssumption DEF Local
<1> DEFINE a == Local(0) \div DayLen
           b == Local(u) \div DayLen
           c == Local(MaxTime) \div DayLen
<1>2. a \in Int /\ b \in Int /\ c \in Int BY <1>1, ScheduleAssumption, DivBounds
<1>3. a <= b /\ b <= c BY <1>1, ScheduleAssumption, DivMonotone
<1>4. Dates = a..(c + 1) BY DEF Dates
<1> HIDE DEF a, b, c
<1>5. b \in Dates /\ b + 1 \in Dates BY <1>2, <1>3, <1>4
<1> QED BY <1>1, <1>5 DEF b

\* The slot of today, or that of tomorrow, is after the clock of the wall.
LEMMA DailyNextLater ==
    ASSUME Before <= After, NEW p \in Policies, p.type = "daily", NEW u \in 0..MaxTime
    PROVE  DailyNext(p, u) \in Int /\ DailyNext(p, u) > u
<1> DEFINE local == Local(u)
           date == local \div DayLen
           slot == IF Passed(DailyCandidate(p, date), local) THEN DailyCandidate(p, date + 1)
                                                             ELSE DailyCandidate(p, date)
<1>1. local \in Int /\ date \in Dates /\ date + 1 \in Dates BY DatesCover
<1>2. date \in Int /\ local < (date + 1) * DayLen
  BY <1>1, ScheduleAssumption, DivBounds
<1>3. DailyNext(p, u) = Utc(slot) BY DEF DailyNext
<1>4. p.timeOfDay \in 0..(DayLen - 1) /\ p.jitter \in [Dates -> 0..MaxJitter]
  BY DEF Policies
<1> HIDE DEF date
<1>5. p.jitter[date] \in Nat /\ p.jitter[date + 1] \in Nat /\ p.timeOfDay \in Nat
  BY <1>1, <1>4, ScheduleAssumption
<1>6. date * DayLen \in Int /\ (date + 1) * DayLen \in Int BY <1>2, ScheduleAssumption
<1>7. DailyCandidate(p, date) \in Int /\ DailyCandidate(p, date + 1) \in Int
  BY <1>5, <1>6 DEF DailyCandidate
<1>8. DailyCandidate(p, date + 1) > local
  BY <1>1, <1>2, <1>5, <1>6 DEF DailyCandidate
<1>9. slot \in Int /\ slot > local BY <1>1, <1>7, <1>8 DEF Passed
<1> HIDE DEF slot
<1> QED BY <1>3, <1>9, UtcLater

\* calculate_next_run is strictly after the clock.
LEMMA NextRunLater ==
    ASSUME SchedInv, NEW after \in Int
    PROVE  /\ CalculateNextRun(schedulePolicy, after, utcNow) \in Int
           /\ CalculateNextRun(schedulePolicy, after, utcNow) > utcNow
<1>1. utcNow \in Int BY ScheduleAssumption DEF SchedInv
<1>2. CASE schedulePolicy.type = "interval"
  <2>1. schedulePolicy.interval \in Nat \ {0}
    BY <1>2, ScheduleAssumption DEF SchedInv, Policies
  <2> QED BY <1>1, <1>2, <2>1, IntervalNextLater DEF CalculateNextRun
<1>3. CASE schedulePolicy.type # "interval"
  <2>1. schedulePolicy.type = "daily" /\ Before <= After
    BY <1>3 DEF SchedInv, NoFallBack, Policies
  <2> QED BY <1>3, <2>1, DailyNextLater DEF CalculateNextRun, SchedInv
<1> QED BY <1>2, <1>3

\* So is the slot of a retry: every step of the backoff takes time.
LEMMA FailureNextRunLater ==
    ASSUME SchedInv, NEW count \in Nat
    PROVE  /\ CalculateFailureNextRun(schedulePolicy, utcNow, count) \in Int
           /\ CalculateFailureNextRun(schedulePolicy, utcNow, count) > utcNow
<1>1. utcNow \in Int BY ScheduleAssumption DEF SchedInv
<1>2. CASE RetryScheduled(count)
  <2> DEFINE i == IF count <= Len(Backoff) THEN count ELSE Len(Backoff)
  <2>1. Backoff # <<>> /\ count > 0 BY <1>2 DEF RetryScheduled
  <2>2. i \in 1..Len(Backoff) BY <2>1, ScheduleAssumption
  <2>3. Backoff[i] \in Nat \ {0} BY <2>2, ScheduleAssumption
  <2>4. CalculateFailureNextRun(schedulePolicy, utcNow, count) = utcNow + Backoff[i]
    BY <1>2 DEF CalculateFailureNextRun
  <2> QED BY <1>1, <2>3, <2>4
<1>3. CASE ~ RetryScheduled(count)
  BY <1>1, <1>3, NextRunLater DEF CalculateFailureNextRun
<1> QED BY <1>2, <1>3

-----------------------------------------------------------------------------
(* Steps *)

\* Every step keeps the slots that were used before the one that is waited for,
\* and moves next_run_at to the future only.
LEMMA SchedStep ==
    ASSUME SchedInv, [SchedulingNext]_scheduleVars
    PROVE  SchedInv' /\ (nextRun' # nextRun => nextRun' > utcNow)
<1>1. utcNow \in Int /\ Never \in Int BY ScheduleAssumption DEF SchedInv, Never
<1>2. CASE ApplySchedule
  BY <1>1, <1>2, NextRunLater DEF ApplySchedule, SchedInv, NoFallBack
<1>3. CASE Dispatch
  <2>1. nextRun' \in Int /\ nextRun' > utcNow BY <1>3, NextRunLater DEF Dispatch, SchedInv
  <2>2. /\ UNCHANGED <<schedulePolicy, utcNow, failureCount>>
        /\ dedupeKeys' = dedupeKeys \cup {DueKey} /\ nextRun <= utcNow
    BY <1>3 DEF Dispatch, Due
  <2>3. DueKey \in {"retry", "scheduled"} \X Int /\ DueKey[2] = nextRun
    BY DEF DueKey, SchedInv
  <2>4. \A k \in dedupeKeys : k[2] \in Int BY DEF SchedInv
  <2> QED BY <1>1, <2>1, <2>2, <2>3, <2>4 DEF SchedInv, NoFallBack
<1>4. CASE RunSucceeds
  BY <1>1, <1>4, NextRunLater DEF RunSucceeds, SchedInv, NoFallBack
<1>5. CASE RunFails
  <2>1. failureCount + 1 \in Nat BY DEF SchedInv
  <2>2. nextRun' \in Int /\ nextRun' > utcNow
    BY <1>5, <2>1, FailureNextRunLater DEF RunFails
  <2>3. UNCHANGED <<schedulePolicy, utcNow, dedupeKeys>> /\ failureCount' \in Nat
    BY <1>5, <2>1 DEF RunFails, SchedInv
  <2>4. \A k \in dedupeKeys : k[2] \in Int BY DEF SchedInv
  <2> QED BY <1>1, <2>2, <2>3, <2>4 DEF SchedInv, NoFallBack
<1>6. CASE ManualRun \/ UNCHANGED scheduleVars
  BY <1>6 DEF ManualRun, scheduleVars, SchedInv, NoFallBack
<1>7. CASE Tick
  <2>1. utcNow' \in 0..MaxTime /\ utcNow' = utcNow + 1
    BY <1>7, ScheduleAssumption DEF Tick, SchedInv
  <2>2. \A k \in dedupeKeys : k[2] \in Int BY DEF SchedInv
  <2> QED BY <1>1, <1>7, <2>1, <2>2 DEF Tick, SchedInv, NoFallBack
<1> QED BY <1>2, <1>3, <1>4, <1>5, <1>6, <1>7 DEF SchedulingNext

\* The invariant of the schedule.
LEMMA SchedInvariant == SchedulingSpec /\ NoFallBack => []SchedInv
<1>1. SchedulingInit /\ NoFallBack => SchedInv
  BY ScheduleAssumption DEF SchedulingInit, SchedInv, Never
<1>2. SchedInv /\ [SchedulingNext]_scheduleVars => SchedInv' BY SchedStep
<1> QED BY <1>1, <1>2, PTL DEF SchedulingSpec

\* Whatever computes next_run_at puts it after the clock: skipped slots, the
\* wall-clock jitter, a switch that skips time and every backoff included.
THEOREM NextRunInFutureHolds == SchedulingSpec /\ NoFallBack => NextRunInFuture
<1>1. SchedInv /\ [SchedulingNext]_scheduleVars
        => [nextRun' # nextRun => nextRun' > utcNow]_scheduleVars
  BY SchedStep
<1> QED BY <1>1, SchedInvariant, PTL DEF SchedulingSpec, NextRunInFuture

\* The dispatcher never finds the key of a due slot taken, so it never stops at
\* the unique constraint.
THEOREM DueSlotIsFreshHolds == SchedulingSpec /\ NoFallBack => []DueSlotIsFresh
<1>1. SchedInv => DueSlotIsFresh
  <2> SUFFICES ASSUME SchedInv, Due PROVE DueKey \notin dedupeKeys
    BY DEF DueSlotIsFresh
  <2>1. DueKey[2] = nextRun /\ nextRun \in Int /\ nextRun # Never BY DEF DueKey, Due, SchedInv
  <2> QED BY <2>1 DEF SchedInv
<1> QED BY <1>1, SchedInvariant, PTL
=============================================================================
