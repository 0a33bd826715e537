----------------------------- MODULE Scheduling -----------------------------
(***************************************************************************)
(* When a backup target runs: the slot arithmetic of services/scheduling   *)
(* over UTC and wall-clock time, and the steps that move next_run_at (the  *)
(* dispatcher, a finished run, an operator's reschedule), for one target.  *)
(*                                                                         *)
(* Time is counted in whole units.  The zone of the target has one change  *)
(* of its UTC offset, as a daylight-saving switch: Before until the UTC    *)
(* instant Change, After from then on.                                     *)
(***************************************************************************)
EXTENDS Integers, Sequences

CONSTANTS
    DayLen,         \* units of a wall-clock day
    Before, After,  \* UTC offsets of the zone
    Change,         \* the UTC instant of the switch
    MaxJitter,      \* policy.jitter_minutes
    Intervals,      \* values of policy.interval_minutes
    Backoff,        \* policy.retry_backoff_minutes
    MaxRetries,     \* policy.max_retries
    MaxTime         \* bound: the last instant of the model

ASSUME ScheduleAssumption ==
    /\ DayLen \in Nat \ {0}
    /\ Before \in Int /\ After \in Int /\ Change \in Int
    /\ MaxJitter \in Nat
    /\ Intervals \subseteq Nat \ {0}
    /\ Backoff \in Seq(Nat \ {0})
    /\ MaxRetries \in Nat
    /\ MaxTime \in Nat

Never == -1     \* next_run_at IS NULL

VARIABLES
    schedulePolicy, \* schedule_type, interval, time of day, jitter of each date
    utcNow,         \* the clock, UTC
    nextRun,        \* BackupTarget.next_run_at, UTC
    targetStatus,   \* BackupTarget.status, as far as retries look at it
    failureCount,   \* BackupTarget.consecutive_failures
    runActive,      \* the target has a queued or running run
    dedupeKeys      \* dedupe keys of its runs: <<source, scheduled_for>>

scheduleVars ==
    <<schedulePolicy, utcNow, nextRun, targetStatus, failureCount, runActive, dedupeKeys>>

-----------------------------------------------------------------------------
(* The zone *)

\* datetime.astimezone(zone) of a UTC instant, as wall-clock time.
Local(u) == u + (IF u < Change THEN Before ELSE After)

\* astimezone(UTC) of a wall-clock time with fold = 0: an ambiguous or a
\* skipped wall-clock time takes the offset before the switch.
Utc(w) ==
    IF w - Before < Change \/ w - After < Change THEN w - Before ELSE w - After

-----------------------------------------------------------------------------
(* Pure slot arithmetic *)

\* Mutant: a slot that is exactly now counts as future.
PassedStrictly(candidate, reference) == candidate < reference

\* The comparison of both schedule types: a slot at the reference is gone.
Passed(candidate, reference) == candidate <= reference

IntervalNext(interval, after, reference) ==
    LET candidate == after + interval
        missed == ((reference - candidate) \div interval) + 1
    IN IF Passed(candidate, reference) THEN candidate + missed * interval
                                      ELSE candidate

\* _daily_candidate: wall-clock addition of the jitter of that date.
DailyCandidate(p, date) == date * DayLen + p.timeOfDay + p.jitter[date]

\* Both datetimes carry the zone, so Python compares their wall-clock values.
DailyNext(p, reference) ==
    LET local == Local(reference)
        date == local \div DayLen
        today == DailyCandidate(p, date)
    IN Utc(IF Passed(today, local) THEN DailyCandidate(p, date + 1) ELSE today)

CalculateNextRun(p, after, reference) ==
    IF p.type = "interval" THEN IntervalNext(p.interval, after, reference)
                           ELSE DailyNext(p, reference)

\* is_retry_scheduled, and the first condition of calculate_failure_next_run.
RetryScheduled(count) == Backoff # <<>> /\ 0 < count /\ count <= MaxRetries

CalculateFailureNextRun(p, failedAt, count) ==
    IF RetryScheduled(count)
    THEN failedAt + Backoff[IF count <= Len(Backoff) THEN count ELSE Len(Backoff)]
    ELSE CalculateNextRun(p, failedAt, failedAt)

-----------------------------------------------------------------------------
Dates == (Local(0) \div DayLen) .. ((Local(MaxTime) \div DayLen) + 1)

Policies ==
    [type : {"interval"}, interval : Intervals]
    \cup [type : {"daily"}, timeOfDay : 0..(DayLen - 1),
          jitter : [Dates -> 0..MaxJitter]]

SchedulingInit ==
    /\ schedulePolicy \in Policies
    /\ utcNow = 0
    /\ nextRun = Never
    /\ targetStatus = "never"
    /\ failureCount = 0
    /\ runActive = FALSE
    /\ dedupeKeys = {}

\* The dedupe key dispatch_due_targets gives the run of the due slot.
DueKey ==
    << IF targetStatus = "failed" /\ RetryScheduled(failureCount) THEN "retry"
                                                        ELSE "scheduled",
       nextRun >>

Due == nextRun # Never /\ nextRun <= utcNow

\* initialize_target_schedules, or an operator's reschedule or edit: both end
\* in apply_target_schedule.
ApplySchedule ==
    /\ nextRun' = CalculateNextRun(schedulePolicy, utcNow, utcNow)
    /\ UNCHANGED <<schedulePolicy, utcNow, targetStatus, failureCount, runActive, dedupeKeys>>

\* A due slot becomes a run; a key that exists already raises IntegrityError
\* and rolls the transaction back, the new next_run_at included.
Dispatch ==
    /\ Due
    /\ ~ runActive
    /\ DueKey \notin dedupeKeys
    /\ dedupeKeys' = dedupeKeys \cup {DueKey}
    /\ nextRun' = CalculateNextRun(schedulePolicy, nextRun, utcNow)
    /\ runActive' = TRUE
    /\ UNCHANGED <<schedulePolicy, utcNow, targetStatus, failureCount>>

\* commit_revision or commit_unchanged, with _mark_target_success.
RunSucceeds ==
    /\ runActive
    /\ runActive' = FALSE
    /\ failureCount' = 0
    /\ targetStatus' = "healthy"
    /\ nextRun' = IF nextRun = Never THEN CalculateNextRun(schedulePolicy, utcNow, utcNow)
                                     ELSE nextRun
    /\ UNCHANGED <<schedulePolicy, utcNow, dedupeKeys>>

\* consecutive_failures saturates one above MaxRetries: more changes nothing.
RunFails ==
    /\ runActive
    /\ runActive' = FALSE
    /\ failureCount' = IF failureCount > MaxRetries THEN failureCount ELSE failureCount + 1
    /\ targetStatus' = "failed"
    /\ nextRun' = CalculateFailureNextRun(schedulePolicy, utcNow, failureCount + 1)
    /\ UNCHANGED <<schedulePolicy, utcNow, dedupeKeys>>

\* A manual backup has no dedupe key.
ManualRun ==
    /\ ~ runActive
    /\ runActive' = TRUE
    /\ UNCHANGED <<schedulePolicy, utcNow, nextRun, targetStatus, failureCount, dedupeKeys>>

Tick ==
    /\ utcNow < MaxTime
    /\ utcNow' = utcNow + 1
    /\ UNCHANGED <<schedulePolicy, nextRun, targetStatus, failureCount, runActive, dedupeKeys>>

SchedulingNext ==
    \/ ApplySchedule \/ Dispatch \/ RunSucceeds \/ RunFails \/ ManualRun
    \/ Tick

SchedulingSpec == SchedulingInit /\ [][SchedulingNext]_scheduleVars

-----------------------------------------------------------------------------
(* Properties *)

\* calculate_next_run: "the next regular run strictly after now".  Whatever
\* computes next_run_at puts it after the clock.
NextRunInFuture == [][nextRun' # nextRun => nextRun' > utcNow]_scheduleVars

\* A due target without an active run can be dispatched: the slot it waits for
\* was never used.  If it had been, the dispatcher would run into the unique
\* constraint every minute and never move next_run_at again.
DueSlotIsFresh == Due /\ ~runActive => DueKey \notin dedupeKeys
=============================================================================
