---------------------------- MODULE TargetHealth ----------------------------
(***************************************************************************)
(* The health columns of one BackupTarget row and everybody who writes     *)
(* them: the worker's commit_revision, commit_unchanged and mark_failed    *)
(* (under the row lock), the minutely refresh_target_health (a snapshot    *)
(* read without a lock and written back with bulk_update), and the web     *)
(* requests that load the row, compute and save it: apply_target_schedule  *)
(* (its update_fields hold the status) and the edit form (all columns).    *)
(*                                                                         *)
(* Results are numbered by the commits so far, so last_success is a        *)
(* number, 0 for NULL.  The event of a result is emitted by an on-commit   *)
(* hook, a step of its own that may be late or never happen.               *)
(***************************************************************************)
EXTENDS Naturals

CONSTANTS
    MaxCommits,         \* bound: results of backup runs
    MaxSessions,        \* bound: requests that save the row or its policy
    NotifyEveryFailure  \* the runtime control notify_on_every_failure

ASSUME HealthAssumption ==
    /\ MaxCommits \in Nat
    /\ MaxSessions \in Nat
    /\ NotifyEveryFailure \in BOOLEAN

VARIABLES
    row,        \* the BackupTarget row
    commits,    \* results committed so far
    late,       \* the deadlines of the successes below this one have passed
    policyOn,   \* target.policy_override is set and enabled
    snap,       \* what the running refresh_target_health is about to write
    form,       \* the row as a web request loaded it
    sessions,   \* requests so far
    pending,    \* events of committed results that are not emitted yet
    open,       \* the last event emitted told of trouble, not of a recovery
    unsaid      \* why the incident under way may be unknown to its readers

vars == <<row, commits, late, policyOn, snap, form, sessions, pending, open, unsaid>>
eventVars == <<pending, open, unsaid>>
webVars == <<policyOn, form, sessions>>

TargetStatuses == {"never", "healthy", "failed", "stale", "disabled"}

NoForm == [kind |-> "none"]

-----------------------------------------------------------------------------
(* Pure readings of a row *)

\* The status of a target nothing is wrong with.
Quiet(r) == IF r.success > 0 THEN "healthy" ELSE "never"

\* Mutant: only the stored status tells of a failure.
EvaluateStatusOnly(r) ==
    IF ~ r.enabled THEN "disabled"
    ELSE IF r.status = "failed" THEN "failed"
    ELSE IF policyOn /\ r.success < late THEN "stale" ELSE Quiet(r)

EvaluateTargetHealth(r) ==
    IF ~ r.enabled THEN "disabled"
    ELSE IF r.failures > 0 \/ r.status = "failed" THEN "failed"
    ELSE IF policyOn /\ r.success < late THEN "stale" ELSE Quiet(r)

\* The status apply_target_schedule gives the row it was handed.
ScheduledStatus(r) ==
    IF ~ r.enabled THEN "disabled"
    ELSE IF r.status # "disabled" THEN r.status
    ELSE IF r.failures > 0 THEN "failed" ELSE Quiet(r)

TargetWasUnhealthy(r) == r.failures > 0 \/ r.status \in {"failed", "stale"}

-----------------------------------------------------------------------------
Init ==
    /\ row = [enabled |-> TRUE, status |-> "never", failures |-> 0,
              success |-> 0]
    /\ commits = 0
    /\ late = 0
    /\ policyOn \in BOOLEAN
    /\ snap = "none"
    /\ form = NoForm
    /\ sessions = 0
    /\ pending = {}
    /\ open = FALSE
    /\ unsaid = {}

-----------------------------------------------------------------------------
(* The worker, under the row lock *)

\* _mark_target_success
MarkTargetSuccess(r, n) == [r EXCEPT !.status = "healthy", !.failures = 0, !.success = n]

\* queue_run_event registers a hook of the transaction.
QueueRunEvent(kind, queued) ==
    pending' = IF queued THEN pending \cup {[n |-> commits + 1, kind |-> kind]} ELSE pending

\* commit_revision or commit_unchanged.  The incident, if there was one, ends.
CommitSuccess ==
    /\ commits < MaxCommits
    /\ commits' = commits + 1
    /\ row' = MarkTargetSuccess(row, commits + 1)
    /\ QueueRunEvent("recovered", TargetWasUnhealthy(row))
    /\ unsaid' = {}
    /\ UNCHANGED <<late, snap, open, webVars>>

\* Mutant: the comparison comes after the increment.
FirstFailureLate(r) == r.failures = 1

\* first_failure of mark_failed, read before the increment.
FirstFailure(r) == r.failures = 0

MarkFailed ==
    /\ commits < MaxCommits
    /\ commits' = commits + 1
    /\ row' = [row EXCEPT !.status = "failed", !.failures = @ + 1]
    /\ QueueRunEvent("failed", FirstFailure(row) \/ NotifyEveryFailure)
    /\ UNCHANGED <<late, snap, open, unsaid, webVars>>

\* _emit_run_event_safely, in the hook.  Workers run their hooks after they
\* released the row, so a recovery may be emitted after a newer failure.
EmitRunEvent(e) ==
    /\ e \in pending
    /\ pending' = pending \ {e}
    /\ open' = (e.kind = "failed")
    /\ unsaid' = IF e.kind = "recovered" /\ row.failures > 0
                 THEN unsaid \cup {"overtaken"} ELSE unsaid
    /\ UNCHANGED <<row, commits, late, snap, webVars>>

\* Nothing is emitted: events are disabled (queue_run_event returns), the
\* emission raises and is logged only, or the process dies before its hook.
DropRunEvent(e) ==
    /\ e \in pending
    /\ pending' = pending \ {e}
    /\ unsaid' = IF e.kind = "failed" THEN unsaid \cup {"dropped"} ELSE unsaid
    /\ UNCHANGED <<row, commits, late, snap, open, webVars>>

-----------------------------------------------------------------------------
(* refresh_target_health *)

\* All rows are read and evaluated; only the differing ones are written.
RefreshRead ==
    /\ snap = "none"
    /\ EvaluateTargetHealth(row) # row.status
    /\ snap' = EvaluateTargetHealth(row)
    /\ UNCHANGED <<row, commits, late, eventVars, webVars>>

\* bulk_update of the status.
RefreshWrite ==
    /\ snap \in TargetStatuses
    /\ row' = [row EXCEPT !.status = snap]
    /\ snap' = IF snap = "stale" THEN "announce" ELSE "none"
    /\ UNCHANGED <<commits, late, eventVars, webVars>>

\* queue_target_event, after the update and outside its transaction.
RefreshAnnounce ==
    /\ snap = "announce"
    /\ open' = TRUE
    /\ snap' = "none"
    /\ UNCHANGED <<row, commits, late, pending, unsaid, webVars>>

\* The system job dies, or its event is not emitted.
RefreshCrash ==
    /\ snap # "none"
    /\ snap' = "none"
    /\ UNCHANGED <<row, commits, late, eventVars, webVars>>

-----------------------------------------------------------------------------
(* Web requests *)

\* The reschedule view, the policy form or initialize_target_schedules load
\* the row ("schedule"), or the edit form does ("edit").
LoadRow(kind) ==
    /\ form = NoForm
    /\ sessions < MaxSessions
    /\ sessions' = sessions + 1
    /\ form' = [kind |-> kind, row |-> row]
    /\ UNCHANGED <<row, commits, late, policyOn, snap, eventVars>>

\* apply_target_schedule saves the status it computed from the loaded row.
SaveSchedule ==
    /\ form.kind = "schedule"
    /\ row' = [row EXCEPT !.status = ScheduledStatus(form.row)]
    /\ form' = NoForm
    /\ UNCHANGED <<commits, late, policyOn, snap, sessions, eventVars>>

\* BackupTargetForm.save: every column of the loaded row, then the schedule,
\* in one transaction.
SaveEdit(enabled) ==
    /\ form.kind = "edit"
    /\ LET edited == [form.row EXCEPT !.enabled = enabled]
       IN row' = [edited EXCEPT !.status = ScheduledStatus(edited)]
    /\ unsaid' = IF row.success # form.row.success \/ row.failures # form.row.failures
                 THEN unsaid \cup {"lost"} ELSE unsaid
    /\ form' = NoForm
    /\ UNCHANGED <<commits, late, policyOn, snap, sessions, pending, open>>

\* The policy is enabled or disabled; the schedules of its targets follow in
\* a "schedule" request.
TogglePolicy ==
    /\ sessions < MaxSessions
    /\ sessions' = sessions + 1
    /\ policyOn' = ~ policyOn
    /\ UNCHANGED <<row, commits, late, snap, form, eventVars>>

\* The deadline counted from the oldest success that still had time passes.
DeadlinePasses ==
    /\ late <= commits
    /\ late' = late + 1
    /\ UNCHANGED <<row, commits, snap, eventVars, webVars>>

-----------------------------------------------------------------------------
Next ==
    \/ CommitSuccess
    \/ MarkFailed
    \/ \E e \in pending : EmitRunEvent(e) \/ DropRunEvent(e)
    \/ RefreshRead \/ RefreshWrite \/ RefreshAnnounce \/ RefreshCrash
    \/ \E kind \in {"schedule", "edit"} : LoadRow(kind)
    \/ SaveSchedule
    \/ \E enabled \in BOOLEAN : SaveEdit(enabled)
    \/ TogglePolicy
    \/ DeadlinePasses

Spec == Init /\ [][Next]_vars

\* The system job runs every minute, and does not die every time it writes.
FairSpec ==
    /\ Spec
    /\ WF_vars(RefreshRead)
    /\ SF_vars(RefreshWrite)
    /\ WF_vars(RefreshAnnounce)

-----------------------------------------------------------------------------
(* Properties *)

\* A target with failed attempts was announced as failed, or its event is on
\* the way, although only the first failure of a row of them announces: the
\* counter that decides is never above zero unannounced.  Since the target's
\* last success, one of these may have happened instead: the event was dropped,
\* a late recovery was emitted after it, or an edit brought an old counter back.
FailureAnnounced ==
    row.failures > 0 /\ unsaid = {} => open \/ \E e \in pending : e.kind = "failed"

\* An enabled target whose latest attempts failed is shown as failed in the
\* end, although a refresh or a reschedule may have written over it.
FailureShown ==
    <>[](row.enabled /\ row.failures > 0) => <>[](row.status = "failed")

\* README: the target becomes Stale after the deadline; only a latest failed
\* attempt takes precedence.
StaleShown ==
    <>[](row.enabled /\ policyOn /\ row.failures = 0 /\ row.success < late)
        => <>[](row.status = "stale")
=============================================================================
