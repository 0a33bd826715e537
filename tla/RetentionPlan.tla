----------------------------- MODULE RetentionPlan -----------------------------
(***************************************************************************)
(* The retention planner (build_retention_plan), the daily dispatcher that *)
(* queues cleanups and the jobs that apply a plan, for the copies of one   *)
(* target in one storage, local or remote, while time passes and backups   *)
(* go on.  How a cleanup removes files and rows is in LocalCleanup and in  *)
(* Replication; here it is one step.                                       *)
(*                                                                         *)
(* A backup is numbered in the order of creation and stands for its run    *)
(* and, unless it failed, for its revision.  The calendar is scaled: a day *)
(* has DayTicks ticks, a week WeekDays days, a month MonthDays days.       *)
(***************************************************************************)
EXTENDS Naturals, FiniteSets, FiniteSetsExt

CONSTANTS
    MaxBackup,   \* bound: backups of the target
    MaxTick,     \* bound: the clock
    MaxCleanups, \* bound: cleanup jobs that wait at once
    DayTicks, WeekDays, MonthDays,
    LocalPolicies, RemotePolicies   \* RetentionPolicy, RemoteRetentionPolicy

\* The model of a policy; its numbers are PositiveIntegerField columns.
PolicyRecords == [keepAll : Nat, daily : Nat, weekly : Nat, monthly : Nat, minimum : Nat,
                  runDays : Nat, maxRuns : Nat, cap : Nat]

ASSUME PlanAssumption ==
    /\ MaxBackup \in Nat /\ MaxTick \in Nat
    /\ DayTicks \in Nat \ {0} /\ WeekDays \in Nat \ {0} /\ MonthDays \in Nat \ {0}
    /\ LocalPolicies \cup RemotePolicies \subseteq PolicyRecords

Backups == 1..MaxBackup
NoPolicy == [keepAll |-> 0, daily |-> 0, weekly |-> 0, monthly |-> 0, minimum |-> 0,
             runDays |-> 0, maxRuns |-> 0, cap |-> 0]

VARIABLES
    tick,         \* timezone.now()
    backup,       \* [at, status] of each backup; "none", "active", "changed", ...
    runRows,      \* BackupRun rows
    copies,       \* backups whose revision the storage has
    everCopied,   \* backups whose revision it ever had
    pinned,       \* ConfigRevision.protected
    policyOf,     \* the effective policy
    remote,       \* the storage is a remote one
    cleanups      \* cleanup jobs that wait

planVars == <<tick, backup, runRows, copies, everCopied, pinned, policyOf, remote, cleanups>>

Day == [t \in 0..MaxTick |-> t \div DayTicks]
Week == [t \in 0..MaxTick |-> Day[t] \div WeekDays]
Month == [t \in 0..MaxTick |-> Day[t] \div MonthDays]

-----------------------------------------------------------------------------
(* The planner *)

MadeAt(b) == backup[b].at

\* Newest first: by time of creation, then by number.
NewerThan(b, S) == {c \in S : MadeAt(c) > MadeAt(b) \/ (MadeAt(c) = MadeAt(b) /\ c > b)}

\* The first n in that order.
FirstOf(n, S) == {b \in S : Cardinality(NewerThan(b, S)) < n}

\* _mark_latest_per_bucket
LatestPerBucket(S, bucket) ==
    {b \in S : \A c \in NewerThan(b, S) : bucket[MadeAt(c)] # bucket[MadeAt(b)]}

\* _within_days, _within_weeks, _within_months: the bucket of now is the first.
Within(bucket, t, n) == bucket[tick] - bucket[t] < n

\* Latest and protected revisions.
Mandatory(S) == FirstOf(1, S) \cup (S \cap pinned)

\* The reasons of _plan_revisions to keep a revision.
Wanted(S) ==
    Mandatory(S)
    \cup FirstOf(policyOf.minimum, {b \in S : backup[b].status = "changed"})
    \cup {b \in S : policyOf.keepAll > 0 /\ MadeAt(b) + policyOf.keepAll * DayTicks >= tick}
    \cup LatestPerBucket({b \in S : Within(Day, MadeAt(b), policyOf.daily)}, Day)
    \cup LatestPerBucket({b \in S : Within(Week, MadeAt(b), policyOf.weekly)}, Week)
    \cup LatestPerBucket({b \in S : Within(Month, MadeAt(b), policyOf.monthly)}, Month)

\* Mutant: the cap leaves the newest, protected or not.
KeptNewest(S) == IF policyOf.cap = 0 THEN Wanted(S) ELSE FirstOf(policyOf.cap, Wanted(S))

\* What _plan_revisions keeps: a cap leaves the newest beside the mandatory ones.
KeptRevisions(S) ==
    LET mandatory == Mandatory(S)
        room == policyOf.cap - Min({policyOf.cap, Cardinality(mandatory)})
    IN  IF policyOf.cap = 0 THEN Wanted(S)
        ELSE mandatory \cup FirstOf(room, Wanted(S) \ mandatory)

\* _plan_runs: an active run stays, a completed one its days, up to maxRuns.
KeptRuns(S) ==
    LET active == {b \in S : backup[b].status = "active"}
        recent == {b \in S \ active : policyOf.runDays > 0
                                      /\ MadeAt(b) + policyOf.runDays * DayTicks >= tick}
    IN  active \cup FirstOf(policyOf.maxRuns, recent)

ExpiredRevisions == copies \ KeptRevisions(copies)
ExpiredRuns == IF remote THEN {} ELSE runRows \ KeptRuns(runRows)

ActiveBackup == \E b \in Backups : backup[b].status = "active"

-----------------------------------------------------------------------------
(* effective_local_retention_policy, effective_remote_retention_policy: a  *)
(* policy that the storage enforces, that of the device (for a local one   *)
(* also that of its backup policy), that of the storage, or none.          *)

FirstPolicy(chain) ==
    LET given == {i \in DOMAIN chain : chain[i] # NoPolicy}
    IN  IF given = {} THEN NoPolicy ELSE chain[Min(given)]

EffectiveLocal(enforce, storage, device, backupPolicy) ==
    FirstPolicy(<<IF enforce THEN storage ELSE NoPolicy, device, backupPolicy, storage>>)

EffectiveRemote(enforce, storage, device) ==
    FirstPolicy(<<IF enforce THEN storage ELSE NoPolicy, device, storage>>)

RetentionPlanInit ==
    /\ tick = 0
    /\ backup = [b \in Backups |-> [at |-> 0, status |-> "none"]]
    /\ runRows = {} /\ copies = {} /\ everCopied = {} /\ pinned = {}
    /\ \/ /\ remote = FALSE
          /\ \E enforce \in BOOLEAN, s, d, p \in LocalPolicies \cup {NoPolicy} :
                policyOf = EffectiveLocal(enforce, s, d, p)
       \/ /\ remote = TRUE
          /\ \E enforce \in BOOLEAN, s, d \in RemotePolicies \cup {NoPolicy} :
                policyOf = EffectiveRemote(enforce, s, d)
    /\ cleanups = 0

-----------------------------------------------------------------------------
PassTime ==
    /\ tick < MaxTick
    /\ tick' = tick + 1
    /\ UNCHANGED <<backup, runRows, copies, everCopied, pinned, policyOf, remote, cleanups>>

\* mark_running: one active run for a target.
StartBackup(b) ==
    /\ backup[b].status = "none"
    /\ \A c \in 1..(b - 1) : backup[c].status \notin {"none", "active"}
    /\ backup' = [backup EXCEPT ![b] = [at |-> tick, status |-> "active"]]
    /\ runRows' = runRows \cup {b}
    /\ UNCHANGED <<tick, copies, everCopied, pinned, policyOf, remote, cleanups>>

\* commit_revision or mark_failed.
EndBackup(b) ==
    /\ backup[b].status = "active"
    /\ \E status \in {"changed", "unchanged", "failed"} :
          /\ backup' = [backup EXCEPT ![b] = [at |-> tick, status |-> status]]
          /\ LET new == IF status = "failed" \/ remote THEN {} ELSE {b}
             IN  copies' = copies \cup new /\ everCopied' = everCopied \cup new
    /\ UNCHANGED <<tick, runRows, pinned, policyOf, remote, cleanups>>

\* A remote copy follows in any order; an expired one is never made again.
UploadCopy(b) ==
    /\ remote
    /\ backup[b].status \in {"changed", "unchanged"} /\ b \notin everCopied
    /\ copies' = copies \cup {b} /\ everCopied' = everCopied \cup {b}
    /\ UNCHANGED <<tick, backup, runRows, pinned, policyOf, remote, cleanups>>

\* An operator protects a revision.
Protect(b) ==
    /\ b \in copies
    /\ pinned = {}
    /\ pinned' = {b}
    /\ UNCHANGED <<tick, backup, runRows, copies, everCopied, policyOf, remote, cleanups>>

NothingExpired == ExpiredRevisions = {} /\ ExpiredRuns = {}

CleanupQueued ==
    /\ policyOf # NoPolicy
    /\ ~ ActiveBackup /\ ~ NothingExpired
    /\ cleanups' = cleanups + 1
    /\ UNCHANGED <<tick, backup, runRows, copies, everCopied, pinned, policyOf, remote>>

\* The dispatchers at this target: no cleanup of it may wait already.
DispatchExpired == ~ remote /\ cleanups = 0 /\ CleanupQueued
DispatchExpiredRemote == remote /\ cleanups = 0 /\ CleanupQueued

\* ScheduledRetentionDispatcherJob, once a day when the settings enable it.
RetentionDispatcher == DispatchExpired \/ DispatchExpiredRemote

\* BackupTargetRetentionCleanupView.post: a job may wait already.
CleanupView == ~ remote /\ cleanups < MaxCleanups /\ CleanupQueued

\* BackupTargetRemoteRetentionCleanupView.post
RemoteCleanupView == remote /\ cleanups < MaxCleanups /\ CleanupQueued

\* The plan is made anew under the lock of the target; a revision whose
\* replication goes on is deferred.  The job may fail as a whole.
CleanupRuns ==
    /\ cleanups > 0
    /\ cleanups' = cleanups - 1
    /\ \/ /\ ~ ActiveBackup
          /\ \E deferred \in SUBSET ExpiredRevisions :
                copies' = KeptRevisions(copies) \cup deferred
          /\ runRows' = runRows \ ExpiredRuns
       \/ UNCHANGED <<copies, runRows>>
    /\ UNCHANGED <<tick, backup, everCopied, pinned, policyOf, remote>>

RetentionCleanupJob == ~ remote /\ CleanupRuns
RemoteRetentionCleanupJob == remote /\ CleanupRuns

RetentionPlanNext ==
    \/ PassTime \/ RetentionDispatcher \/ CleanupView \/ RemoteCleanupView
    \/ RetentionCleanupJob \/ RemoteRetentionCleanupJob
    \/ \E b \in Backups : StartBackup(b) \/ EndBackup(b) \/ UploadCopy(b) \/ Protect(b)

-----------------------------------------------------------------------------
\* What a policy promises, at any moment and however the cleanups fell before:
\* each day, week and month of its windows that ever had a copy has one, and
\* so have the newest changed revisions; a cap may take those, but never the
\* newest copy nor a protected one.
PromisesKept ==
    /\ FirstOf(1, everCopied) \cup pinned \subseteq copies
    /\ policyOf.cap = 0 =>
          /\ \A b \in everCopied :
                /\ Day[tick] < Day[MadeAt(b)] + policyOf.daily
                      => \E c \in copies : Day[MadeAt(c)] = Day[MadeAt(b)]
                /\ Week[tick] < Week[MadeAt(b)] + policyOf.weekly
                      => \E c \in copies : Week[MadeAt(c)] = Week[MadeAt(b)]
                /\ Month[tick] < Month[MadeAt(b)] + policyOf.monthly
                      => \E c \in copies : Month[MadeAt(c)] = Month[MadeAt(b)]
          /\ FirstOf(policyOf.minimum, {b \in everCopied : backup[b].status = "changed"})
                \subseteq copies
=============================================================================
