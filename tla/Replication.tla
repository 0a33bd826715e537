----------------------------- MODULE Replication -----------------------------
(***************************************************************************)
(* One RevisionReplica: the copy of a revision on one remote storage.  Who *)
(* changes it: enqueue_revision_replica (new revision, unchanged backup,   *)
(* backfill, operator, retry), the DestinationReplicationJob that executes *)
(* execute_revision_replica, the minutely dispatcher with its stale-job    *)
(* reconciliation, and remote retention, which deletes the copy while it   *)
(* holds the lock of the row.                                              *)
(*                                                                         *)
(* Every transaction.atomic block is a step, except the cleanup's, which   *)
(* talks to the server inside its transaction: the lock it holds is the    *)
(* variable clean.  Remote files and the network are the variable copy.    *)
(***************************************************************************)
EXTENDS Naturals, FiniteSets

CONSTANTS
    Jobs,           \* the supply of replication jobs
    NoJob,          \* the SQL NULL of job_id
    MaxRetries      \* BackupDestination.max_retries

ASSUME ReplicationAssumption ==
    /\ NoJob \notin Jobs
    /\ MaxRetries \in Nat

VARIABLES
    status,     \* RevisionReplica.status, "absent" before the row exists
    attempts,   \* attempts
    retry,      \* next_retry_at against the clock
    path,       \* remote_path is recorded
    available,  \* remote_available
    expired,    \* remote_deleted_at is set: the tombstone of retention
    jobId,      \* job_id
    old,        \* queued_at or started_at is older than the cutoff
    core,       \* status of each Core Job
    pc,         \* where each job's worker is
    copy,       \* the files in the recorded directory of the server
    intact,     \* nobody but replication touched them since the last upload
    destOn,     \* BackupDestination.enabled
    picked,     \* dispatch_due_replicas read the replica as due
    cand,       \* the job_id reconcile_stale_replicas read
    clean,      \* remote retention holds the row and deletes, or has
    raced,      \* a reconciliation hit a replica that had moved on
    orphaned    \* a job died, or was never pushed to Redis

replicaVars == <<status, attempts, retry, path, available, expired, jobId, old>>
jobVars == <<core, pc>>
serverVars == <<copy, intact>>
dispVars == <<picked, cand>>
history == <<raced, orphaned>>
vars == <<replicaVars, jobVars, serverVars, destOn, dispVars, clean, history>>

Active == {"queued", "running"}

\* JobStatusChoices.ENQUEUED_STATE_CHOICES
EnqueuedStates == {"pending", "running"}

\* The worker writes to the server, or has and is about to say so.
Uploading == {"upload", "succeed"}

Executing == Uploading \cup {"start", "fail", "end"}

\* The cleanup's transaction has the row.
Locked == clean # "no"

JobsLeft == \E j \in Jobs : core[j] = "absent"

-----------------------------------------------------------------------------
Init ==
    /\ status = "absent"
    /\ attempts = 0
    /\ retry = "none"
    /\ path = FALSE
    /\ available = FALSE
    /\ expired = FALSE
    /\ jobId = NoJob
    /\ old = FALSE
    /\ core = [j \in Jobs |-> "absent"]
    /\ pc = [j \in Jobs |-> "none"]
    /\ copy = "none"
    /\ intact = TRUE
    /\ destOn \in BOOLEAN
    /\ picked = FALSE
    /\ cand = NoJob
    /\ clean = "no"
    /\ raced = FALSE
    /\ orphaned = FALSE

-----------------------------------------------------------------------------
(* Creating and queueing *)

\* get_or_create in create_revision_replicas, ensure_revision_replicas and
\* backfill_destination; the enqueueing is a transaction of its own.
CreateReplica ==
    /\ status = "absent"
    /\ status' = "pending"
    /\ UNCHANGED <<attempts, retry, path, available, expired, jobId, old,
                   jobVars, serverVars, destOn, dispVars, clean, history>>

\* The early returns of enqueue_revision_replica, under the row lock.
MayEnqueue(force) ==
    /\ ~ Locked
    /\ destOn
    /\ ~ expired
    /\ status \notin Active \cup {"absent"}
    /\ force \/ status # "success"

\* The job is pushed to Redis after the commit, or lost there.
EnqueueRevisionReplica(j, force) ==
    /\ MayEnqueue(force)
    /\ core[j] = "absent"
    /\ status' = "queued"
    /\ retry' = "none"
    /\ available' = FALSE
    /\ old' = FALSE
    /\ jobId' = j
    /\ core' = [core EXCEPT ![j] = "pending"]
    /\ \E pushed \in BOOLEAN :
          /\ pc' = [pc EXCEPT ![j] = IF pushed THEN "queued" ELSE "none"]
          /\ orphaned' = (orphaned \/ ~ pushed)
    /\ UNCHANGED <<attempts, path, expired, serverVars, destOn, cand, clean, raced>>

\* The replica just created.
EnqueueNew(j) ==
    /\ status = "pending"
    /\ EnqueueRevisionReplica(j, FALSE)
    /\ UNCHANGED picked

\* The operator's Retry, or the repair after an unchanged backup: the state
\* was looked at without a lock, enqueue_revision_replica looks again.
EnqueueForced(j) ==
    /\ EnqueueRevisionReplica(j, TRUE)
    /\ UNCHANGED picked

\* Mutant: a failed replica is left to the operator.
DueForDispatchPending == status = "pending"

\* The status filter of dispatch_due_replicas.
DueForDispatch == status = "pending" \/ (status = "failed" /\ retry = "due")

\* dispatch_due_replicas reads its candidates ...
DispatchRead ==
    /\ ~ picked
    /\ destOn
    /\ ~ expired
    /\ DueForDispatch
    /\ picked' = TRUE
    /\ UNCHANGED <<replicaVars, jobVars, serverVars, destOn, cand, clean, history>>

\* ... and queues them one by one.
DispatchEnqueue(j) ==
    /\ picked
    /\ picked' = FALSE
    /\ EnqueueRevisionReplica(j, FALSE)

DispatchSkip ==
    /\ picked
    /\ ~ Locked
    /\ ~ (MayEnqueue(FALSE) /\ JobsLeft)
    /\ picked' = FALSE
    /\ UNCHANGED <<replicaVars, jobVars, serverVars, destOn, cand, clean, history>>

-----------------------------------------------------------------------------
(* DestinationReplicationJob *)

Take(j) ==
    /\ pc[j] = "queued"
    /\ pc' = [pc EXCEPT ![j] = "start"]
    /\ core' = [core EXCEPT ![j] = "running"]
    /\ UNCHANGED <<replicaVars, serverVars, destOn, dispVars, clean, history>>

\* The conditions of _mark_running.
Ready ==
    /\ destOn
    /\ ~ expired
    /\ status \in {"pending", "queued", "failed"}

\* Mutant: the path is left to _mark_success.
MarkRunningPathless(j) ==
    /\ pc[j] = "start"
    /\ ~ Locked
    /\ Ready
    /\ status' = "running"
    /\ attempts' = attempts + 1
    /\ available' = FALSE
    /\ old' = FALSE
    /\ pc' = [pc EXCEPT ![j] = "upload"]
    /\ UNCHANGED <<retry, path, expired, jobId, core, serverVars, destOn, dispVars,
                   clean, history>>

\* _mark_running: the path is recorded before anything is written.
MarkRunning(j) ==
    /\ pc[j] = "start"
    /\ ~ Locked
    /\ Ready
    /\ status' = "running"
    /\ path' = TRUE
    /\ attempts' = attempts + 1
    /\ available' = FALSE
    /\ old' = FALSE
    /\ pc' = [pc EXCEPT ![j] = "upload"]
    /\ UNCHANGED <<retry, expired, jobId, core, serverVars, destOn, dispVars,
                   clean, history>>

\* _mark_running raises outside the try: the row stays as it is.
MarkRunningRaises(j) ==
    /\ pc[j] = "start"
    /\ ~ Locked
    /\ ~ Ready
    /\ pc' = [pc EXCEPT ![j] = "end"]
    /\ UNCHANGED <<replicaVars, core, serverVars, destOn, dispVars, clean, history>>

\* replicate_revision has created the directory and some of the files.
UploadSome(j) ==
    /\ pc[j] = "upload"
    /\ copy = "none"
    /\ copy' = "part"
    /\ UNCHANGED <<replicaVars, jobVars, intact, destOn, dispVars, clean, history>>

\* replicate_revision has uploaded and verified all files.
UploadAll(j) ==
    /\ pc[j] = "upload"
    /\ copy' = "whole"
    /\ intact' = TRUE
    /\ pc' = [pc EXCEPT ![j] = "succeed"]
    /\ UNCHANGED <<replicaVars, core, destOn, dispVars, clean, history>>

\* Mutant: the error is only logged.
UploadFailsLogged(j) ==
    /\ pc[j] = "upload"
    /\ pc' = [pc EXCEPT ![j] = "succeed"]
    /\ UNCHANGED <<replicaVars, core, serverVars, destOn, dispVars, clean, history>>

\* A DestinationError or any other exception, the job's timeout included.
UploadFails(j) ==
    /\ pc[j] = "upload"
    /\ pc' = [pc EXCEPT ![j] = "fail"]
    /\ UNCHANGED <<replicaVars, core, serverVars, destOn, dispVars, clean, history>>

\* _mark_success looks neither at the status nor at the tombstone.
MarkSuccess(j) ==
    /\ pc[j] = "succeed"
    /\ ~ Locked
    /\ status' = "success"
    /\ retry' = "none"
    /\ available' = TRUE
    /\ expired' = FALSE
    /\ pc' = [pc EXCEPT ![j] = "end"]
    /\ UNCHANGED <<attempts, path, jobId, old, core, serverVars, destOn,
                   dispVars, clean, history>>

\* The row as _mark_failed leaves it.
FailReplica ==
    /\ ~ Locked
    /\ status' = "failed"
    /\ available' = FALSE
    /\ retry' = IF attempts <= MaxRetries THEN "future" ELSE "none"
    /\ UNCHANGED <<attempts, path, expired, jobId, old>>

MarkFailed(j) ==
    /\ pc[j] = "fail"
    /\ FailReplica
    /\ pc' = [pc EXCEPT ![j] = "end"]
    /\ UNCHANGED <<core, serverVars, destOn, dispVars, clean, history>>

\* _mark_success or _mark_failed itself raises: the row stays running.
ReportRaises(j) ==
    /\ pc[j] \in {"succeed", "fail"}
    /\ pc' = [pc EXCEPT ![j] = "end"]
    /\ UNCHANGED <<replicaVars, core, serverVars, destOn, dispVars, clean, history>>

JobEnd(j) ==
    /\ pc[j] = "end"
    /\ pc' = [pc EXCEPT ![j] = "done"]
    /\ core' = [core EXCEPT ![j] = "ended"]
    /\ UNCHANGED <<replicaVars, serverVars, destOn, dispVars, clean, history>>

\* The worker is killed: nobody ends the Core Job.
WorkerCrash(j) ==
    /\ pc[j] \in Executing
    /\ pc' = [pc EXCEPT ![j] = "done"]
    /\ orphaned' = TRUE
    /\ UNCHANGED <<replicaVars, core, serverVars, destOn, dispVars, clean, raced>>

-----------------------------------------------------------------------------
(* reconcile_stale_replicas *)

\* Mutant: only started replicas can become stale.
StaleRunning == status = "running" /\ old

\* The status and age filter of reconcile_stale_replicas.
Stale == status \in Active /\ old

\* The candidates are read once, without a lock, with their job_id.
ReconcileRead ==
    /\ cand = NoJob
    /\ Stale
    /\ ~ expired
    /\ cand' = jobId
    /\ UNCHANGED <<replicaVars, jobVars, serverVars, destOn, picked, clean, history>>

\* Mutant: a Core Job that waits in the queue does not protect its replica.
LiveJobRunning == core[cand] = "running"

\* The Core Job read for the candidate may still do its work.
LiveJob == core[cand] \in EnqueuedStates

ReconcileSkip ==
    /\ cand # NoJob
    /\ LiveJob
    /\ cand' = NoJob
    /\ UNCHANGED <<replicaVars, jobVars, serverVars, destOn, picked, clean, history>>

\* _mark_failed(STALE_REPLICA) without another look at the replica.
ReconcileFail ==
    /\ cand # NoJob
    /\ ~ LiveJob
    /\ FailReplica
    /\ raced' = (raced \/ status \notin Active \/ jobId # cand)
    /\ cand' = NoJob
    /\ UNCHANGED <<jobVars, serverVars, destOn, picked, clean, orphaned>>

-----------------------------------------------------------------------------
(* execute_remote_retention_cleanup, for a revision its plan has expired *)

\* Mutant: every recorded path is eligible, that of a transfer too.
EligiblePath == path

\* The replicas the cleanup deletes; the others are deferred.
Eligible ==
    \/ status = "success" /\ available
    \/ status = "failed" /\ path /\ retry = "none"

CleanupBegin ==
    /\ ~ Locked
    /\ destOn
    /\ ~ expired
    /\ Eligible
    /\ clean' = "delete"
    /\ UNCHANGED <<replicaVars, jobVars, serverVars, destOn, dispVars, history>>

\* delete_revision_replica removes file after file, then the directory.
CleanupDelete ==
    /\ clean = "delete"
    /\ copy # "none"
    /\ copy' \in {"part", "none"} \ (IF copy = "part" THEN {"part"} ELSE {})
    /\ intact' = FALSE
    /\ UNCHANGED <<replicaVars, jobVars, destOn, dispVars, clean, history>>

\* It has found nothing left and returns.
CleanupReturns ==
    /\ clean = "delete"
    /\ copy = "none"
    /\ clean' = "deleted"
    /\ UNCHANGED <<replicaVars, jobVars, serverVars, destOn, dispVars, history>>

\* The tombstone is committed, without another look at the server.  (Whether
\* the answer to the COMMIT arrives makes no difference to the row.)
CleanupCommit ==
    /\ clean = "deleted"
    /\ clean' = "no"
    /\ available' = FALSE
    /\ expired' = TRUE
    /\ retry' = "none"
    /\ jobId' = NoJob
    /\ UNCHANGED <<status, attempts, path, old, jobVars, serverVars, destOn,
                   dispVars, history>>

\* An error of the server, or the death of the process: the transaction is
\* rolled back, what was deleted stays deleted.
CleanupFails ==
    /\ Locked
    /\ clean' = "no"
    /\ UNCHANGED <<replicaVars, jobVars, serverVars, destOn, dispVars, history>>

-----------------------------------------------------------------------------
(* Operators, servers and clocks *)

\* The destination is switched on or off; the cleanup has its row locked.
ToggleDestination ==
    /\ ~ Locked
    /\ destOn' = ~ destOn
    /\ UNCHANGED <<replicaVars, jobVars, serverVars, dispVars, clean, history>>

\* The server loses files.
ServerLoses ==
    /\ copy # "none"
    /\ copy' \in {"part", "none"}
    /\ intact' = FALSE
    /\ UNCHANGED <<replicaVars, jobVars, destOn, dispVars, clean, history>>

RetryComesDue ==
    /\ retry = "future"
    /\ retry' = "due"
    /\ UNCHANGED <<status, attempts, path, available, expired, jobId, old,
                   jobVars, serverVars, destOn, dispVars, clean, history>>

ReplicaAges ==
    /\ status \in Active
    /\ ~ old
    /\ old' = TRUE
    /\ UNCHANGED <<status, attempts, retry, path, available, expired, jobId,
                   jobVars, serverVars, destOn, dispVars, clean, history>>

-----------------------------------------------------------------------------
Worker(j) ==
    \/ Take(j) \/ MarkRunning(j) \/ MarkRunningRaises(j)
    \/ UploadSome(j) \/ UploadAll(j) \/ UploadFails(j)
    \/ MarkSuccess(j) \/ MarkFailed(j) \/ ReportRaises(j) \/ JobEnd(j)

Reconciler == ReconcileRead \/ ReconcileSkip \/ ReconcileFail

Dispatcher ==
    DispatchRead \/ DispatchSkip \/ \E j \in Jobs : DispatchEnqueue(j)

Cleanup ==
    CleanupBegin \/ CleanupDelete \/ CleanupReturns \/ CleanupCommit \/ CleanupFails

Next ==
    \/ CreateReplica
    \/ \E j \in Jobs : EnqueueNew(j) \/ EnqueueForced(j)
    \/ \E j \in Jobs : Worker(j) \/ WorkerCrash(j)
    \/ Reconciler
    \/ Dispatcher
    \/ Cleanup
    \/ ToggleDestination \/ ServerLoses
    \/ RetryComesDue \/ ReplicaAges

Spec == Init /\ [][Next]_vars

\* Workers (an upload ends, if only by the timeout of its job), the minutely
\* system job and the cleanup's transaction go on, the row lock is not held
\* for ever, and time passes.
FairSpec ==
    /\ Spec
    /\ \A j \in Jobs : /\ SF_vars(Worker(j))
                       /\ SF_vars(UploadAll(j) \/ UploadFails(j))
    /\ WF_vars(ReconcileRead)
    /\ SF_vars(ReconcileSkip \/ ReconcileFail)
    /\ SF_vars(DispatchRead)
    /\ SF_vars(DispatchSkip \/ \E j \in Jobs : DispatchEnqueue(j))
    /\ WF_vars(CleanupDelete \/ CleanupReturns \/ CleanupCommit)
    /\ WF_vars(RetryComesDue)
    /\ WF_vars(ReplicaAges)

-----------------------------------------------------------------------------
(* Properties *)

\* As long as no reconciliation acted on an outdated reading, two jobs never
\* upload the same copy at the same time.
ExclusiveUpload ==
    ~ raced => \A j, k \in Jobs :
                  pc[j] \in Uploading /\ pc[k] \in Uploading => j = k

\* Remote retention and a transfer exclude each other: nothing is uploaded
\* while the cleanup deletes, and once the tombstone stands there is neither a
\* copy nor a job that could still write one and clear the tombstone.
ExpiredStaysGone ==
    ~ raced =>
        /\ expired => copy = "none"
        /\ Locked \/ expired => \A j \in Jobs : pc[j] \notin Uploading

\* What the row says of the copy.  The tombstone is only as good as the
\* exclusion of transfers: the cleanup does not look at the server again before
\* it commits, so that after a raced reconciliation, when a second job may be
\* uploading, a tombstone says nothing.
Claim ==
    IF expired THEN IF raced THEN "none" ELSE "gone"
    ELSE IF available THEN "stored" ELSE "none"

Abstract == INSTANCE RemoteCopy WITH claim <- Claim

\* The row and its jobs implement the promise of RemoteCopy: a copy that is
\* said to be available was complete when that was said, whatever crashed or
\* was reconciled, and nothing was left of one that is said to have expired,
\* unless a reconciliation acted on an outdated reading before.
ReplicationImplementsCopy == Abstract!Spec

\* Whatever may be on the server has its path in the database, so that
\* retention and deletion can find it, even after a crash in the middle.
CopyIsTracked == copy # "none" => path

\* A replica that is queued or running is decided, by its job or by the
\* reconciliation of a job that ended early, unless a job was lost with its
\* worker: its Core Job then counts as running for ever.
ReplicaSettles ==
    status \in Active ~> status \in {"success", "failed"} \/ orphaned

\* A failed replica with retries left is queued again or overtaken.
RetryHappens ==
    status = "failed" /\ retry # "none"
        ~> \/ status # "failed" \/ retry = "none"
           \/ ~ destOn \/ expired \/ ~ JobsLeft
=============================================================================
