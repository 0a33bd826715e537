----------------------------- MODULE BackupRuns -----------------------------
(***************************************************************************)
(* The life of a backup run: the minutely dispatcher that reconciles stale *)
(* runs and queues due targets, the manual request, the operator's cancel, *)
(* the NetBox Core Job and the RQ job behind a run, and the worker that    *)
(* executes BackupPipeline.execute() against the database and the local    *)
(* artifact storage.                                                       *)
(*                                                                         *)
(* Every transaction.atomic block is one step; the steps of the dispatcher *)
(* job, of the worker and of the web requests interleave.  A revision is   *)
(* identified with the run that creates it (revision_uuid is fresh in      *)
(* every execution and a run is executed at most once).  Clocks are        *)
(* abstracted to "has the instant passed": nextRun[t] = "due" and aged[r]. *)
(***************************************************************************)
EXTENDS Naturals, Sequences, FiniteSets

CONSTANTS
    Targets,        \* BackupTarget rows (with an enabled backup policy)
    Runs,           \* the supply of BackupRun primary keys
    Contents,       \* normalized device configurations
    Artifacts,      \* artifact types a driver returns, the primary included
    NoRun,          \* the SQL NULL of a run or revision reference
    ChangedOnly     \* policy.store_mode = "changed_only"

ASSUME ConstantsAssumption ==
    /\ NoRun \notin Runs
    /\ Artifacts # {}
    /\ IsFiniteSet(Artifacts)
    /\ Contents # {}
    /\ ChangedOnly \in BOOLEAN

VARIABLES
    status,     \* BackupRun.status, "absent" before the row exists
    owner,      \* BackupRun.target
    code,       \* BackupRun.error_code, as a class
    aged,       \* the active run is older than stale_run_minutes
    job,        \* status of the Core Job row, "none" when there is no row
    rq,         \* status of the RQ job in Redis, "none" when there is none
    pc,         \* where the worker is in the job of this run
    fault,      \* the except branch the pipeline took, "none" for neither
    seen,       \* the configuration the driver collected
    latest,     \* the revision get_latest_revision returned, read unlocked
    content,    \* ConfigRevision.normalized_hash of the revision of this run
    prev,       \* ConfigRevision.previous_revision
    revs,       \* the revisions of a target in creation order
    unanswered, \* revisions whose commit reached the pipeline as an exception
    files,      \* artifact files in local storage: <<revision, artifact>>
    enabled,    \* BackupTarget.enabled
    nextRun,    \* BackupTarget.next_run_at against the clock
    disp,       \* where the dispatcher job is
    todo,       \* runs reconcile_stale_runs read and has not handled
    cur,        \* the run it is handling
    cand,       \* candidate_ids of dispatch_due_targets
    workers     \* the workers of BACKUP_QUEUE: "steady" ones never all go away

runVars  == <<status, owner, code, aged>>
jobVars  == <<job, rq>>
workVars == <<fault, seen, latest>>
revVars  == <<content, prev, revs, unanswered>>
dispVars == <<disp, todo, cur, cand>>
vars == <<runVars, jobVars, pc, workVars, revVars, files, enabled,
          nextRun, dispVars, workers>>

-----------------------------------------------------------------------------
(* Choices and small readings of the state *)

ActiveStatuses == {"queued", "running"}

\* ("partial" exists as a choice, but nothing writes it.)
FinalStatuses  == {"success_changed", "success_unchanged",
                   "failed", "errored", "skipped"}
RunStatuses    == {"absent"} \cup ActiveStatuses \cup FinalStatuses

\* JobStatusChoices.ENQUEUED_STATE_CHOICES
EnqueuedStates == {"pending", "running"}

\* Mutant: JobStatus.STARTED forgotten.
LiveRqWithoutStarted == {"queued"}

\* The RQ states reconcile_stale_runs takes for a live job.
LiveRq == {"queued", "started"}

\* any_workers_for_queue(BACKUP_QUEUE)
WorkersUp == workers # "down"

\* A worker process is inside BackupRunJob.run or about to enter it.
Executing == {"dequeued", "start", "collect", "decide", "put", "commit",
              "same", "rollback", "fail", "end"}

\* The part of the pipeline that acts on behalf of the run: it talks to the
\* device, to the storage, or commits a result.
Working == {"collect", "decide", "put", "commit", "same"}

\* Mutant: a run that is only queued does not count.
HasRunningRun(t) ==
    \E r \in Runs : owner[r] = t /\ status[r] = "running"

\* The unique constraint ncb_run_one_active_target is about this.
HasActiveRun(t) ==
    \E r \in Runs : owner[r] = t /\ status[r] \in ActiveStatuses

Newest(t) == IF revs[t] = <<>> THEN NoRun ELSE revs[t][Len(revs[t])]

Stored(r) == {a \in Artifacts : <<r, a>> \in files}

Committed(r) == \E t \in Targets : \E i \in 1..Len(revs[t]) : revs[t][i] = r

\* Mutant: only started runs can become stuck.
StaleRunningRuns == {r \in Runs : status[r] = "running" /\ aged[r]}

\* stuck_run_query
StaleRuns == {r \in Runs : status[r] \in ActiveStatuses /\ aged[r]}

\* The supply of run keys, a bound of the model, is not exhausted.
RunsLeft == \E r \in Runs : status[r] = "absent"

DueTargets == {t \in Targets : enabled[t] /\ nextRun[t] = "due"}

-----------------------------------------------------------------------------
Init ==
    /\ status = [r \in Runs |-> "absent"]
    /\ owner = [r \in Runs |-> NoRun]
    /\ code = [r \in Runs |-> "none"]
    /\ aged = [r \in Runs |-> FALSE]
    /\ job = [r \in Runs |-> "none"]
    /\ rq = [r \in Runs |-> "none"]
    /\ pc = [r \in Runs |-> "none"]
    /\ fault = [r \in Runs |-> "none"]
    /\ seen = [r \in Runs |-> NoRun]
    /\ latest = [r \in Runs |-> NoRun]
    /\ content = [r \in Runs |-> NoRun]
    /\ prev = [r \in Runs |-> NoRun]
    /\ revs = [t \in Targets |-> <<>>]
    /\ unanswered = {}
    /\ files = {}
    /\ enabled = [t \in Targets |-> TRUE]
    /\ nextRun = [t \in Targets |-> "none"]
    /\ disp = "idle"
    /\ todo = {}
    /\ cur = NoRun
    /\ cand = {}
    /\ workers \in {"steady", "up"}

-----------------------------------------------------------------------------
(* Queueing a run *)

\* enqueue_backup_run: run, Core Job and run.job_id in one transaction.  The
\* RQ job is pushed by the on-commit hook of NetBox's Job.enqueue, which a
\* dying process or an unreachable Redis loses.  A second active run of the
\* target is refused by the constraint and leaves nothing behind.
EnqueueBackupRun(t, r) ==
    /\ status[r] = "absent"
    /\ ~ HasActiveRun(t)
    /\ status' = [status EXCEPT ![r] = "queued"]
    /\ owner' = [owner EXCEPT ![r] = t]
    /\ job' = [job EXCEPT ![r] = "pending"]
    /\ rq' \in {rq, [rq EXCEPT ![r] = "queued"]}
    /\ UNCHANGED <<code, aged>>

\* BackupTargetRunView.post
ManualBackup(t, r) ==
    /\ enabled[t]
    /\ WorkersUp
    /\ EnqueueBackupRun(t, r)
    /\ UNCHANGED <<pc, workVars, revVars, files, enabled, nextRun,
                   dispVars, workers>>

\* cancel_queued_backup_run: the run row is locked and must be queued, the
\* Core Job must not be running; the job is deleted with its Redis entry.
\* (A failing job.delete() rolls everything back.)
CancelQueuedRun(r) ==
    /\ status[r] = "queued"
    /\ job[r] # "running"
    /\ job' = [job EXCEPT ![r] = "none"]
    /\ rq' = [rq EXCEPT ![r] = "none"]
    /\ status' = [status EXCEPT ![r] = "skipped"]
    /\ code' = [code EXCEPT ![r] = "cancelled"]
    /\ aged' = [aged EXCEPT ![r] = FALSE]
    /\ UNCHANGED <<owner, pc, workVars, revVars, files, enabled, nextRun, dispVars, workers>>

-----------------------------------------------------------------------------
(* DjangoBackupRepository *)

\* Mutant: status and error_code of the call are swapped.
MarkFailedSwapped(r, newStatus, newCode) ==
    /\ status' = [status EXCEPT ![r] = newCode]
    /\ code' = [code EXCEPT ![r] = newStatus]
    /\ nextRun' = [nextRun EXCEPT ![owner[r]] = "future"]
    /\ aged' = [aged EXCEPT ![r] = FALSE]
    /\ UNCHANGED owner

\* mark_failed: no look at the status the run has.  The next run is the retry
\* or the next regular slot, whichever calculate_failure_next_run picks.
MarkFailed(r, newStatus, newCode) ==
    /\ status' = [status EXCEPT ![r] = newStatus]
    /\ code' = [code EXCEPT ![r] = newCode]
    /\ nextRun' = [nextRun EXCEPT ![owner[r]] = "future"]
    /\ aged' = [aged EXCEPT ![r] = FALSE]
    /\ UNCHANGED owner

\* _mark_target_success: next_run_at when it was NULL.  (The other columns of
\* the target row are in TargetHealth.)
MarkTargetSuccess(t) ==
    nextRun' = [nextRun EXCEPT ![t] =
                   IF @ = "none" /\ enabled[t] THEN "future" ELSE @]

-----------------------------------------------------------------------------
(* The worker: RQ takes the job, NetBox starts it, the pipeline executes *)

\* The locals of the pipeline end with its process.
Forget(dead) ==
    /\ seen' = [r \in Runs |-> IF r \in dead THEN NoRun ELSE seen[r]]
    /\ latest' = [r \in Runs |-> IF r \in dead THEN NoRun ELSE latest[r]]
    /\ fault' = [r \in Runs |-> IF r \in dead THEN "none" ELSE fault[r]]

WorkerFrame == UNCHANGED <<enabled, dispVars, workers>>

\* What was collected and read is of no use outside the try block.
LeaveTry(r) ==
    /\ seen' = [seen EXCEPT ![r] = NoRun]
    /\ latest' = [latest EXCEPT ![r] = NoRun]

\* An except branch is entered, with the status it will report.
EnterExcept(r, outcome) ==
    /\ fault' = [fault EXCEPT ![r] = outcome]
    /\ pc' = [pc EXCEPT ![r] = "rollback"]
    /\ LeaveTry(r)

\* RQ moves the job to a work-horse process.
Dequeue(r) ==
    /\ WorkersUp
    /\ rq[r] = "queued"
    /\ rq' = [rq EXCEPT ![r] = "started"]
    /\ pc' = [pc EXCEPT ![r] = "dequeued"]
    /\ UNCHANGED <<runVars, job, workVars, revVars, files, nextRun>>
    /\ WorkerFrame

\* JobRunner.handle calls job.start(), which saves the unpickled row (and so
\* writes it again when it was deleted meanwhile).
JobStart(r) ==
    /\ pc[r] = "dequeued"
    /\ job' = [job EXCEPT ![r] = "running"]
    /\ pc' = [pc EXCEPT ![r] = "start"]
    /\ UNCHANGED <<runVars, rq, workVars, revVars, files, nextRun>>
    /\ WorkerFrame

\* Mutant: mark_running looks only for a run that has not succeeded.
MayStartUnlessDone(r) == status[r] \notin {"success_changed",
                                          "success_unchanged"}

\* The guard of mark_running.
MayStart(r) == status[r] = "queued"

\* mark_running of a queued run, under its row lock.
MarkRunning(r) ==
    /\ pc[r] = "start"
    /\ MayStart(r)
    /\ status' = [status EXCEPT ![r] = "running"]
    /\ code' = [code EXCEPT ![r] = "none"]
    /\ aged' = [aged EXCEPT ![r] = FALSE]
    /\ pc' = [pc EXCEPT ![r] = "collect"]
    /\ UNCHANGED <<owner, jobVars, workVars, revVars, files, nextRun>>
    /\ WorkerFrame

\* mark_running raises ValueError: the run was released meanwhile.
MarkRunningRaises(r) ==
    /\ pc[r] = "start"
    /\ ~ MayStart(r)
    /\ EnterExcept(r, "errored")
    /\ UNCHANGED <<runVars, jobVars, revVars, files, nextRun>>
    /\ WorkerFrame

\* driver.collect and _prepare_artifacts succeed with the configuration the
\* device happens to have.
Collect(r, c) ==
    /\ pc[r] = "collect"
    /\ seen' = [seen EXCEPT ![r] = c]
    /\ pc' = [pc EXCEPT ![r] = "decide"]
    /\ UNCHANGED <<runVars, jobVars, fault, latest, revVars, files, nextRun>>
    /\ WorkerFrame

\* content_changed of the pipeline, against a revision or none.
ContentChanged(r, revision) ==
    revision = NoRun \/ content[revision] # seen[r]

\* get_latest_revision is read without a lock and decides what is stored.
Decide(r) ==
    /\ pc[r] = "decide"
    /\ LET newest == Newest(owner[r])
       IN /\ latest' = [latest EXCEPT ![r] = newest]
          /\ pc' = [pc EXCEPT ![r] =
                       IF ChangedOnly /\ ~ContentChanged(r, newest)
                       THEN "same" ELSE "put"]
    /\ UNCHANGED <<runVars, jobVars, fault, seen, revVars, files, nextRun>>
    /\ WorkerFrame

\* storage.put of one artifact (a temporary file renamed into place).
PutArtifact(r, a) ==
    /\ pc[r] = "put"
    /\ <<r, a>> \notin files
    /\ files' = files \cup {<<r, a>>}
    /\ pc' = [pc EXCEPT ![r] =
                 IF Stored(r) \cup {a} = Artifacts THEN "commit" ELSE "put"]
    /\ UNCHANGED <<runVars, jobVars, workVars, revVars, nextRun>>
    /\ WorkerFrame

\* Mutant: the snapshot of the unlocked read becomes the predecessor.
SnapshotPredecessor(r) == latest[r]

\* ConfigRevision.previous_revision, read after the target row is locked.
Predecessor(r) == Newest(owner[r])

\* The transaction of commit_revision: the target row is locked before the
\* previous revision is read; the run's status is not looked at.  The on-commit
\* hook that creates the replicas is robust: its failure never reaches the
\* pipeline.
RevisionCommits(r) ==
    /\ pc[r] = "commit"
    /\ LET t == owner[r]
       IN /\ content' = [content EXCEPT ![r] = seen[r]]
          /\ prev' = [prev EXCEPT ![r] = Predecessor(r)]
          /\ revs' = [revs EXCEPT ![t] = Append(@, r)]
          /\ MarkTargetSuccess(t)
    /\ status' = [status EXCEPT ![r] = IF ContentChanged(r, latest[r])
                                         THEN "success_changed"
                                         ELSE "success_unchanged"]
    /\ aged' = [aged EXCEPT ![r] = FALSE]
    /\ UNCHANGED <<owner, code, jobVars, files>>
    /\ WorkerFrame

\* That of commit_unchanged: no revision is added.
UnchangedCommits(r) ==
    /\ pc[r] = "same"
    /\ status' = [status EXCEPT ![r] = "success_unchanged"]
    /\ MarkTargetSuccess(owner[r])
    /\ aged' = [aged EXCEPT ![r] = FALSE]
    /\ UNCHANGED <<owner, code, jobVars, revVars, files>>
    /\ WorkerFrame

\* The call returns, and execute() with it ...
Returns(r) ==
    /\ pc' = [pc EXCEPT ![r] = "end"]
    /\ LeaveTry(r)
    /\ UNCHANGED fault

\* ... or an exception reaches the except branch although the transaction took
\* effect: the answer to the COMMIT is lost, or the timeout of the RQ job
\* strikes between the commit and the return.
RaisesAfterCommit(r) == EnterExcept(r, "errored")

CommitRevision(r) == RevisionCommits(r) /\ Returns(r) /\ UNCHANGED unanswered

CommitRevisionRaises(r) ==
    RevisionCommits(r) /\ RaisesAfterCommit(r) /\ unanswered' = unanswered \cup {r}

CommitUnchanged(r) == UnchangedCommits(r) /\ Returns(r)

CommitUnchangedRaises(r) == UnchangedCommits(r) /\ RaisesAfterCommit(r)

\* DriverError, SecretProviderError, StorageError, PipelineOperationError...,
\* in get_execution_context already, before mark_running.
ExpectedError(r) ==
    /\ pc[r] \in {"start", "collect", "put"}
    /\ EnterExcept(r, "failed")
    /\ UNCHANGED <<runVars, jobVars, revVars, files, nextRun>>
    /\ WorkerFrame

\* Mutant: the on-commit hook is not robust and raises after the commit.
RaisingHook == Working \cup {"start", "end"}

\* Where execute() may raise with nothing committed; see RaisesAfterCommit for
\* the rest.
Raising == Working \cup {"start"}

\* Any other exception, a transaction that was rolled back included.
UnexpectedError(r) ==
    /\ pc[r] \in Raising
    /\ EnterExcept(r, "errored")
    /\ UNCHANGED <<runVars, jobVars, revVars, files, nextRun>>
    /\ WorkerFrame

\* The files that survive when the deletes in `left` fail.
Remaining(r, left) == {f \in files : f[1] # r \/ f[2] \in left}

\* _rollback_storage: a StorageError of a delete is swallowed and leaves the
\* file behind.
RollbackStorage(r) ==
    /\ pc[r] = "rollback"
    /\ \E left \in SUBSET Stored(r) :
          files' = Remaining(r, left)
    /\ pc' = [pc EXCEPT ![r] = "fail"]
    /\ UNCHANGED <<runVars, jobVars, workVars, revVars, nextRun>>
    /\ WorkerFrame

\* The mark_failed call of both except branches.
ReportFailure(r) ==
    /\ pc[r] = "fail"
    /\ MarkFailed(r, fault[r], "error")
    /\ pc' = [pc EXCEPT ![r] = "end"]
    /\ UNCHANGED <<jobVars, workVars, revVars, files>>
    /\ WorkerFrame

\* An exception leaves BackupRunJob.run with the run's row as it was: one of
\* ensure_first_host_key_trusted other than DriverError, or mark_failed itself.
JobRaises(r) ==
    /\ pc[r] \in {"start", "fail"}
    /\ fault' = [fault EXCEPT ![r] = "errored"]
    /\ pc' = [pc EXCEPT ![r] = "end"]
    /\ UNCHANGED <<runVars, jobVars, seen, latest, revVars, files, nextRun>>
    /\ WorkerFrame

\* The job terminates: its row is saved, RQ records the result if the job is
\* still there.
JobEnd(r) ==
    /\ pc[r] = "end"
    /\ LET ok == fault[r] = "none"
       IN /\ job' = [job EXCEPT ![r] = IF ok THEN "completed" ELSE "failed"]
          /\ rq' = [rq EXCEPT ![r] = IF @ = "none" THEN @
                                     ELSE IF ok THEN "finished" ELSE "failed"]
    /\ pc' = [pc EXCEPT ![r] = "ended"]
    /\ Forget({r})
    /\ UNCHANGED <<runVars, revVars, files, nextRun>>
    /\ WorkerFrame

-----------------------------------------------------------------------------
(* Crashes of the execution environment *)

\* A work-horse is killed.  RQ notices at once (the worker survives) or when
\* it cleans its registry of started jobs.
WorkerCrash(r) ==
    /\ pc[r] \in Executing
    /\ pc' = [pc EXCEPT ![r] = "dead"]
    /\ rq' \in {rq, [rq EXCEPT ![r] = IF @ = "none" THEN @ ELSE "failed"]}
    /\ Forget({r})
    /\ UNCHANGED <<runVars, job, revVars, files, nextRun>>
    /\ WorkerFrame

RqCleanup(r) ==
    /\ pc[r] = "dead"
    /\ rq[r] = "started"
    /\ rq' = [rq EXCEPT ![r] = "failed"]
    /\ UNCHANGED <<runVars, job, pc, workVars, revVars, files, nextRun>>
    /\ WorkerFrame

\* All workers of the queue go away, taking their work-horses with them.
WorkersDown ==
    /\ workers = "up"
    /\ workers' = "down"
    /\ pc' = [r \in Runs |-> IF pc[r] \in Executing THEN "dead" ELSE pc[r]]
    /\ Forget({r \in Runs : pc[r] \in Executing})
    /\ UNCHANGED <<runVars, jobVars, revVars, files, enabled, nextRun, dispVars>>

WorkersReturn ==
    /\ workers = "down"
    /\ workers' = "up"
    /\ UNCHANGED <<runVars, jobVars, pc, workVars, revVars, files, enabled, nextRun, dispVars>>

-----------------------------------------------------------------------------
(* ScheduledBackupDispatcherJob: reconcile_stale_runs, dispatch_due_targets *)

DispatcherFrame ==
    UNCHANGED <<pc, workVars, revVars, files, enabled, workers>>

\* The candidates of reconcile_stale_runs are read once, without locks.
DispatcherStart ==
    /\ disp = "idle"
    /\ disp' = "reconcile"
    /\ todo' = StaleRuns
    /\ UNCHANGED <<runVars, jobVars, nextRun, cur, cand>>
    /\ DispatcherFrame

\* The run has no Core Job in an enqueued state: its job ended, or is gone.
ReconcileEndedJob(r) ==
    /\ disp = "reconcile"
    /\ r \in todo
    /\ job[r] \notin EnqueuedStates
    /\ disp' = "mark_failed"
    /\ cur' = r
    /\ UNCHANGED <<runVars, jobVars, nextRun, todo, cand>>
    /\ DispatcherFrame

\* Redis has a live job and the queue a live worker: the run is left alone.
ReconcileLiveJob(r) ==
    /\ disp = "reconcile"
    /\ r \in todo
    /\ job[r] \in EnqueuedStates
    /\ rq[r] \in LiveRq /\ WorkersUp
    /\ todo' = todo \ {r}
    /\ UNCHANGED <<runVars, jobVars, nextRun, disp, cur, cand>>
    /\ DispatcherFrame

\* Redis has no live job, or there is nobody to execute it.
ReconcileOrphan(r) ==
    /\ disp = "reconcile"
    /\ r \in todo
    /\ job[r] \in EnqueuedStates
    /\ ~ (rq[r] \in LiveRq /\ WorkersUp)
    /\ disp' = "job_delete"
    /\ cur' = r
    /\ UNCHANGED <<runVars, jobVars, nextRun, todo, cand>>
    /\ DispatcherFrame

\* Redis cannot be inspected: the run is left for a later pass.
ReconcileUnknown(r) ==
    /\ disp = "reconcile"
    /\ r \in todo
    /\ job[r] \in EnqueuedStates
    /\ todo' = todo \ {r}
    /\ UNCHANGED <<runVars, jobVars, nextRun, disp, cur, cand>>
    /\ DispatcherFrame

\* job.delete(): the Core Job row and the RQ job.
ReconcileDelete ==
    /\ disp = "job_delete"
    /\ job' = [job EXCEPT ![cur] = "none"]
    /\ rq' = [rq EXCEPT ![cur] = "none"]
    /\ disp' = "mark_failed"
    /\ UNCHANGED <<runVars, nextRun, todo, cur, cand>>
    /\ DispatcherFrame

\* job.delete() raised: continue with the next candidate.
ReconcileDeleteFails ==
    /\ disp = "job_delete"
    /\ disp' = "reconcile"
    /\ todo' = todo \ {cur}
    /\ cur' = NoRun
    /\ UNCHANGED <<runVars, jobVars, nextRun, cand>>
    /\ DispatcherFrame

\* repository.mark_failed(run, ERRORED, STALE_RUN)
ReconcileMarkFailed ==
    /\ disp = "mark_failed"
    /\ MarkFailed(cur, "errored", "stale")
    /\ disp' = "reconcile"
    /\ todo' = todo \ {cur}
    /\ cur' = NoRun
    /\ UNCHANGED <<jobVars, cand>>
    /\ DispatcherFrame

\* Mutant: targets without a next run stay without one.
ClearedOnly ==
    [t \in Targets |-> IF ~ enabled[t] THEN "none" ELSE nextRun[t]]

\* initialize_target_schedules: clear the inactive, schedule the new.
Initialized ==
    [t \in Targets |->
        IF ~ enabled[t] THEN "none"
        ELSE IF nextRun[t] = "none" THEN "future" ELSE nextRun[t]]

\* dispatch_due_targets begins with initialize_target_schedules, ...
InitializeTargetSchedules ==
    /\ disp = "reconcile"
    /\ todo = {}
    /\ nextRun' = Initialized
    /\ disp' = "scan"
    /\ UNCHANGED <<runVars, jobVars, todo, cur, cand>>
    /\ DispatcherFrame

\* ... reads the candidates without a lock, ...
DispatchScan ==
    /\ disp = "scan"
    /\ cand' = DueTargets
    /\ disp' = IF DueTargets = {} THEN "idle" ELSE "workers"
    /\ UNCHANGED <<runVars, jobVars, nextRun, todo, cur>>
    /\ DispatcherFrame

\* ... and asks Redis for a worker.
DispatchWorkers ==
    /\ disp = "workers"
    /\ disp' = IF WorkersUp THEN "dispatch" ELSE "idle"
    /\ cand' = IF WorkersUp THEN cand ELSE {}
    /\ UNCHANGED <<runVars, jobVars, nextRun, todo, cur>>
    /\ DispatcherFrame

\* The state of the workers cannot be verified: nothing is queued this time.
DispatchUnknown ==
    /\ disp = "workers"
    /\ disp' = "idle"
    /\ cand' = {}
    /\ UNCHANGED <<runVars, jobVars, nextRun, todo, cur>>
    /\ DispatcherFrame

\* What dispatch_due_targets checks again under the target's row lock.
StillDue(t) ==
    enabled[t] /\ nextRun[t] = "due" /\ ~HasActiveRun(t) /\ RunsLeft

\* One candidate is rescheduled and queued in the same transaction.
DispatchTarget(t, r) ==
    /\ disp = "dispatch"
    /\ t \in cand
    /\ StillDue(t)
    /\ EnqueueBackupRun(t, r)
    /\ nextRun' = [nextRun EXCEPT ![t] = "future"]
    /\ cand' = cand \ {t}
    /\ disp' = IF cand' = {} THEN "idle" ELSE "dispatch"
    /\ UNCHANGED <<todo, cur>>
    /\ DispatcherFrame

\* A candidate that is no longer due, or has an active run, is passed over.
DispatchSkip(t) ==
    /\ disp = "dispatch"
    /\ t \in cand
    /\ ~ StillDue(t)
    /\ cand' = cand \ {t}
    /\ disp' = IF cand' = {} THEN "idle" ELSE "dispatch"
    /\ UNCHANGED <<runVars, jobVars, nextRun, todo, cur>>
    /\ DispatcherFrame

\* The dispatcher job dies between two of its transactions.
DispatcherCrash ==
    /\ disp # "idle"
    /\ disp' = "idle"
    /\ todo' = {}
    /\ cur' = NoRun
    /\ cand' = {}
    /\ UNCHANGED <<runVars, jobVars, nextRun>>
    /\ DispatcherFrame

-----------------------------------------------------------------------------
(* Operators, devices and clocks *)

EnvFrame == UNCHANGED <<jobVars, pc, workVars, revVars, files, dispVars,
                        workers>>

\* Editing the target runs apply_target_schedule.
SetEnabled(t, b) ==
    /\ enabled[t] # b
    /\ enabled' = [enabled EXCEPT ![t] = b]
    /\ nextRun' = [nextRun EXCEPT ![t] = IF b THEN "future" ELSE "none"]
    /\ UNCHANGED runVars
    /\ EnvFrame

ScheduleComesDue(t) ==
    /\ nextRun[t] = "future"
    /\ nextRun' = [nextRun EXCEPT ![t] = "due"]
    /\ UNCHANGED <<runVars, enabled>>
    /\ EnvFrame

RunAges(r) ==
    /\ status[r] \in ActiveStatuses
    /\ ~ aged[r]
    /\ aged' = [aged EXCEPT ![r] = TRUE]
    /\ UNCHANGED <<status, owner, code, enabled, nextRun>>
    /\ EnvFrame

-----------------------------------------------------------------------------
Worker(r) ==
    \/ Dequeue(r) \/ JobStart(r) \/ MarkRunning(r)
    \/ MarkRunningRaises(r) \/ Decide(r)
    \/ \E c \in Contents : Collect(r, c)
    \/ \E a \in Artifacts : PutArtifact(r, a)
    \/ CommitRevision(r) \/ CommitRevisionRaises(r)
    \/ CommitUnchanged(r) \/ CommitUnchangedRaises(r)
    \/ ExpectedError(r) \/ UnexpectedError(r)
    \/ RollbackStorage(r) \/ ReportFailure(r) \/ JobRaises(r) \/ JobEnd(r)

Dispatcher ==
    \/ DispatcherStart
    \/ \E r \in Runs : \/ ReconcileEndedJob(r) \/ ReconcileLiveJob(r)
                       \/ ReconcileOrphan(r) \/ ReconcileUnknown(r)
    \/ ReconcileDelete \/ ReconcileDeleteFails \/ ReconcileMarkFailed
    \/ InitializeTargetSchedules \/ DispatchScan
    \/ DispatchWorkers \/ DispatchUnknown
    \/ \E t \in Targets : DispatchSkip(t) \/ \E r \in Runs : DispatchTarget(t, r)

Faults ==
    \/ \E r \in Runs : WorkerCrash(r) \/ RqCleanup(r)
    \/ WorkersDown \/ WorkersReturn \/ DispatcherCrash

Environment ==
    \/ \E t \in Targets : \/ \E b \in BOOLEAN : SetEnabled(t, b)
                          \/ ScheduleComesDue(t)
                          \/ \E r \in Runs : ManualBackup(t, r)
    \/ \E r \in Runs : CancelQueuedRun(r) \/ RunAges(r)

Next ==
    \/ \E r \in Runs : Worker(r)
    \/ Dispatcher
    \/ Faults
    \/ Environment

Spec == Init /\ [][Next]_vars

(***************************************************************************)
(* Fairness.  The worker and the system job run whenever they can; a job   *)
(* that is queued is taken if workers keep coming back; Redis failures,    *)
(* failing deletes and crashes of the dispatcher are not permanent, so the *)
(* steps they can pre-empt are strongly fair.  Time passes.  Nothing is    *)
(* assumed of users, of crashes, or of errors.                             *)
(***************************************************************************)
RunFairness(r) ==
    /\ SF_vars(Dequeue(r))
    /\ WF_vars(Worker(r) /\ pc[r] \in Executing)
    /\ WF_vars(RqCleanup(r))
    /\ WF_vars(RunAges(r))
    /\ SF_vars(ReconcileEndedJob(r) \/ ReconcileLiveJob(r) \/ ReconcileOrphan(r))

Fairness ==
    /\ \A r \in Runs : RunFairness(r)
    /\ WF_vars(DispatcherStart)
    /\ SF_vars(ReconcileDelete)
    /\ SF_vars(ReconcileMarkFailed)
    /\ SF_vars(InitializeTargetSchedules)
    /\ SF_vars(DispatchScan)
    /\ SF_vars(DispatchWorkers)
    /\ \A t \in Targets : SF_vars(DispatchSkip(t) \/ \E r \in Runs : DispatchTarget(t, r))

FairSpec == Spec /\ Fairness

-----------------------------------------------------------------------------
(* What the component guarantees *)

TypeOK ==
    /\ status \in [Runs -> RunStatuses]
    /\ owner \in [Runs -> Targets \cup {NoRun}]
    /\ code \in [Runs -> {"none", "cancelled", "stale", "error"}]
    /\ aged \in [Runs -> BOOLEAN]
    /\ job \in [Runs -> {"none", "pending", "running", "completed", "failed"}]
    /\ rq \in [Runs -> {"none", "queued", "started", "finished", "failed"}]
    /\ pc \in [Runs -> Executing \cup {"none", "ended", "dead"}]
    /\ fault \in [Runs -> {"none", "failed", "errored"}]
    /\ seen \in [Runs -> Contents \cup {NoRun}]
    /\ latest \in [Runs -> Runs \cup {NoRun}]
    /\ content \in [Runs -> Contents \cup {NoRun}]
    /\ prev \in [Runs -> Runs \cup {NoRun}]
    /\ revs \in [Targets -> Seq(Runs)]
    /\ unanswered \in SUBSET Runs
    /\ files \in SUBSET (Runs \X Artifacts)
    /\ enabled \in [Targets -> BOOLEAN]
    /\ nextRun \in [Targets -> {"none", "future", "due"}]
    /\ disp \in {"idle", "reconcile", "job_delete", "mark_failed", "scan", "workers", "dispatch"}
    /\ todo \in SUBSET Runs
    /\ cur \in Runs \cup {NoRun}
    /\ cand \in SUBSET Targets
    /\ workers \in {"steady", "up", "down"}

\* Bookkeeping between the tables: a run that exists has a target, nothing
\* executes for a run that does not exist, a job still in the queue is not
\* executing, an except branch has its outcome, and the reconciliation only
\* handles runs it read.
Bookkeeping ==
    /\ \A r \in Runs : status[r] # "absent" => owner[r] \in Targets
    /\ \A r \in Runs : status[r] = "absent" => pc[r] = "none" /\ rq[r] = "none"
    /\ \A r \in Runs : rq[r] = "queued" => pc[r] = "none"
    /\ \A r \in Runs : pc[r] \in {"rollback", "fail"} => fault[r] # "none"
    /\ \A r \in todo : status[r] # "absent"
    /\ disp \in {"job_delete", "mark_failed"} => cur \in todo

\* A target never has two runs queued or running, whoever asked for them and
\* whatever the reconciliation and the cancellation released before.
OneActiveRun ==
    \A r, s \in Runs :
        /\ status[r] \in ActiveStatuses
        /\ status[s] \in ActiveStatuses
        /\ owner[r] = owner[s]
        => r = s

\* Every artifact of a committed revision is in the storage: no crash, no late
\* worker and no failed run removes the files of a revision that was committed.
\* The exception is a commit that took effect and raised (RaisesAfterCommit):
\* execute() cannot tell it from one that was rolled back, deletes what it had
\* stored and reports the run as errored, while the revision stays.
RevisionFilesStored ==
    \A r \in Runs : Committed(r) /\ r \notin unanswered => Stored(r) = Artifacts

\* The revisions of a target form one chain in creation order, without forks,
\* even when a released run's worker commits next to that of its successor.
RevisionChain ==
    \A t \in Targets : \A i \in 1..Len(revs[t]) :
        prev[revs[t][i]] = IF i = 1 THEN NoRun ELSE revs[t][i - 1]

\* A run whose cancellation was accepted never contacts the device, writes an
\* artifact or commits: mark_running stops a worker that was already on it,
\* and a run that works cannot be cancelled any more.
CancelledRunNeverWorks ==
    [][\A r \in Runs : code[r] = "cancelled" => pc'[r] \notin Working]_vars

\* A cancelled run is skipped and nobody works on it.
CancelledState ==
    \A r \in Runs :
        code[r] = "cancelled" => status[r] = "skipped" /\ pc[r] \notin Working

\* An execution that works has left the queued state behind, one that is about
\* to commit has stored every artifact, and one whose commit was answered is
\* past the steps that may raise.
ExecutionState ==
    /\ \A r \in Runs : pc[r] \in Working => status[r] # "queued"
    /\ \A r \in Runs : pc[r] = "commit" => Stored(r) = Artifacts
    /\ \A r \in Runs : Committed(r) => pc[r] \in {"rollback", "fail", "end", "ended", "dead"}
    /\ \A r \in Runs : Committed(r) /\ r \notin unanswered => pc[r] \in {"end", "ended", "dead"}

\* Without an outage of all workers no two workers ever work for the same
\* target: the reconciliation releases a run only when nobody executes it.
ExclusiveExecution ==
    workers = "steady" =>
        \A r, s \in Runs :
            /\ pc[r] \in Working
            /\ pc[s] \in Working
            /\ owner[r] = owner[s]
            => r = s

\* Without such an outage a changed_only policy never stores the same content
\* twice in a row, although the comparison reads the newest revision unlocked.
NeighboursDiffer ==
    ChangedOnly /\ workers = "steady" =>
        \A t \in Targets : \A i \in 1..(Len(revs[t]) - 1) :
            content[revs[t][i]] # content[revs[t][i + 1]]

\* A run that is queued or running reaches a final status, by its worker, by
\* a cancellation or by the reconciliation, whatever crashes on the way.
ActiveRunEnds ==
    \A r \in Runs : status[r] \in ActiveStatuses
                      ~> status[r] \in FinalStatuses

\* If workers are up from some time on, an enabled target that is due, or has
\* no schedule yet, is scheduled for the future again.
DueTargetServed ==
    <>[]WorkersUp =>
        \A t \in Targets :
            enabled[t] /\ nextRun[t] \in {"none", "due"}
                ~> nextRun[t] = "future" \/ ~enabled[t] \/ ~RunsLeft

\* README: a cancelled run is preserved as Skipped.
CancelledStaysSkipped ==
    [][\A r \in Runs : status[r] = "skipped" => status'[r] = "skipped"]_vars

\* dispatcher.py: deleting the job prevents it from executing after the run is
\* reconciled.
ReconciledRunNeverWorks ==
    \A r \in Runs : code[r] = "stale" => pc[r] \notin Working

=============================================================================
