# Verification of netbox-config-backup

TLA+ models of the NetBox plugin that backs up the configuration of network
devices, with the TLC configurations that check them and TLAPS proofs of the
safety properties that the passing runs check. Paths are relative to
`src/netbox_config_backup/` unless they begin with `src/`. `PROJECT.json` maps every definition to the lines it models.

## The system

The plugin is a Django application inside NetBox. All durable state is in
PostgreSQL rows, in artifact files and on remote storages; the actors are web
requests, background jobs that RQ workers execute, and *system jobs* that NetBox
starts every minute, every hour or every day. They share the database, the
storage and Redis, and nothing else.

| Part | State | Operations | Hard behaviour |
|---|---|---|---|
| Backup runs (`services/queueing.py`, `backup.py`, `django_repository.py`, `run_cancellation.py`) | `BackupRun`, Core `Job`, RQ job, `ConfigRevision`, artifact files | enqueue, cancel, start, collect, store, commit, fail, roll back | worker and canceller on the same run; files and rows in two stores; unlocked read of the newest revision |
| Dispatcher (`services/dispatcher.py`) | `next_run_at`, stale runs | reconcile stale runs, initialise schedules, queue due targets | looks at three systems (database, Redis, workers), acts later; crashes half way |
| Schedule arithmetic (`services/scheduling.py`) | none (pure) | interval and daily slots, jitter, retry backoff | time zones, missed slots, dedupe keys |
| Target health (`services/health.py`) | status, failure counter, last success and revision of a target | evaluate, refresh all, announce | lost updates between unlocked readers and locked writers |
| Replication (`services/replication.py`) | `RevisionReplica`, its job, files on the server | create, queue, upload, retry, reconcile | partial uploads, killed workers, races with retention |
| Remote transfer (`services/destination_ftp.py`, `destination_mounted.py`) | the directory of a revision on an FTP server or a mounted share | upload, verify, delete, audit, recover | commands that take effect without an answer, two workers, renamed devices |
| Remote retention (`services/remote_retention_cleanup.py`) | tombstones, metadata | delete remote copies under row locks | irreversible deletes inside a transaction |
| Local retention, deletion of a revision (`services/retention_cleanup.py`, `revision_deletion.py`, `revision_chain.py`, `storage/`) | files, quarantine, chain of revisions | stage, commit, restore, purge, relink | database and storage must agree through failures; S3 cannot rename |
| Retention planner and dispatchers (`services/retention.py`, `retention_dispatcher.py`, `remote_retention_dispatcher.py`) | rows that are due | which copies and runs to keep, which targets to queue | buckets, minimum, caps; a plan made long after it was asked for |
| Integrity audits (`services/ftp_audit_dispatcher.py`, `jobs.py`, `views.py`) | schedule and last result of a storage, audit jobs | queue, request, run, announce | unlocked look for an active job, killed workers, forms that save stale rows |
| Target setup and deletion (`services/quick_setup.py`, `target_deletion.py`) | all rows of a target, its files, its remote copies, its profile | create, delete | irreversible effects inside a transaction that may roll back |
| SSH host keys (`services/ssh_host_keys.py`) | `SSHHostKey` | scan, first trust, approve, reject | two connections and two approvals at once |
| Secrets (`management/commands/config_backup_rotate_master_key.py`, `forms.py`) | ciphertexts and their key version | save, rotate | forms that were loaded before a rotation |
| Driver selection (`services/driver_selection.py`) | enabled and assigned drivers | disable, assign | validation before the lock |
| Uploads by devices (`transports/siae_alfoplus.py`, `ceragon_ceraos.py`, receivers) | a setting of the device, the inbox | change, export, wait, restore | lost answers, late and partial uploads |
| Recovery packages, downloads (`services/ftp_recovery.py`, `views.py`) | package files, jobs, protection setting | build, publish, expire, download | cleanup by file time, setting changed during a request |
| Other drivers, events, metrics, pages, permissions | see *Not modelled* | | |

How the parts meet: the dispatcher and the manual request queue runs; a run
commits a revision and, after its commit, creates replicas; the replication job
copies a revision's files through the transfer; local retention removes files
unless a transfer still needs them, and keeps the metadata while a remote copy is
recorded; remote retention removes copies, and the metadata when nothing is left;
an audit reads the copies while uploads and deletions go on. Every result of a run
writes the health columns the refresh reads. The remaining parts touch each other
only through configuration that a run reads once.

What makes each part correct:

- *runs*: one active run per target, no committed revision without files, one
  unforked chain, cancelled means not executed, every run ends, every due target
  is served;
- *schedules*: the next slot is in the future and never offered twice;
- *health*: a failure is announced, or its event is on the way or known to be
  lost, and it is shown in the end;
- *replication and transfer*: "stored" is said of a complete copy and "gone" of an
  absent one; one upload at a time, none against a deletion; every remote byte has
  a recorded path; a file that was there is never replaced, a retry completes, damage is not
  reported of a whole copy;
- *cleanups*: bytes the database lists are never destroyed, the source of a
  transfer and the revision a backup compares with stay, the history lists only
  what has a copy, a policy's promises hold however the cleanups fell;
- *the other services*: one key is trusted without an operator and a verified
  session meets a trusted or listed one; every secret stays readable; no driver is
  disabled in use; a deletion is all or nothing; an offered
  package exists and is verified; a device is left as it was found and only its
  whole file is taken; operators are told what became of an audit.

`PROJECT.json` lists the hazards at their lines with the property that covers each.

## Modules

| Module | Models | Actors that interleave |
|---|---|---|
| `BackupRuns` | runs, jobs, revisions, files, dispatcher | one worker per run, the dispatcher job, operators, crashes, clocks |
| `Scheduling` | the slots of one target with one change of the UTC offset | dispatcher, results, operator, clock |
| `TargetHealth` | the health columns of one target | worker, refresh job, web requests, clock |
| `RemoteCopy` | what a remote storage promises about one copy (abstract) | |
| `Replication` | one replica, its jobs, the server; implements `RemoteCopy` | workers, dispatcher, reconciliation, remote retention, operator, server |
| `RemoteTransfer` | the files of one copy; implements `RemoteCopy` | upload or deletion, audit or recovery, storage form, others on the server |
| `LocalCleanup` | revisions, files and replicas of one target | two cleanup calls, backups, transfers, remote retention, operator |
| `HostKeys` | the SSH identity of one device, the known_hosts file | two jobs, operators, the device |
| `Secrets` | encrypted rows, the rotation procedure | processes with their environments, the command, the operator |
| `DriverChoice` | enabled and assigned drivers | forms, settings page, runs |
| `TargetLifecycle` | setup and deletion of one target | deletion, backups, uploads, setup |
| `RetentionPlan` | plans for one target in one storage | dispatcher, operator, jobs, backups, clock |
| `RecoveryPackages` | packages and downloads | build jobs, hourly cleanup, downloads, clock |
| `DeviceExport` | a backup the device uploads | worker, device, receiver |
| `IntegrityAudit` | audits of one storage | dispatcher, operator, jobs, forms |
| `Services` | `Scheduling` and the eight preceding modules, composed | one of them at a time |

| Proof module | Theorems about |
|---|---|
| `BackupRunsProofs`, `SchedulingProofs`, `TargetHealthProofs`, `ReplicationProofs`, `RemoteTransferProofs`, `LocalCleanupProofs` | the module of that name (for `Scheduling` its own `SchedulingSpec`); `ReplicationProofs` and `RemoteTransferProofs` also that it implements `RemoteCopy` |
| `RetentionPlanProofs` | the part `RetentionPlan` of `Services` |
| `ServicesProofs` | seven other parts of `Services` |

An `MC...` module extends each model with symmetry sets or constant values.
Definitions whose comment begins with "Mutant" are wrong variants of the
definition that follows them; no specification uses them, they show that the
properties can fail.

**Steps.** A `transaction.atomic` block is one step where it either happens or
does not and the rows it relies on are locked. What the code reads outside a
transaction and uses later is a variable (`latest`, `todo`, `cand`, `snap`,
`form`, `picked`, `assigning`, `driverRun`, `auditForm`, `auditRequest`). The
dispatcher's queries are steps of their own (initialise schedules, scan, ask for
workers, queue one target). Hooks that run after a commit are separate steps
(`pending`), since they may be late, fail or never run. Transactions that talk to
a file system or server *inside* are several steps that hold a lock (`clean`,
`phase`, `del`), and so are those that read rows they do not lock (`approvals`,
`saving`). A local file is written, moved or deleted in one step because the
storage renames; where it is S3 it is not (`MaxLost`).

**History variables.** Where the code does not handle a situation and no document
promises that it does, the situation is recorded and the property is stated for
behaviours without it. Each is set by the one action that creates the situation:

| Variable | Records |
|---|---|
| `unanswered` (`BackupRuns`) | runs whose revision was committed although `commit_revision` raised: the answer was lost, or the timeout of the job struck after the COMMIT |
| `unsaid` (`TargetHealth`) | since the last success an event was dropped, a late recovery overtook one, or the edit form brought an old counter back |
| `raced`, `orphaned` (`Replication`) | the stale-replica reconciliation failed a replica that a new job was copying; a job died with its worker, or its push to Redis was lost |
| `harmed`, `rushed`, `w.late` (`RemoteTransfer`) | a file was removed, altered or created by others; the endpoint was saved after a path had been recorded; others touched a final name after the upload had looked at it |
| `torn`, `stripped`, place `"lost"` (`LocalCleanup`) | files left in quarantine; revisions whose remote copy was deleted by a transaction that was rolled back; a file S3 deleted without an answer (only with `MaxLost > 0`) |
| `crossed` (`HostKeys`) | a key became trusted while another approval had looked; the next approval that nobody crosses heals it |
| `driverRun[..].moved` (`DriverChoice`) | the row was given another driver after the run had read the old one |
| `astray`, `latecomer` (`TargetLifecycle`) | files that a deletion did not bring where they belong, because it died, a restore or purge failed, S3 did not answer or the commit was not confirmed; a replica created while the deletion ran |
| `excused` (`DeviceExport`) | a request that puts the device back failed or could not be made |
| `mixedUp` (`IntegrityAudit`) | two audits at once, an audit that ended before its event, an event that was switched off or not emitted, or an older result saved by a form; the next change that an audit of its own announces clears it |

**BackupRuns.** `status`, `code`, `owner` are columns of `BackupRun`; `job` the
Core Job, `rq` its Redis entry, `pc` the place of the worker in
`BackupRunJob.run` and `BackupPipeline.execute`, `fault` the except branch taken.
`revs`, `prev`, `content` are the revisions, `files` the storage. `disp`, `todo`,
`cur`, `cand` are the dispatcher's locals. A revision is identified with the run
that creates it. A step that raises may have left its effect behind only where it
is the commit of the revision (`RaisesAfterCommit`): the except branch then rolls
the storage of a committed revision back, and the run is `unanswered`.
`EnqueueBackupRun` is shared by `ManualBackup` and
`DispatchTarget`; the push to Redis follows the commit and may be lost. RQ and
NetBox's `JobRunner` are external: a job is dequeued, its row saved as running
(also when it was deleted meanwhile), and its end recorded. `workers` says whether
the queue has workers; a behaviour that begins with `"steady"` ones has no outage.
The clock is reduced to "is due" (`nextRun`) and "older than the limit" (`aged`).

**Scheduling.** Time is a number of ticks; wall-clock time adds `Before` or
`After` to it. `Local` and `Utc` are `astimezone` in the two directions, with
`fold = 0` as `datetime.combine` gives it; candidates and references are
compared as wall-clock values because Python does so for datetimes of one zone.
The jitter of a date, a hash in the code, is any function from dates.

**TargetHealth.** `row` is the target; `snap` what the refresh evaluated; `form`
the row a request loaded. Results are numbered, `late` says which deadlines have
passed. `pending` are the events whose hooks have not run; each is emitted, in any
order, or dropped: events may be switched off, the emission may fail, which is
only logged, and the process may die. `open` is what the last event emitted said.

**RemoteCopy.** The promise that ties the database to a server: `copy` (nothing,
part, whole), `claim` (nothing, stored, gone) and `intact` (nobody removed
anything since the upload). An upload only adds, "stored" needs a whole copy, and
"gone" an absent one.

**Replication.** `status`, `attempts`, `retry`, `path`, `available`, `expired`,
`jobId` are columns of `RevisionReplica`; `copy` is what is on the server;
`clean` that remote retention holds the row lock, and whether its deletion has
returned; the tombstone is then committed without another look at the server. The
retention plan and the check
for an active backup only restrict when the cleanup begins; the model lets it
begin at any time.

**RemoteTransfer.** One level below: `final` and `temp` are the contents under the
final name and under the name with `.part`; `w` is the upload or deletion with the
place in `_put_immutable`, `_write_new` or `delete_revision_replica`; `r` the
reader. Every command may fail before or after its effect (`faults`), the worker
may die between any two, others may remove, alter or create files at any time,
also between the upload's look at a final name and its rename (`harm`), the device
may be renamed, the storage form may change the endpoint while an upload is under
way. The directory is computed once, when the operation starts (`w.base`). A read
that the server refuses is an outcome of its own, although the code reports it
under the error code of a conflict (`PutUnreadable`) or as a problem of the copy
(alarm `"refused"`, not `"damage"`). Both kinds of storage are covered: FTP verifies a temporary name and
renames it; a mounted share creates files exclusively and writes in place.

**LocalCleanup.** Revisions are numbered; `place` says whether a file is stored,
in quarantine or gone; `phase`, `doomed`, `staged` are the locals of a call.
The plan is any set that leaves out the newest local revision and the protected
ones. `replica` is the status of a copy, `recorded` whether its row has a path,
`copied` whether the server has it: an upload that fails for good keeps the path
it recorded first, and the code takes the path for a copy. Remote retention
deletes on the server and then commits or is rolled back.
`CommitUnconfirmed` is a commit whose acknowledgement is lost. `StageUnanswered`
is where S3 differs from the local storage: it copies and deletes instead of
renaming, and a deletion may take effect without an answer; `MaxLost = 0` is the
file system.

**HostKeys.** `hostsFile` is the known_hosts file a connection is configured with
(none, the profile's, or the system's) and `FileKeys` what it lists: the profile's
is merged with the trusted keys, the system's is used only without one. `keyRow` is the status of each key; `connector` is a job in
`ensure_first_host_key_trusted` or in a session; `approvals` are the operators'
transactions between their reads and their commit, since READ COMMITTED lets two
of them miss each other's rows.

**Secrets.** A ciphertext is the version of its key. A process knows the keys of
the environment it was started with, and the operator follows
`src/docs/MASTER_KEY_ROTATION.md`: restart with both keys, rotate, verify, restart
with the new one. Forms load and save around every step.

**DriverChoice.** `assigning` is what `clean()` accepted, `SaveAssignment` the
second validation under the lock; the compatibility identifiers map to one
selection. A run reads its driver (`ReadDriver`) and asks later whether it is
disabled (`CreateDriver`), neither under a lock.

**TargetLifecycle.** `del` is the deletion in the order of the code: locks, files
to quarantine, remote copies, rows, commit, purge; each step may fail, the process
may die, S3 may lose a file while it is staged (`StageUnanswered`), and the commit
may take effect without an answer, after which the code puts the files of a
deleted target back (`DeletionUnconfirmed`). Backups, uploads and toggled storages go on beside it.

**RetentionPlan.** `KeptRevisions` and `KeptRuns` are the planner, on a calendar
scaled to days of one tick, weeks of two days and months of three; the dispatcher
looks, the job applies later. `everCopied` remembers what there was, so that
`PromisesKept` is a statement about the policy and not about the planner's steps.

**RecoveryPackages.** A package is a temporary file, then a published one whose
time of the last write decides when it goes; `download` is a request that reads
the protection setting, the secret and the file in separate steps.

**DeviceExport.** `device` has the setting, the session and the export; `inbox`
what the receiver accepted; `collector` the worker in `collect()` with its finally
block. A request may be carried out although its answer is lost.

**IntegrityAudit.** `auditRow` holds the audit columns of the storage, `auditJob`
the place of each job with the status it found; the result and its event are two
steps, between which the job may fail, and the event may be switched off or not
emitted (`DropAuditEvent`).

**Services.** The nine parts share no variable. A behaviour of `Services` is a
behaviour of one part while the others keep an initial state, so that the states
add up instead of multiplying, and one run covers all of them without leaving out
any interleaving that matters.

## Runs

| Run | Instance | Shows |
|---|---|---|
| `runs_safety` | 1 target, 2 runs, 2 contents, 1 artifact, with and without outages | the safety of runs with overlapping workers; without an outage (`workers = "steady"`) no two workers for a target, and neighbours differ under `changed_only` |
| `runs_liveness` | 1 target, 1 run, 2 artifacts, outages | a committed revision has its files, runs end, due targets are served |
| `runs_cancel` | 1 target, 2 runs, 1 artifact | violation: a cancelled run that the dispatcher had listed ends as errored |
| `runs_reconcile` | 1 target, 2 runs, 1 artifact | violation: a reconciled run is executed |
| `schedule_back` | days of 4 ticks, offset 2 to 0 at tick 3, 7 ticks, jitter 0..1 | violation: a slot in the past |
| `health_settles` | 3 results, 2 requests | announcements, final status |
| `health_stale` | 2 results, 1 request | violation: a healthy target stays Failed |
| `replica` | 2 jobs, 1 retry | exclusion, tombstones, tracked copies; implements `RemoteCopy`; replicas settle, retries happen |
| `transfer` | 1 artifact and the manifest, 2 failures, 1 harm | implements `RemoteCopy`; order of the manifest, nothing replaced that the upload could see, no false conflict or report of damage, retries complete |
| `services` | the nine parts, bounds below | one property of each (two of `DeviceExport` and of `Scheduling`) |
| `local_cleanup` | 3 revisions, 1 artifact, 2 calls, at most 4 revisions and calls together, 1 protected revision, 2 replicas, 1 lost file | bytes, chain, copies, sources and revisions in use are kept |
| `local_s3` | 2 revisions, 1 artifact, 1 call, 1 lost file | violation: a rolled back cleanup leaves a revision without its file |

*Why the bounds are enough.* Targets do not interact except through the
dispatcher's lists, so one is enough. Two runs of a target
are enough for every overlap: the constraint allows one active run, so the
second appears only after the first was released. Two contents make "changed" and
"unchanged" possible. Two artifacts make a partial storage and a partial rollback
possible; files are stored under the key of their run, no other run touches them,
so this is checked with one run (`runs_liveness`), where a target that is due again
after an earlier run is not exercised. Two replication jobs are an
attempt and its retry or forced repair, and only one can be recorded in the row. In
`RemoteTransfer` one artifact and the manifest are two files, which makes every
partial directory possible, and two failures an interrupted attempt whose repair
is interrupted too. In `LocalCleanup` three revisions give a gap to relink over and
a chain that could fork; `MaxLoad` trades revisions for calls, so that three
revisions meet one call, and two revisions two overlapping ones; one call that
removes two revisions has two files to move, one of which may fail.

`services`: two keys, of which the known_hosts file lists one, and two
connections, the fewest that can disagree; two processes, one password and the
download password, so that one process has restarted and the other has not; two
assignees and three drivers (one that has an alias); two files and two storages,
so that a part is staged and one remote deletion succeeds where the other fails;
three backups over four days with two waiting cleanups, which crosses the borders
of weeks and months; two packages with lifetime 1 and a clock to 3, so that one
sweeps while the other is on offer; two exports of two parts, so that the late
upload of the first meets the second; two audit jobs; a schedule with days of 4
ticks, the offset going from 0 to 2 at tick 3 and a clock to 6, so that the switch
to summer time falls between two slots.

Runs, jobs and ticks are finite supplies: when they are exhausted
nothing more happens, which is why deadlock is not checked and why
`DueTargetServed` and `RetryHappens` end where the supply does.

*Fairness.* `BackupRuns`: workers and the system job go on whenever they can
(weak); a queued job is taken if workers keep coming back, and the steps that a
Redis failure, a failing delete or a crash of the dispatcher can pre-empt are
strongly fair (its reconciliation, `InitializeTargetSchedules`, `DispatchScan`,
`DispatchWorkers`, the queueing of a target), since the job is started again every
minute and these failures are not permanent; time passes. `DueTargetServed` assumes in addition that
workers are up from some time on. `TargetHealth`: the refresh runs every minute
and does not die each time it writes. `Replication`: an upload ends, if only by
the timeout of its job; the minutely job runs; a remote cleanup goes on to its
end, so that its row lock is not held for ever (hence strong fairness of the steps
that wait for it). `RemoteTransfer`: a worker
goes on with what it began, and an upload is started again whenever it can be, by
the dispatcher while retries are left and by the operator afterwards; failures are
bounded, so they end. `Services` and `LocalCleanup` state safety only. Nothing is
assumed of users, crashes, errors or servers.

*Refinement.* `ReplicationImplementsCopy` maps the columns `expired` and
`available` to the claim of `RemoteCopy` (`Claim`): the tombstone is the claim
"gone" unless a reconciliation raced, because then a second job may have stored
files between the deletion and its commit. `TransferImplementsCopy` maps the files
in the directory to its copy. The first shows that jobs, retries, reconciliation
and retention keep the promise if an upload and a deletion do, the second that
they do, command by command.

## Findings

1. *A cancelled run does not always stay `Skipped`* (`runs_cancel`). The
   dispatcher lists the stale runs first and handles them one by one. A queued run
   whose push to Redis was lost becomes stale and is listed, the operator cancels
   it, the dispatcher finds the Core Job gone and calls `mark_failed`, which does
   not look at the status: the run ends as `Errored` with `STALE_RUN` and counts as
   a failure of the target. No worker takes part. `src/README.md:195` promises
   `Skipped`. That the run is never *executed* is proved
   (`CancelledRunNeverWorksHolds`).
2. *A reconciled run may execute* (`runs_reconcile`). Between the inspection of
   Redis and `job.delete()` a returning worker may take the job;
   `dispatcher.py:173` says the deletion prevents this. It takes
   an outage of all workers: while `workers = "steady"` no run is released that
   executes (proved, `ExclusiveExecutionHolds`).
3. *A daily slot in the past* (`schedule_back`). In the repeated hour after the
   clocks go back the comparison of wall-clock times picks a slot whose UTC
   instant is over, against the docstring at `scheduling.py:32`. When that slot
   was dispatched before, its dedupe key exists and the dispatcher rolls back
   every minute until somebody reschedules the target. Integrity audits use the
   same comparison.
4. *A healthy target may stay `Failed`* (`health_stale`). A reschedule saves the
   status of a row loaded before a success; the refresh keeps every `Failed`
   target failed, so that `Stale` (`src/README.md:186`) is not shown either.

5. *A rolled back cleanup on S3 may have lost a file* (`local_s3`). `stage_delete`
   copies the object and deletes the original; when the deletion takes effect and
   its answer is lost, the except branch removes the copy as well
   (`storage/s3.py:198-204`) and the caller has nothing to restore.
   `src/README.md:667` says that the cleanup restores the files. On a file system
   this cannot happen (proved, `NothingLostOnFileSystem`). The deletion of a target
   is exposed to the same failure (`astray`).

Limits, each visible in the history variables above:

- an exception after an effective commit of `commit_revision` makes the pipeline
  delete the files of a committed revision (`backup.py:185`, `unanswered`);
- an event of a failed backup that is dropped or overtaken by a late recovery is
  not repeated before the next success, since only the first failure announces;
  the same holds for the event of an audit;
- a Core Job whose worker was killed counts as enqueued for ever: its replica
  stays queued or running, and later cleanups and audits of its target or storage
  are skipped;
- after a reconciliation that raced, a tombstone may be committed over files that
  a second job stored after the deletion;
- an upload that cannot read the existing manifest reports a conflict
  (`destination_ftp.py:381-387`), and an audit that cannot read a file a problem of
  the copy;
- on FTP a file that others put under a final name between the look and the rename
  is replaced;
- a partial file on a mounted share, and a device renamed between upload and
  repair there, make every later attempt a conflict until somebody removes the
  file; on FTP neither does (`ConflictMeansForeign`, `RetryCompletes`);
- local retention takes the recorded path of an upload that never succeeded for a
  copy, and so does the remote plan for its newest copy, where
  `src/README.md:649-655` speaks of the latest usable revision;
- a remote copy that a rolled back transaction had deleted stays listed
  (`stripped`);
- two approvals that cross leave two trusted keys; with a known_hosts file a
  session may accept a key that was never trusted in the plugin;
- a driver that is reassigned and disabled while a run starts makes the run fail
  with `DRIVER_DISABLED`;
- a replica created during the deletion of its target leaves files nobody knows of.

## Proofs

The theorems state the safety properties of the passing runs for every value of
the constants: any number of targets, runs, jobs, revisions, files, faults and
requests. `PROJECT.json` lists them with the property each is about. A theorem
`Spec => []P` is proved from an inductive invariant that implies `P`; the proof
that a step keeps it has one step per action. TLC checked each invariant first.

**Assumptions.** Only the named `ASSUME` of each module: numbers are naturals, a
day, a week, a month, an interval, a backoff and a file have a positive length,
markers (`NoRun`, `NoJob`, `Manifest`, the download password, the word "none") are
not members of the sets they extend, a known_hosts file lists keys of the set, and
a backup has an artifact. TLC evaluates
them in the runs. `SchedulingProofs` has one hypothesis more, below.

**BackupRuns.** `TypeOK` needs `Bookkeeping`: `MarkFailed` updates the schedule of
`owner[r]`, which must be a target, and the dispatcher handles `cur`, which must be
a run that exists. `OneActiveRun` then follows from the guard of
`EnqueueBackupRun`. `Safety` adds `ExecutionState` (one about to commit has stored
everything; one that committed and is not `unanswered` is past every step that may
raise), because a rollback deletes the files of its run and must be known not to
follow a commit, and `CancelledState`. `ExclusiveExecution` needs `SteadyState`: while workers are
steady, a run that works, starts or can be taken has a live Core Job and RQ job
(`RunLive`), and a run the reconciliation has chosen has nobody who works or will
work for it (`NeverWorks`), although both were read before it acts. That is where
the outage of finding 2 breaks the argument. `NeighboursDiffer` needs
`SnapshotCurrent`: what an execution compared with is still the newest revision
when it commits, because it has its target to itself.

**Scheduling.** `SchedInv` says that every dedupe key lies behind the clock and
before the slot that is waited for. The arithmetic is in lemmas about `\div`, about
interval slots and about daily slots (`DailyNextLater`: of the dates the search
covers one is later than the reference). The theorems are about `SchedulingSpec`
and assume `NoFallBack`: the
policy counts intervals or `Before <= After`. Without it they are false, which is
finding 3.

**TargetHealth.** `HealthInv` is `FailureAnnounced` itself with the types and the
kinds of the pending events: once late hooks and dropped events are recorded in
`unsaid`, it is inductive.

**Replication.** `RowState` (a job that may work is enqueued, a path precedes the
upload, a job about to report success has uploaded everything) holds always;
`Exclusion` (the row belongs to the one job that is queued or works, and while the
cleanup holds it, also after its deletion returned, nothing is uploaded) as long as
no reconciliation raced. Both refinements are proved action by action: the initial
states are initial states of `RemoteCopy` and every step is a step of it or leaves
`copy`, `claim` and `intact` alone.

**RemoteTransfer.** The invariant follows one upload or deletion through its files:
the file under way is not in place unless others touched it after the look
(`FileUnderWay`, `w.late`), those it is through with are
in place or gone (`DoneFiles`), and while nobody did harm a file is whole, missing,
or on a share a part that the model accounts for (`Unharmed`). `NameKnown` says
that nothing carries a new name before the device has it, which is why an audit
raises no false alarm over a rename. `FinalNeverReplaced` and `ManifestBrackets`
are action properties and follow from the invariant at each step.

**LocalCleanup.** A call moves only files of what it removes, and destroys them
only after their revisions left the local storage (`Quarantined`); what it decided
under its locks still holds when it commits (`DecisionHolds`; what it decided to
forget has no copy any more). A successful replica has its copy or was stripped of
it (`PointersTrue`), which is what `HasCopy` needs when local files go, and
`CopyIsTracked` when rows go. With `MaxLost = 0` no file is ever lost
(`NothingLostOnFileSystem`). The relinking needs
that a set of revisions has a newest; `MaxOfInterval` gets it from the
well-foundedness of strict inclusion, since induction is out of reach.

**RetentionPlan.** `PlanInv` is the promise itself with the types and the fact that
copies are of successful backups. A plan keeps the newest copy and the protected
ones because being among the first `n` of a set is inherited by subsets
(`FirstOfSmaller`, `FirstOfGrows`, on cardinalities), and a bucket that has a copy
in its window keeps its newest (`NewestExists`, `BucketKept`); time only takes
buckets out of their windows (`Calendar`). It is proved for every policy, every
calendar and every set of revisions a cleanup defers.

**Services.** A step of the whole is a step of each part or leaves its variables
alone (`StepOfParts`), so that every part has an invariant of its own:
`DriverInv` (an assigned driver is enabled, and what a run has read is still
assigned unless the row moved on), `SecretInv` (once the command runs no
process encrypts with the old key, and after a clean dry run no row is on it),
`HostKeyInv` (two first connections about to commit have the same key; a trusted
key has a reason; an approval nobody overtook replaces all other trusted keys), `PackageInv` (a file was written after its job began, from where
the lifetime counts), `AuditInv` (the one active audit found the status the row
still has), `LifeInv` (every file is stored, in the quarantine of the deletion or
astray; the copies a deletion must remove are among those it saw, unless a row came
late), `ExportInv` (the setting is the device's own, or
`collect()` knows it and has yet to put it back; every file was written by the
backup whose name it has).

**Only model-checked**: the liveness properties (`ActiveRunEnds`,
`DueTargetServed`, `FailureShown`, `ReplicaSettles`, `RetryHappens`,
`RetryCompletes`), since fairness and ENABLED are out of the prover's reach; and
the five findings, which are counterexamples.

## Not modelled

- *SFTP destinations*: no caller reaches them, since
  `REPLICATED_DESTINATION_PROTOCOLS` leaves SFTP out.
- *The dialogues of the other drivers*: they only read; a run gets a configuration
  or an error from them, and `BackupRuns` has both.
- *The S3 migration command* copies objects and deletes none.
- *Vault and environment credentials* keep no state in the plugin; cryptography is
  taken to be correct.
- *Event payloads, metrics, dashboard, reports, pages, permissions, the REST API,
  schema migrations, connection tests, runtime status*: formatting, reading or
  declarations.
- *Batch limits* (100 targets or replicas in one pass), and *several destinations*
  in one remote cleanup, which are independent rows under one transaction.

## Plan

1. *Done*: all models above; theorems for every safety property of the passing
   runs, invariants, action properties and the two refinements.
2. Theorems that say more than a run does: what a cancelled or reconciled run can
   still become (the exact extent of findings 1 and 2); that the history variables
   are needed only where the table says, one theorem per situation.
3. Batch limits of the dispatchers with two targets.
4. Promises not stated yet: the bound on the retries of a replica; that a cleanup
   which deferred a revision in use comes back to it; that a target is served
   again after an earlier run.
