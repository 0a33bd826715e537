-------------------------- MODULE BackupRunsProofs --------------------------
(***************************************************************************)
(* TLAPS proofs about BackupRuns for any number of targets, runs, contents *)
(* and artifacts.                                                          *)
(***************************************************************************)
EXTENDS BackupRuns, TLAPS

-----------------------------------------------------------------------------
(* Type correctness.  TypeOK is inductive together with Bookkeeping: a step *)
(* of a worker reads the rows of owner[r], which must be a target.          *)

\* The empty database is within the types.
LEMMA InitTypeOK == Init => TypeOK /\ Bookkeeping
BY ConstantsAssumption DEF Init, TypeOK, Bookkeeping, RunStatuses, ActiveStatuses,
   FinalStatuses, Executing

\* A step of the job of a run (RQ, NetBox, BackupPipeline.execute) keeps the
\* types.
LEMMA WorkerTypeOK ==
    ASSUME TypeOK, Bookkeeping, NEW r \in Runs, Worker(r)
    PROVE  TypeOK'
<1> USE ConstantsAssumption DEF TypeOK, WorkerFrame, runVars, jobVars, workVars,
        revVars, dispVars, EnterExcept, LeaveTry, Returns, RaisesAfterCommit
<1>1. CASE Dequeue(r) BY <1>1 DEF Dequeue, Executing
<1>2. CASE JobStart(r) BY <1>2 DEF JobStart, Executing
<1>3. CASE MarkRunning(r)
  BY <1>3 DEF MarkRunning, Executing, RunStatuses, ActiveStatuses
<1>14. CASE MarkRunningRaises(r) BY <1>14 DEF MarkRunningRaises, Executing
<1>4. CASE Decide(r)
  <2>1. owner[r] \in Targets BY <1>4 DEF Decide, Bookkeeping
  <2>2. Newest(owner[r]) \in Runs \cup {NoRun} BY <2>1 DEF Newest
  <2> QED BY <1>4, <2>2 DEF Decide, Executing
<1>5. CASE \E c \in Contents : Collect(r, c) BY <1>5 DEF Collect, Executing
<1>6. CASE \E a \in Artifacts : PutArtifact(r, a)
  BY <1>6 DEF PutArtifact, Executing
<1>7. CASE CommitRevision(r) \/ CommitRevisionRaises(r)
  <2>0. RevisionCommits(r) BY <1>7 DEF CommitRevision, CommitRevisionRaises
  <2>1. owner[r] \in Targets BY <2>0 DEF RevisionCommits, Bookkeeping
  <2>2. Predecessor(r) \in Runs \cup {NoRun}
    BY <2>1 DEF Predecessor, Newest
  <2>3. revs' \in [Targets -> Seq(Runs)] BY <2>0, <2>1 DEF RevisionCommits
  <2>4. /\ status' \in [Runs -> RunStatuses]
        /\ content' \in [Runs -> Contents \cup {NoRun}]
        /\ prev' \in [Runs -> Runs \cup {NoRun}]
        /\ aged' \in [Runs -> BOOLEAN]
    BY <2>0, <2>2 DEF RevisionCommits, RunStatuses, FinalStatuses
  <2>5. nextRun' \in [Targets -> {"none", "future", "due"}]
    BY <2>0, <2>1 DEF RevisionCommits, MarkTargetSuccess
  <2>6. LeaveTry(r) /\ (Returns(r) \/ RaisesAfterCommit(r))
    BY <1>7 DEF CommitRevision, CommitRevisionRaises
  <2>10. unanswered' \in SUBSET Runs
    BY <1>7 DEF CommitRevision, CommitRevisionRaises
  <2>7. seen' \in [Runs -> Contents \cup {NoRun}] BY <2>6
  <2>8. latest' \in [Runs -> Runs \cup {NoRun}] BY <2>6
  <2>9. /\ pc' \in [Runs -> Executing \cup {"none", "ended", "dead"}]
        /\ fault' \in [Runs -> {"none", "failed", "errored"}]
    <3>1. CASE Returns(r)
      <4>1. pc' = [pc EXCEPT ![r] = "end"] /\ fault' = fault BY <3>1
      <4> QED BY <4>1 DEF Executing
    <3>2. CASE RaisesAfterCommit(r)
      <4>1. /\ pc' = [pc EXCEPT ![r] = "rollback"]
            /\ fault' = [fault EXCEPT ![r] = "errored"]
        BY <3>2
      <4>2. pc' \in [Runs -> Executing \cup {"none", "ended", "dead"}]
        BY <4>1 DEF Executing
      <4>3. fault' \in [Runs -> {"none", "failed", "errored"}] BY <4>1
      <4> QED BY <4>2, <4>3
    <3> QED BY <2>6, <3>1, <3>2
  <2> QED BY <2>0, <2>3, <2>4, <2>5, <2>7, <2>8, <2>9, <2>10 DEF RevisionCommits
<1>8. CASE CommitUnchanged(r) \/ CommitUnchangedRaises(r)
  <2>0. UnchangedCommits(r) BY <1>8 DEF CommitUnchanged, CommitUnchangedRaises
  <2>1. owner[r] \in Targets BY <2>0 DEF UnchangedCommits, Bookkeeping
  <2>3. nextRun' \in [Targets -> {"none", "future", "due"}]
    BY <2>0, <2>1 DEF UnchangedCommits, MarkTargetSuccess
  <2>4. status' \in [Runs -> RunStatuses]
    BY <2>0 DEF UnchangedCommits, RunStatuses, FinalStatuses
  <2>6. LeaveTry(r) /\ (Returns(r) \/ RaisesAfterCommit(r))
    BY <1>8 DEF CommitUnchanged, CommitUnchangedRaises
  <2>7. seen' \in [Runs -> Contents \cup {NoRun}] BY <2>6
  <2>8. latest' \in [Runs -> Runs \cup {NoRun}] BY <2>6
  <2>9. /\ pc' \in [Runs -> Executing \cup {"none", "ended", "dead"}]
        /\ fault' \in [Runs -> {"none", "failed", "errored"}]
    <3>1. CASE Returns(r)
      <4>1. pc' = [pc EXCEPT ![r] = "end"] /\ fault' = fault BY <3>1
      <4> QED BY <4>1 DEF Executing
    <3>2. CASE RaisesAfterCommit(r)
      <4>1. /\ pc' = [pc EXCEPT ![r] = "rollback"]
            /\ fault' = [fault EXCEPT ![r] = "errored"]
        BY <3>2
      <4>2. pc' \in [Runs -> Executing \cup {"none", "ended", "dead"}]
        BY <4>1 DEF Executing
      <4>3. fault' \in [Runs -> {"none", "failed", "errored"}] BY <4>1
      <4> QED BY <4>2, <4>3
    <3> QED BY <2>6, <3>1, <3>2
  <2> QED BY <2>0, <2>3, <2>4, <2>7, <2>8, <2>9 DEF UnchangedCommits
<1>9. CASE ExpectedError(r) BY <1>9 DEF ExpectedError, Executing
<1>10. CASE UnexpectedError(r) BY <1>10 DEF UnexpectedError, Executing
<1>11. CASE RollbackStorage(r)
  BY <1>11 DEF RollbackStorage, Remaining, Executing
<1>12. CASE ReportFailure(r)
  <2>1. fault[r] \in {"failed", "errored"}
    BY <1>12 DEF ReportFailure, Bookkeeping
  <2> QED
    BY <1>12, <2>1 DEF ReportFailure, MarkFailed, Executing, RunStatuses, FinalStatuses
<1>13. CASE JobEnd(r) BY <1>13 DEF JobEnd, Forget, Executing
<1>15. CASE JobRaises(r) BY <1>15 DEF JobRaises, Executing
<1> QED
  BY <1>1, <1>2, <1>3, <1>4, <1>5, <1>6, <1>7, <1>8, <1>9, <1>10, <1>11,
     <1>12, <1>13, <1>14, <1>15 DEF Worker

\* So does a step of ScheduledBackupDispatcherJob,
LEMMA DispatcherTypeOK ==
    ASSUME TypeOK, Bookkeeping, Dispatcher
    PROVE  TypeOK'
<1> USE ConstantsAssumption DEF TypeOK, DispatcherFrame, runVars, jobVars,
        workVars, revVars, dispVars
<1>1. CASE DispatcherStart BY <1>1 DEF DispatcherStart, StaleRuns
<1>2. ASSUME NEW r \in Runs,
             ReconcileEndedJob(r) \/ ReconcileLiveJob(r) \/ ReconcileOrphan(r)
      PROVE  TypeOK'
  BY <1>2 DEF ReconcileEndedJob, ReconcileLiveJob, ReconcileOrphan
<1>3. ASSUME NEW r \in Runs, ReconcileUnknown(r) PROVE TypeOK'
  BY <1>3 DEF ReconcileUnknown
<1>4. CASE ReconcileDelete BY <1>4 DEF ReconcileDelete
<1>5. CASE ReconcileDeleteFails BY <1>5 DEF ReconcileDeleteFails
<1>6. CASE ReconcileMarkFailed
  BY <1>6 DEF ReconcileMarkFailed, MarkFailed, RunStatuses, FinalStatuses
<1>7. CASE InitializeTargetSchedules
  BY <1>7 DEF InitializeTargetSchedules, Initialized
<1>10. CASE DispatchScan BY <1>10 DEF DispatchScan, DueTargets
<1>11. CASE DispatchWorkers \/ DispatchUnknown
  BY <1>11 DEF DispatchWorkers, DispatchUnknown
<1>8. ASSUME NEW t \in Targets, DispatchSkip(t) PROVE TypeOK'
  BY <1>8 DEF DispatchSkip
<1>9. ASSUME NEW t \in Targets, NEW r \in Runs, DispatchTarget(t, r)
      PROVE  TypeOK'
  BY <1>9 DEF DispatchTarget, EnqueueBackupRun, RunStatuses, ActiveStatuses
<1> QED
  BY <1>1, <1>2, <1>3, <1>4, <1>5, <1>6, <1>7, <1>8, <1>9, <1>10, <1>11
  DEF Dispatcher

\* a crash or an outage,
LEMMA FaultsTypeOK ==
    ASSUME TypeOK, Faults
    PROVE  TypeOK'
<1> USE ConstantsAssumption DEF TypeOK, runVars, jobVars, workVars, revVars,
        dispVars
<1>1. ASSUME NEW r \in Runs, WorkerCrash(r) PROVE TypeOK'
  BY <1>1 DEF WorkerCrash, Forget, WorkerFrame, Executing
<1>2. ASSUME NEW r \in Runs, RqCleanup(r) PROVE TypeOK'
  BY <1>2 DEF RqCleanup, WorkerFrame
<1>3. CASE WorkersDown BY <1>3 DEF WorkersDown, Forget
<1>4. CASE WorkersReturn BY <1>4 DEF WorkersReturn
<1>5. CASE DispatcherCrash BY <1>5 DEF DispatcherCrash, DispatcherFrame
<1> QED BY <1>1, <1>2, <1>3, <1>4, <1>5 DEF Faults

\* and a user's request or the passing of time.
LEMMA EnvironmentTypeOK ==
    ASSUME TypeOK, Environment
    PROVE  TypeOK'
<1> USE ConstantsAssumption DEF TypeOK, runVars, jobVars, workVars, revVars,
        dispVars, EnvFrame
<1>1. ASSUME NEW t \in Targets, NEW b \in BOOLEAN, SetEnabled(t, b)
      PROVE  TypeOK'
  BY <1>1 DEF SetEnabled
<1>2. ASSUME NEW t \in Targets, ScheduleComesDue(t) PROVE TypeOK'
  BY <1>2 DEF ScheduleComesDue
<1>3. ASSUME NEW t \in Targets, NEW r \in Runs, ManualBackup(t, r)
      PROVE  TypeOK'
  <2>1. /\ status' \in [Runs -> RunStatuses]
        /\ owner' \in [Runs -> Targets \cup {NoRun}]
        /\ job' \in [Runs -> {"none", "pending", "running", "completed", "failed"}]
        /\ rq' \in [Runs -> {"none", "queued", "started", "finished", "failed"}]
    BY <1>3 DEF ManualBackup, EnqueueBackupRun, RunStatuses, ActiveStatuses
  <2> QED BY <1>3, <2>1 DEF ManualBackup, EnqueueBackupRun
<1>4. ASSUME NEW r \in Runs, CancelQueuedRun(r) PROVE TypeOK'
  BY <1>4 DEF CancelQueuedRun, RunStatuses, FinalStatuses
<1>5. ASSUME NEW r \in Runs, RunAges(r) PROVE TypeOK'
  BY <1>5 DEF RunAges
<1> QED BY <1>1, <1>2, <1>3, <1>4, <1>5 DEF Environment

\* Every step keeps the types.
LEMMA NextTypeOK == ASSUME TypeOK, Bookkeeping, [Next]_vars PROVE TypeOK'
<1>1. CASE UNCHANGED vars
  BY <1>1 DEF TypeOK, vars, runVars, jobVars, workVars, revVars, dispVars
<1> QED
  BY <1>1, WorkerTypeOK, DispatcherTypeOK, FaultsTypeOK, EnvironmentTypeOK
  DEF Next

\* Every step keeps the bookkeeping between runs, jobs and executions.
LEMMA NextBookkeeping ==
    ASSUME TypeOK, Bookkeeping, [Next]_vars
    PROVE  Bookkeeping'
<1> USE ConstantsAssumption DEF TypeOK, Bookkeeping, Executing, Working, ActiveStatuses,
        runVars, jobVars,
        workVars, revVars, dispVars, EnterExcept, LeaveTry, Returns, RaisesAfterCommit
<1>1. ASSUME NEW r \in Runs, Dequeue(r)
      PROVE  Bookkeeping'
  BY <1>1 DEF Dequeue, WorkerFrame
<1>2. ASSUME NEW r \in Runs, JobStart(r)
      PROVE  Bookkeeping'
  BY <1>2 DEF JobStart, WorkerFrame
<1>3. ASSUME NEW r \in Runs, MarkRunning(r)
      PROVE  Bookkeeping'
  BY <1>3 DEF MarkRunning, MayStart, WorkerFrame
<1>4. ASSUME NEW r \in Runs, MarkRunningRaises(r)
      PROVE  Bookkeeping'
  BY <1>4 DEF MarkRunningRaises, WorkerFrame
<1>5. ASSUME NEW r \in Runs, Decide(r)
      PROVE  Bookkeeping'
  BY <1>5 DEF Decide, WorkerFrame
<1>6. ASSUME NEW r \in Runs, NEW c \in Contents, Collect(r, c)
      PROVE  Bookkeeping'
  BY <1>6 DEF Collect, WorkerFrame
<1>7. ASSUME NEW r \in Runs, NEW a \in Artifacts, PutArtifact(r, a)
      PROVE  Bookkeeping'
  BY <1>7 DEF PutArtifact, WorkerFrame
<1>8. ASSUME NEW r \in Runs, CommitRevision(r) \/ CommitRevisionRaises(r)
      PROVE  Bookkeeping'
  BY <1>8 DEF CommitRevision, CommitRevisionRaises, RevisionCommits,
     MarkTargetSuccess, Predecessor, WorkerFrame
<1>9. ASSUME NEW r \in Runs, CommitUnchanged(r) \/ CommitUnchangedRaises(r)
      PROVE  Bookkeeping'
  BY <1>9 DEF CommitUnchanged, CommitUnchangedRaises, UnchangedCommits,
     MarkTargetSuccess, WorkerFrame
<1>10. ASSUME NEW r \in Runs, ExpectedError(r)
      PROVE  Bookkeeping'
  BY <1>10 DEF ExpectedError, WorkerFrame
<1>11. ASSUME NEW r \in Runs, UnexpectedError(r)
      PROVE  Bookkeeping'
  BY <1>11 DEF UnexpectedError, Raising, WorkerFrame
<1>12. ASSUME NEW r \in Runs, RollbackStorage(r)
      PROVE  Bookkeeping'
  BY <1>12 DEF RollbackStorage, Remaining, WorkerFrame
<1>13. ASSUME NEW r \in Runs, ReportFailure(r)
      PROVE  Bookkeeping'
  <2>1. status[r] # "absent" /\ owner[r] \in Targets
    BY <1>13 DEF ReportFailure
  <2>2. fault[r] \in {"failed", "errored"}
    BY <1>13 DEF ReportFailure
  <2>3. /\ status' = [status EXCEPT ![r] = fault[r]]
        /\ pc' = [pc EXCEPT ![r] = "end"]
        /\ UNCHANGED <<owner, rq, fault, todo, disp, cur>>
    BY <1>13 DEF ReportFailure, MarkFailed, WorkerFrame
  <2>4. \A s \in Runs : /\ status'[s] = "absent" => status[s] = "absent" /\ s # r
                        /\ status[s] = "absent" => status'[s] = "absent"
    BY <2>1, <2>2, <2>3
  <2>5. \A s \in Runs : pc'[s] = IF s = r THEN "end" ELSE pc[s]
    BY <2>3
  <2>6. pc[r] = "fail" BY <1>13 DEF ReportFailure
  <2>7. \A s \in Runs : status'[s] # "absent" => owner'[s] \in Targets
    BY <2>3, <2>4
  <2>8. \A s \in Runs : /\ status'[s] = "absent" => pc'[s] = "none" /\ rq'[s] = "none"
                        /\ rq'[s] = "queued" => pc'[s] = "none"
                        /\ pc'[s] \in {"rollback", "fail"} => fault'[s] # "none"
    BY <2>3, <2>4, <2>5, <2>6
  <2>9. /\ \A s \in todo' : status'[s] # "absent"
        /\ disp' \in {"job_delete", "mark_failed"} => cur' \in todo'
    BY <2>3, <2>4
  <2> QED BY <2>7, <2>8, <2>9
<1>14. ASSUME NEW r \in Runs, JobEnd(r)
      PROVE  Bookkeeping'
  BY <1>14 DEF JobEnd, Forget, WorkerFrame
<1>15. ASSUME NEW r \in Runs, WorkerCrash(r)
      PROVE  Bookkeeping'
  BY <1>15 DEF WorkerCrash, Forget, WorkerFrame
<1>16. ASSUME NEW r \in Runs, RqCleanup(r)
      PROVE  Bookkeeping'
  BY <1>16 DEF RqCleanup, WorkerFrame
<1>17. CASE DispatcherStart
  BY <1>17 DEF DispatcherStart, StaleRuns, DispatcherFrame
<1>18. ASSUME NEW r \in Runs, ReconcileEndedJob(r)
      PROVE  Bookkeeping'
  BY <1>18 DEF ReconcileEndedJob, DispatcherFrame
<1>19. ASSUME NEW r \in Runs, ReconcileLiveJob(r)
      PROVE  Bookkeeping'
  BY <1>19 DEF ReconcileLiveJob, DispatcherFrame
<1>20. ASSUME NEW r \in Runs, ReconcileOrphan(r)
      PROVE  Bookkeeping'
  BY <1>20 DEF ReconcileOrphan, DispatcherFrame
<1>21. ASSUME NEW r \in Runs, ReconcileUnknown(r)
      PROVE  Bookkeeping'
  BY <1>21 DEF ReconcileUnknown, DispatcherFrame
<1>22. CASE ReconcileDelete
  BY <1>22 DEF ReconcileDelete, DispatcherFrame
<1>23. CASE ReconcileDeleteFails
  BY <1>23 DEF ReconcileDeleteFails, DispatcherFrame
<1>24. CASE ReconcileMarkFailed
  BY <1>24 DEF ReconcileMarkFailed, MarkFailed, DispatcherFrame
<1>25. CASE \/ InitializeTargetSchedules \/ DispatchScan
            \/ DispatchWorkers \/ DispatchUnknown
  BY <1>25 DEF InitializeTargetSchedules, DispatchScan, DispatchWorkers,
     DispatchUnknown, DispatcherFrame
<1>26. ASSUME NEW t \in Targets, DispatchSkip(t)
      PROVE  Bookkeeping'
  BY <1>26 DEF DispatchSkip, DispatcherFrame
<1>27. ASSUME NEW t \in Targets, NEW r \in Runs, DispatchTarget(t, r)
      PROVE  Bookkeeping'
  BY <1>27 DEF DispatchTarget, EnqueueBackupRun, DispatcherFrame
<1>28. CASE DispatcherCrash
  BY <1>28 DEF DispatcherCrash, DispatcherFrame
<1>29. ASSUME NEW t \in Targets, NEW b \in BOOLEAN, SetEnabled(t, b)
      PROVE  Bookkeeping'
  BY <1>29 DEF SetEnabled, EnvFrame
<1>30. ASSUME NEW t \in Targets, ScheduleComesDue(t)
      PROVE  Bookkeeping'
  BY <1>30 DEF ScheduleComesDue, EnvFrame
<1>31. ASSUME NEW t \in Targets, NEW r \in Runs, ManualBackup(t, r)
      PROVE  Bookkeeping'
  BY <1>31 DEF ManualBackup, EnqueueBackupRun
<1>32. ASSUME NEW r \in Runs, CancelQueuedRun(r)
      PROVE  Bookkeeping'
  BY <1>32 DEF CancelQueuedRun
<1>33. ASSUME NEW r \in Runs, RunAges(r)
      PROVE  Bookkeeping'
  BY <1>33 DEF RunAges, EnvFrame
<1>34. CASE WorkersDown
  BY <1>34 DEF WorkersDown, Forget
<1>35. CASE WorkersReturn
  BY <1>35 DEF WorkersReturn
<1>37. ASSUME NEW r \in Runs, JobRaises(r)
      PROVE  Bookkeeping'
  BY <1>37 DEF JobRaises, WorkerFrame
<1>36. CASE UNCHANGED vars BY <1>36 DEF vars
<1> QED
  BY <1>1, <1>2, <1>3, <1>4, <1>5, <1>6, <1>7, <1>8, <1>9, <1>10, <1>11,
     <1>12, <1>13, <1>14, <1>15, <1>16, <1>17, <1>18, <1>19, <1>20, <1>21,
     <1>22, <1>23, <1>24, <1>25, <1>26, <1>27, <1>28, <1>29, <1>30, <1>31,
     <1>32, <1>33, <1>34, <1>35, <1>36, <1>37
  DEF Next, Worker, Dispatcher, Faults, Environment

\* The state of every table stays within its type, for any instance: the type
\* invariant of the component.
THEOREM TypeCorrect == Spec => [](TypeOK /\ Bookkeeping)
<1>1. TypeOK /\ Bookkeeping /\ [Next]_vars => (TypeOK /\ Bookkeeping)'
  BY NextTypeOK, NextBookkeeping
<1> QED BY InitTypeOK, <1>1, PTL DEF Spec

-----------------------------------------------------------------------------
(* One active run per target *)

\* No step gives a target a second active run: only enqueue_backup_run makes
\* a run active, and the unique constraint guards it.
LEMMA NextOneActiveRun ==
    ASSUME TypeOK, Bookkeeping, OneActiveRun, [Next]_vars
    PROVE  OneActiveRun'
<1> USE ConstantsAssumption
    DEF TypeOK, OneActiveRun, ActiveStatuses, runVars
<1>1. ASSUME NEW r \in Runs, MarkRunning(r) PROVE OneActiveRun'
  BY <1>1 DEF MarkRunning, MayStart
<1>2. ASSUME NEW r \in Runs, RevisionCommits(r) PROVE OneActiveRun'
  BY <1>2 DEF RevisionCommits
<1>3. ASSUME NEW r \in Runs, UnchangedCommits(r) PROVE OneActiveRun'
  BY <1>3 DEF UnchangedCommits
<1>4. ASSUME NEW r \in Runs, ReportFailure(r) PROVE OneActiveRun'
  <2>1. fault[r] \in {"failed", "errored"}
    BY <1>4 DEF ReportFailure, Bookkeeping
  <2> QED BY <1>4, <2>1 DEF ReportFailure, MarkFailed
<1>5. CASE ReconcileMarkFailed
  BY <1>5 DEF ReconcileMarkFailed, MarkFailed
<1>6. ASSUME NEW t \in Targets, NEW r \in Runs, EnqueueBackupRun(t, r)
      PROVE  OneActiveRun'
  BY <1>6 DEF EnqueueBackupRun, HasActiveRun
<1>7. ASSUME NEW r \in Runs, CancelQueuedRun(r) PROVE OneActiveRun'
  BY <1>7 DEF CancelQueuedRun
<1>8. CASE UNCHANGED <<status, owner>>
  BY <1>8
<1> QED
  BY <1>1, <1>2, <1>3, <1>4, <1>5, <1>6, <1>7, <1>8
  DEF Next, Worker, Dispatcher, Faults, Environment, vars,
      Dequeue, JobStart, MarkRunningRaises, Decide, Collect, PutArtifact,
      CommitRevision, CommitRevisionRaises, CommitUnchanged, CommitUnchangedRaises,
      EnterExcept, ExpectedError, UnexpectedError, RollbackStorage, JobRaises, JobEnd,
      WorkerCrash,
      RqCleanup, WorkersDown, WorkersReturn, DispatcherCrash, DispatcherStart,
      ReconcileEndedJob, ReconcileLiveJob, ReconcileOrphan, ReconcileUnknown,
      ReconcileDelete, ReconcileDeleteFails, InitializeTargetSchedules, DispatchScan,
      DispatchWorkers, DispatchUnknown, DispatchSkip,
      DispatchTarget, ManualBackup, SetEnabled, ScheduleComesDue, RunAges

\* No target ever has two queued or running runs, whatever dispatcher, users,
\* workers and reconciliation do, for any number of targets and runs.
THEOREM OneActiveRunHolds == Spec => []OneActiveRun
<1>1. Init => OneActiveRun
  BY DEF Init, OneActiveRun, ActiveStatuses
<1>2. TypeOK /\ Bookkeeping /\ OneActiveRun /\ [Next]_vars => OneActiveRun'
  BY NextOneActiveRun
<1> QED BY TypeCorrect, <1>1, <1>2, PTL DEF Spec

-----------------------------------------------------------------------------
(* Revisions and their files *)

\* commit_revision took effect, whether or not its caller learns of it.
CommitStep(r) ==
    /\ RevisionCommits(r)
    /\ \/ Returns(r) /\ UNCHANGED unanswered
       \/ RaisesAfterCommit(r) /\ unanswered' = unanswered \cup {r}

\* So did commit_unchanged.
UnchangedStep(r) == UnchangedCommits(r) /\ (Returns(r) \/ RaisesAfterCommit(r))

\* These are the commits of the pipeline.
LEMMA CommitSteps ==
    ASSUME NEW r \in Runs
    PROVE  /\ CommitStep(r) <=> CommitRevision(r) \/ CommitRevisionRaises(r)
           /\ UnchangedStep(r) <=> CommitUnchanged(r) \/ CommitUnchangedRaises(r)
BY DEF CommitStep, UnchangedStep, CommitRevision, CommitRevisionRaises,
   CommitUnchanged, CommitUnchangedRaises

\* What Append does to the revisions of a target.
LEMMA AppendCommits ==
    ASSUME TypeOK, NEW t \in Targets, NEW r \in Runs,
           revs' = [revs EXCEPT ![t] = Append(@, r)]
    PROVE  /\ Len(revs'[t]) = Len(revs[t]) + 1
           /\ revs'[t][Len(revs[t]) + 1] = r
           /\ \A i \in 1..Len(revs[t]) : revs'[t][i] = revs[t][i]
           /\ \A u \in Targets \ {t} : revs'[u] = revs[u]
           /\ \A s \in Runs : Committed(s)' => Committed(s) \/ s = r
BY DEF TypeOK, Committed

\* Every step keeps what an execution's position says about its run: where it
\* commits, all is stored, and a commit that was answered is never rolled back.
LEMMA NextExecutionState ==
    ASSUME TypeOK, Bookkeeping, ExecutionState, [Next]_vars
    PROVE  ExecutionState'
<1> USE ConstantsAssumption
    DEF TypeOK, Bookkeeping, ExecutionState, Working, Executing, Committed,
        Stored, runVars, jobVars, workVars, revVars, WorkerFrame
<1>1. ASSUME NEW r \in Runs, Dequeue(r) PROVE ExecutionState'
  BY <1>1 DEF Dequeue
<1>2. ASSUME NEW r \in Runs, JobStart(r) PROVE ExecutionState'
  BY <1>2 DEF JobStart
<1>3. ASSUME NEW r \in Runs, MarkRunning(r) PROVE ExecutionState'
  BY <1>3 DEF MarkRunning
<1>4. ASSUME NEW r \in Runs, MarkRunningRaises(r) PROVE ExecutionState'
  BY <1>4 DEF MarkRunningRaises, EnterExcept, LeaveTry
<1>5. ASSUME NEW r \in Runs, Decide(r) PROVE ExecutionState'
  BY <1>5 DEF Decide
<1>6. ASSUME NEW r \in Runs, NEW c \in Contents, Collect(r, c)
      PROVE  ExecutionState'
  BY <1>6 DEF Collect
<1>7. ASSUME NEW r \in Runs, NEW a \in Artifacts, PutArtifact(r, a)
      PROVE  ExecutionState'
  BY <1>7 DEF PutArtifact
<1>8. ASSUME NEW r \in Runs, CommitStep(r) PROVE ExecutionState'
  <2>0. /\ pc[r] = "commit" /\ owner[r] \in Targets
        /\ revs' = [revs EXCEPT ![owner[r]] = Append(@, r)]
        /\ files' = files
    BY <1>8 DEF CommitStep, RevisionCommits
  <2>1. \A s \in Runs : Committed(s)' => Committed(s) \/ s = r
    BY <2>0, AppendCommits
  <2>2. ~ Committed(r) BY <2>0
  <2>3. \A s \in Runs \ {r} : pc'[s] = pc[s] /\ status'[s] = status[s]
    BY <1>8 DEF CommitStep, RevisionCommits, Returns, RaisesAfterCommit, EnterExcept
  <2>4. \/ pc'[r] = "end" /\ unanswered' = unanswered
        \/ pc'[r] = "rollback" /\ unanswered' = unanswered \cup {r}
    BY <1>8 DEF CommitStep, Returns, RaisesAfterCommit, EnterExcept
  <2>5. \A s \in Runs : pc'[s] \in Working => status'[s] # "queued"
    BY <2>3, <2>4
  <2>6. \A s \in Runs : pc'[s] = "commit" => Stored(s)' = Artifacts
    BY <2>0, <2>3, <2>4
  <2>7. \A s \in Runs :
          /\ Committed(s)' => pc'[s] \in {"rollback", "fail", "end", "ended", "dead"}
          /\ Committed(s)' /\ s \notin unanswered' => pc'[s] \in {"end", "ended", "dead"}
    <3> HIDE DEF Committed
    <3> QED BY <2>1, <2>3, <2>4
  <2> QED BY <2>5, <2>6, <2>7
<1>9. ASSUME NEW r \in Runs, UnchangedStep(r) PROVE ExecutionState'
  <2>1. pc[r] = "same" /\ UNCHANGED <<files, revs, unanswered>>
    BY <1>9 DEF UnchangedStep, UnchangedCommits
  <2>2. \E p \in {"end", "rollback"} : pc' = [pc EXCEPT ![r] = p]
    BY <1>9 DEF UnchangedStep, Returns, RaisesAfterCommit, EnterExcept
  <2>3. status' = [status EXCEPT ![r] = "success_unchanged"]
    BY <1>9 DEF UnchangedStep, UnchangedCommits
  <2> QED BY <2>1, <2>2, <2>3
<1>10. ASSUME NEW r \in Runs, ExpectedError(r) \/ UnexpectedError(r)
       PROVE  ExecutionState'
  <2>1. CASE ExpectedError(r) BY <2>1 DEF ExpectedError, EnterExcept
  <2>2. CASE UnexpectedError(r)
    <3>1. pc[r] \in Working \cup {"start"} /\ pc' = [pc EXCEPT ![r] = "rollback"]
      BY <2>2 DEF UnexpectedError, Raising, EnterExcept
    <3>2. UNCHANGED <<status, files, revs, unanswered>> BY <2>2 DEF UnexpectedError
    <3> QED BY <3>1, <3>2
  <2> QED BY <1>10, <2>1, <2>2
<1>11. ASSUME NEW r \in Runs, RollbackStorage(r) PROVE ExecutionState'
  <2>2. \A s \in Runs \ {r} : \A a \in Artifacts :
           <<s, a>> \in files' <=> <<s, a>> \in files
    BY <1>11 DEF RollbackStorage, Remaining
  <2> QED BY <1>11, <2>2 DEF RollbackStorage
<1>12. ASSUME NEW r \in Runs, ReportFailure(r) PROVE ExecutionState'
  BY <1>12 DEF ReportFailure, MarkFailed
<1>13. ASSUME NEW r \in Runs, JobEnd(r) \/ WorkerCrash(r)
       PROVE  ExecutionState'
  <2>1. CASE JobEnd(r) BY <2>1 DEF JobEnd
  <2>2. CASE WorkerCrash(r) BY <2>2 DEF WorkerCrash
  <2> QED BY <1>13, <2>1, <2>2
<1>14. CASE WorkersDown BY <1>14 DEF WorkersDown
<1>15. CASE ReconcileMarkFailed
  BY <1>15 DEF ReconcileMarkFailed, MarkFailed, DispatcherFrame
<1>16. ASSUME NEW t \in Targets, NEW r \in Runs, EnqueueBackupRun(t, r),
              UNCHANGED <<pc, files, revs, unanswered>>
       PROVE  ExecutionState'
  BY <1>16 DEF EnqueueBackupRun
<1>17. ASSUME NEW r \in Runs, CancelQueuedRun(r) PROVE ExecutionState'
  BY <1>17 DEF CancelQueuedRun
<1>19. ASSUME NEW r \in Runs, JobRaises(r) PROVE ExecutionState'
  BY <1>19 DEF JobRaises
<1>18. CASE UNCHANGED <<status, pc, files, revs, unanswered>> BY <1>18
<1> QED
  BY <1>1, <1>2, <1>3, <1>4, <1>5, <1>6, <1>7, <1>8, <1>9, <1>10, <1>11,
     <1>12, <1>13, <1>14, <1>15, <1>16, <1>17, <1>18, <1>19, CommitSteps
  DEF Next, Worker, Dispatcher, Faults, Environment, vars,
      RqCleanup, WorkersReturn, DispatcherCrash, DispatcherStart,
      ReconcileEndedJob, ReconcileLiveJob, ReconcileOrphan, ReconcileUnknown,
      ReconcileDelete, ReconcileDeleteFails, InitializeTargetSchedules, DispatchScan,
      DispatchWorkers, DispatchUnknown, DispatchSkip,
      DispatchTarget, ManualBackup, SetEnabled, ScheduleComesDue, RunAges,
      DispatcherFrame, EnvFrame

Quiet == UNCHANGED <<files, prev, revs, unanswered>>

\* Every step but these leaves revisions and files alone.
LEMMA RevisionSteps ==
    ASSUME [Next]_vars
    PROVE  \/ Quiet
           \/ \E r \in Runs : \/ CommitStep(r) \/ RollbackStorage(r)
                              \/ \E a \in Artifacts : PutArtifact(r, a)
BY CommitSteps DEF Quiet, Next, Worker, Dispatcher, Faults, Environment, vars, runVars,
   jobVars, workVars, revVars, WorkerFrame, DispatcherFrame, EnvFrame,
   Dequeue, JobStart, MarkRunning, MarkRunningRaises, Decide, Collect,
   UnchangedStep, UnchangedCommits, EnterExcept, ExpectedError, UnexpectedError,
   ReportFailure, JobRaises,
   JobEnd, WorkerCrash,
   RqCleanup, WorkersDown, WorkersReturn, DispatcherCrash, DispatcherStart,
   ReconcileEndedJob, ReconcileLiveJob, ReconcileOrphan, ReconcileUnknown,
   ReconcileDelete, ReconcileDeleteFails, ReconcileMarkFailed,
   InitializeTargetSchedules, DispatchScan,
   DispatchWorkers, DispatchUnknown,
   DispatchSkip, DispatchTarget, ManualBackup, CancelQueuedRun, SetEnabled,
   ScheduleComesDue, RunAges

\* No step, a rollback least of all, takes a file of a revision whose commit
\* was answered.
LEMMA NextRevisionFilesStored ==
    ASSUME TypeOK, Bookkeeping, ExecutionState, RevisionFilesStored, [Next]_vars
    PROVE  RevisionFilesStored'
<1> USE DEF TypeOK, RevisionFilesStored, Stored
<1>1. CASE Quiet BY <1>1 DEF Quiet, Committed
<1>2. ASSUME NEW r \in Runs, CommitStep(r) PROVE RevisionFilesStored'
  <2>1. owner[r] \in Targets BY <1>2 DEF CommitStep, RevisionCommits, Bookkeeping
  <2>2. \A s \in Runs : Committed(s)' => Committed(s) \/ s = r
    BY <1>2, <2>1, AppendCommits DEF CommitStep, RevisionCommits
  <2> QED BY <1>2, <2>2 DEF CommitStep, RevisionCommits, ExecutionState
<1>4. ASSUME NEW r \in Runs, RollbackStorage(r) PROVE RevisionFilesStored'
  <2>1. Committed(r) => r \in unanswered BY <1>4 DEF RollbackStorage, ExecutionState
  <2>2. \A s \in Runs \ {r} : \A a \in Artifacts :
           <<s, a>> \in files' <=> <<s, a>> \in files
    BY <1>4 DEF RollbackStorage, Remaining
  <2>3. \A s \in Runs : Committed(s)' <=> Committed(s)
    BY <1>4 DEF RollbackStorage, Committed, revVars
  <2>4. unanswered' = unanswered BY <1>4 DEF RollbackStorage, revVars
  <2> QED BY <2>1, <2>2, <2>3, <2>4
<1>5. ASSUME NEW r \in Runs, NEW a \in Artifacts, PutArtifact(r, a)
      PROVE  RevisionFilesStored'
  <2>1. \A f \in files : f \in files' BY <1>5 DEF PutArtifact
  <2>2. \A s \in Runs : Committed(s)' <=> Committed(s)
    BY <1>5 DEF PutArtifact, Committed, revVars
  <2>3. unanswered' = unanswered BY <1>5 DEF PutArtifact, revVars
  <2> QED BY <2>1, <2>2, <2>3
<1> QED BY <1>1, <1>2, <1>4, <1>5, RevisionSteps

\* commit_revision extends the chain at its end: the predecessor is read under
\* the target's row lock.
LEMMA NextRevisionChain ==
    ASSUME TypeOK, Bookkeeping, ExecutionState, RevisionChain, [Next]_vars
    PROVE  RevisionChain'
<1> USE ConstantsAssumption DEF TypeOK
<1>1. CASE Quiet
  BY <1>1 DEF Quiet, RevisionChain
<1>2. ASSUME NEW r \in Runs, CommitStep(r)
      PROVE  RevisionChain'
  <2>1. PICK t \in Targets : t = owner[r]
    BY <1>2 DEF CommitStep, RevisionCommits, Bookkeeping
  <2>0. revs[t] \in Seq(Runs) BY <2>1
  <2>5. PICK n \in Nat : n = Len(revs[t]) BY <2>0
  <2>2. /\ Len(revs'[t]) = n + 1
        /\ revs'[t][n + 1] = r
        /\ \A i \in 1..n : revs'[t][i] = revs[t][i]
        /\ \A u \in Targets \ {t} : revs'[u] = revs[u]
    BY <1>2, <2>1, <2>5, AppendCommits DEF CommitStep, RevisionCommits
  <2>3. ~ Committed(r) BY <1>2 DEF CommitStep, RevisionCommits, ExecutionState
  <2>4. \A u \in Targets : \A i \in 1..Len(revs[u]) :
           revs[u][i] \in Runs \ {r} /\ prev'[revs[u][i]] = prev[revs[u][i]]
    BY <1>2, <2>3 DEF CommitStep, RevisionCommits, Committed
  <2>6. prev'[r] = IF n = 0 THEN NoRun ELSE revs[t][n]
    BY <1>2, <2>1, <2>5 DEF CommitStep, RevisionCommits, Predecessor, Newest
  <2>7. ASSUME NEW u \in Targets, NEW i \in 1..Len(revs'[u])
        PROVE  prev'[revs'[u][i]] = IF i = 1 THEN NoRun ELSE revs'[u][i - 1]
    <3>1. CASE u = t /\ i = n + 1
      <4>1. CASE n = 0 BY <3>1, <4>1, <2>2, <2>6
      <4>2. CASE n # 0
        <5>1. i - 1 = n /\ i # 1 /\ n \in 1..n BY <3>1, <4>2, <2>5
        <5> QED BY <3>1, <4>2, <5>1, <2>2, <2>6
      <4> QED BY <4>1, <4>2
    <3>2. CASE u = t /\ i # n + 1
      <4>1. i \in 1..n /\ (i # 1 => i - 1 \in 1..n)
        BY <3>2, <2>2, <2>5
      <4>2. prev[revs[t][i]] = IF i = 1 THEN NoRun ELSE revs[t][i - 1]
        BY <4>1, <2>5 DEF RevisionChain
      <4>3. prev'[revs[t][i]] = prev[revs[t][i]] BY <4>1, <2>4, <2>5
      <4>4. /\ revs'[u][i] = revs[t][i]
            /\ i # 1 => revs'[u][i - 1] = revs[t][i - 1]
        BY <3>2, <4>1, <2>2
      <4> QED BY <4>2, <4>3, <4>4
    <3>3. CASE u # t
      <4>1. revs'[u] = revs[u] BY <3>3, <2>2
      <4>2. i \in 1..Len(revs[u]) BY <4>1
      <4>3. prev[revs[u][i]] = IF i = 1 THEN NoRun ELSE revs[u][i - 1]
        BY <4>2 DEF RevisionChain
      <4>4. prev'[revs[u][i]] = prev[revs[u][i]] BY <4>2, <2>4
      <4> QED BY <4>1, <4>3, <4>4
    <3> QED BY <3>1, <3>2, <3>3
  <2>8. RevisionChain' BY <2>7 DEF RevisionChain
  <2> QED BY <2>8
<1>4. ASSUME NEW r \in Runs,
             RollbackStorage(r) \/ \E a \in Artifacts : PutArtifact(r, a)
      PROVE  RevisionChain'
  <2>1. UNCHANGED revVars BY <1>4 DEF RollbackStorage, PutArtifact
  <2> QED
    BY <2>1 DEF revVars, RevisionChain
<1> QED BY <1>1, <1>2, <1>4, RevisionSteps

\* No step takes a cancelled run into the working part of the pipeline.
CancelledStep ==
    \A r \in Runs : code[r] = "cancelled" => pc'[r] \notin Working

\* A cancelled run was queued, so no execution was past mark_running, and
\* mark_running lets none pass afterwards.
LEMMA NextCancelledState ==
    ASSUME TypeOK, Bookkeeping, ExecutionState, CancelledState, [Next]_vars
    PROVE  CancelledState' /\ CancelledStep
<1> USE DEF TypeOK, CancelledState, CancelledStep, Working, Executing, runVars
<1> DEFINE Goal == CancelledState' /\ CancelledStep
<1>1. ASSUME NEW r \in Runs, Worker(r) PROVE Goal
  <2>1. CASE MarkRunning(r) BY <2>1 DEF MarkRunning, MayStart
  <2>2. CASE ReportFailure(r) BY <2>2 DEF ReportFailure, MarkFailed
  <2>3. CASE CommitStep(r)
    BY <2>3 DEF CommitStep, RevisionCommits, Returns, RaisesAfterCommit, EnterExcept
  <2>4. CASE UnchangedStep(r)
    BY <2>4 DEF UnchangedStep, UnchangedCommits, Returns, RaisesAfterCommit, EnterExcept
  <2>5. CASE /\ UNCHANGED <<status, code>>
             /\ \E p \in Executing \cup {"ended"} :
                   /\ pc' = [pc EXCEPT ![r] = p]
                   /\ p \in Working => pc[r] \in Working
    BY <2>5
  <2> QED
    <3>1. CASE Dequeue(r) \/ JobStart(r) \/ MarkRunningRaises(r)
      BY <2>5, <3>1 DEF Dequeue, JobStart, MarkRunningRaises, EnterExcept
    <3>2. CASE Decide(r) \/ \E c \in Contents : Collect(r, c)
      BY <2>5, <3>2 DEF Decide, Collect
    <3>3. CASE \E a \in Artifacts : PutArtifact(r, a)
      BY <2>5, <3>3 DEF PutArtifact
    <3>4. CASE ExpectedError(r) \/ UnexpectedError(r)
      BY <2>5, <3>4 DEF ExpectedError, EnterExcept, LeaveTry, UnexpectedError
    <3>5. CASE RollbackStorage(r) \/ JobRaises(r) \/ JobEnd(r)
      BY <2>5, <3>5 DEF RollbackStorage, JobRaises, JobEnd
    <3> QED
      BY <1>1, <2>1, <2>2, <2>3, <2>4, <3>1, <3>2, <3>3, <3>4, <3>5, CommitSteps DEF Worker
<1>2. ASSUME NEW t \in Targets, NEW r \in Runs, EnqueueBackupRun(t, r),
             UNCHANGED pc
      PROVE  Goal
  BY <1>2 DEF EnqueueBackupRun
<1>3. CASE Dispatcher
  <2>1. CASE ReconcileMarkFailed
    BY <2>1 DEF ReconcileMarkFailed, MarkFailed, DispatcherFrame
  <2>2. CASE UNCHANGED <<pc, code, status>> BY <2>2
  <2> QED
    BY <1>2, <1>3, <2>1, <2>2
    DEF Dispatcher, DispatcherFrame, DispatcherStart, ReconcileEndedJob,
        ReconcileLiveJob, ReconcileOrphan, ReconcileUnknown, ReconcileDelete,
        ReconcileDeleteFails, InitializeTargetSchedules, DispatchScan,
      DispatchWorkers, DispatchUnknown, DispatchSkip, DispatchTarget
<1>4. CASE Faults
  <2>1. ASSUME NEW r \in Runs, WorkerCrash(r) PROVE Goal
    BY <2>1 DEF WorkerCrash
  <2>2. CASE WorkersDown BY <2>2 DEF WorkersDown
  <2>3. CASE UNCHANGED <<pc, code, status>> BY <2>3
  <2> QED
    BY <1>4, <2>1, <2>2, <2>3
    DEF Faults, RqCleanup, WorkersReturn, DispatcherCrash, DispatcherFrame
<1>5. ASSUME NEW r \in Runs, CancelQueuedRun(r) PROVE Goal
  BY <1>5 DEF CancelQueuedRun, ExecutionState
<1>6. CASE UNCHANGED <<pc, code, status>> BY <1>6
<1> QED
  BY <1>1, <1>2, <1>3, <1>4, <1>5, <1>6
  DEF Next, Environment, vars, SetEnabled, ScheduleComesDue, ManualBackup,
      RunAges, EnvFrame

\* The inductive invariant behind the revision theorems: an execution can
\* only commit with all files stored, and after a commit it rolls back only
\* when that commit reached it as an exception.
Safety ==
    /\ ExecutionState
    /\ RevisionFilesStored
    /\ RevisionChain
    /\ CancelledState

\* The invariant holds in every reachable state.
LEMMA SafetyInvariant == Spec => []Safety
<1>1. Init => Safety
  BY ConstantsAssumption
  DEF Init, Safety, ExecutionState, RevisionFilesStored, RevisionChain,
      CancelledState, Committed, Newest, Working
<1>2. TypeOK /\ Bookkeeping /\ Safety /\ [Next]_vars => Safety'
  BY NextExecutionState, NextRevisionFilesStored, NextRevisionChain,
     NextCancelledState DEF Safety
<1> QED BY TypeCorrect, <1>1, <1>2, PTL DEF Spec

\* No rollback, crash or late worker ever leaves a committed revision without
\* one of its artifact files, unless commit_revision took effect and raised.
THEOREM RevisionFilesStoredHolds == Spec => []RevisionFilesStored
BY SafetyInvariant, PTL DEF Safety

\* The revisions of a target always form one chain in creation order, also
\* with overlapping executions.
THEOREM RevisionChainHolds == Spec => []RevisionChain
BY SafetyInvariant, PTL DEF Safety

\* A cancelled run never contacts the device, stores or commits, although its
\* worker may have taken the job before the cancellation.
THEOREM CancelledRunNeverWorksHolds == Spec => CancelledRunNeverWorks
<1>1. TypeOK /\ Bookkeeping /\ Safety /\ [Next]_vars => [CancelledStep]_vars
  BY NextCancelledState DEF Safety
<1>2. CancelledRunNeverWorks <=> [][CancelledStep]_vars
  BY DEF CancelledRunNeverWorks, CancelledStep
<1> QED BY TypeCorrect, SafetyInvariant, <1>1, <1>2, PTL DEF Spec

-----------------------------------------------------------------------------
(* Exclusive execution while workers are steady *)

\* A run that works is running, and its job and its RQ job say so; one that is
\* queued can still be taken, or is being started, only with a live job.
RunLive(r) ==
    /\ pc[r] \in Working => status[r] = "running" /\ job[r] = "running" /\ rq[r] = "started"
    /\ status[r] = "queued" /\ pc[r] = "start" => job[r] = "running" /\ rq[r] = "started"
    /\ status[r] = "queued" /\ pc[r] = "dequeued" =>
          job[r] \in EnqueuedStates /\ rq[r] = "started"
    /\ status[r] = "queued" /\ rq[r] = "queued" => job[r] \in EnqueuedStates

\* Nobody works for the run, and nobody will.
NeverWorks(r) ==
    /\ pc[r] \notin Working
    /\ status[r] = "queued" => rq[r] # "queued" /\ pc[r] \notin {"dequeued", "start"}

\* The reconciliation has chosen such a run, although it read the job and the
\* RQ job of it before it acts.
SteadyState ==
    workers = "steady" =>
        /\ \A r \in Runs : RunLive(r)
        /\ disp \in {"job_delete", "mark_failed"} => NeverWorks(cur)

\* Every step keeps it: mark_running takes only a queued run, a job is deleted
\* or found dead only where nobody works, and steady workers stay steady.
LEMMA NextSteadyState ==
    ASSUME TypeOK, Bookkeeping, ExecutionState, SteadyState, [Next]_vars
    PROVE  SteadyState'
<1> USE DEF TypeOK, Bookkeeping, SteadyState, RunLive, NeverWorks, EnqueuedStates,
        Executing, Working, ActiveStatuses, runVars, jobVars, workVars, revVars,
        dispVars, WorkerFrame, DispatcherFrame, EnvFrame
<1>1. ASSUME NEW r \in Runs, Dequeue(r)
      PROVE  SteadyState'
  BY <1>1 DEF Dequeue
<1>2. ASSUME NEW r \in Runs, JobStart(r)
      PROVE  SteadyState'
  BY <1>2 DEF JobStart
<1>3. ASSUME NEW r \in Runs, MarkRunning(r)
      PROVE  SteadyState'
  BY <1>3 DEF MarkRunning, MayStart
<1>4. ASSUME NEW r \in Runs, MarkRunningRaises(r)
      PROVE  SteadyState'
  BY <1>4 DEF MarkRunningRaises, EnterExcept, LeaveTry, MayStart
<1>5. ASSUME NEW r \in Runs, Decide(r)
      PROVE  SteadyState'
  BY <1>5 DEF Decide
<1>6. ASSUME NEW r \in Runs, NEW c \in Contents, Collect(r, c)
      PROVE  SteadyState'
  BY <1>6 DEF Collect
<1>7. ASSUME NEW r \in Runs, NEW a \in Artifacts, PutArtifact(r, a)
      PROVE  SteadyState'
  BY <1>7 DEF PutArtifact
<1>8. ASSUME NEW r \in Runs, CommitStep(r)
      PROVE  SteadyState'
  BY <1>8 DEF CommitStep, RevisionCommits, Returns, RaisesAfterCommit, EnterExcept, LeaveTry
<1>9. ASSUME NEW r \in Runs, UnchangedStep(r)
      PROVE  SteadyState'
  BY <1>9 DEF UnchangedStep, UnchangedCommits, Returns, RaisesAfterCommit, EnterExcept, LeaveTry
<1>10. ASSUME NEW r \in Runs, ExpectedError(r)
      PROVE  SteadyState'
  BY <1>10 DEF ExpectedError, EnterExcept, LeaveTry
<1>11. ASSUME NEW r \in Runs, UnexpectedError(r)
      PROVE  SteadyState'
  BY <1>11 DEF UnexpectedError, EnterExcept, LeaveTry, Raising
<1>12. ASSUME NEW r \in Runs, RollbackStorage(r)
      PROVE  SteadyState'
  BY <1>12 DEF RollbackStorage
<1>13. ASSUME NEW r \in Runs, ReportFailure(r)
      PROVE  SteadyState'
  BY <1>13 DEF ReportFailure, MarkFailed
<1>14. ASSUME NEW r \in Runs, JobRaises(r)
      PROVE  SteadyState'
  BY <1>14 DEF JobRaises
<1>15. ASSUME NEW r \in Runs, JobEnd(r)
      PROVE  SteadyState'
  BY <1>15 DEF JobEnd
<1>16. ASSUME NEW r \in Runs, WorkerCrash(r)
      PROVE  SteadyState'
  BY <1>16 DEF WorkerCrash
<1>17. ASSUME NEW r \in Runs, RqCleanup(r)
      PROVE  SteadyState'
  BY <1>17 DEF RqCleanup
<1>18. CASE DispatcherStart
  BY <1>18 DEF DispatcherStart
<1>19. ASSUME NEW r \in Runs, ReconcileEndedJob(r)
      PROVE  SteadyState'
  BY <1>19 DEF ReconcileEndedJob
<1>20. ASSUME NEW r \in Runs, ReconcileLiveJob(r)
      PROVE  SteadyState'
  BY <1>20 DEF ReconcileLiveJob
<1>21. ASSUME NEW r \in Runs, ReconcileOrphan(r)
      PROVE  SteadyState'
  BY <1>21 DEF ReconcileOrphan, LiveRq, WorkersUp
<1>22. ASSUME NEW r \in Runs, ReconcileUnknown(r)
      PROVE  SteadyState'
  BY <1>22 DEF ReconcileUnknown
<1>23. CASE ReconcileDelete
  BY <1>23 DEF ReconcileDelete
<1>24. CASE ReconcileDeleteFails
  BY <1>24 DEF ReconcileDeleteFails
<1>25. CASE ReconcileMarkFailed
  BY <1>25 DEF ReconcileMarkFailed, MarkFailed
<1>26. CASE InitializeTargetSchedules \/ DispatchScan
  BY <1>26 DEF InitializeTargetSchedules, DispatchScan
<1>27. CASE DispatchWorkers \/ DispatchUnknown
  BY <1>27 DEF DispatchWorkers, DispatchUnknown
<1>28. ASSUME NEW t \in Targets, DispatchSkip(t)
      PROVE  SteadyState'
  BY <1>28 DEF DispatchSkip
<1>29. ASSUME NEW t \in Targets, NEW r \in Runs, DispatchTarget(t, r)
      PROVE  SteadyState'
  BY <1>29 DEF DispatchTarget, EnqueueBackupRun
<1>30. ASSUME NEW t \in Targets, NEW r \in Runs, ManualBackup(t, r)
      PROVE  SteadyState'
  BY <1>30 DEF ManualBackup, EnqueueBackupRun
<1>31. ASSUME NEW r \in Runs, CancelQueuedRun(r)
      PROVE  SteadyState'
  BY <1>31 DEF CancelQueuedRun
<1>32. ASSUME NEW t \in Targets, NEW b \in BOOLEAN, SetEnabled(t, b)
      PROVE  SteadyState'
  BY <1>32 DEF SetEnabled
<1>33. ASSUME NEW t \in Targets, ScheduleComesDue(t)
      PROVE  SteadyState'
  BY <1>33 DEF ScheduleComesDue
<1>34. ASSUME NEW r \in Runs, RunAges(r)
      PROVE  SteadyState'
  BY <1>34 DEF RunAges
<1>35. CASE DispatcherCrash
  BY <1>35 DEF DispatcherCrash
<1>36. CASE WorkersDown \/ WorkersReturn
  BY <1>36 DEF WorkersDown, WorkersReturn
<1>37. CASE UNCHANGED vars
  BY <1>37 DEF vars
<1> QED
  BY <1>1, <1>2, <1>3, <1>4, <1>5, <1>6, <1>7, <1>8, <1>9, <1>10, <1>11,
     <1>12, <1>13, <1>14, <1>15, <1>16, <1>17, <1>18, <1>19, <1>20, <1>21,
     <1>22, <1>23, <1>24, <1>25, <1>26, <1>27, <1>28, <1>29, <1>30, <1>31,
     <1>32, <1>33, <1>34, <1>35, <1>36, <1>37, CommitSteps
  DEF Next, Worker, Dispatcher, Faults, Environment

\* A run that works is running, and a target has one such run.
LEMMA SteadyIsExclusive ==
    ASSUME SteadyState, OneActiveRun
    PROVE  ExclusiveExecution
BY DEF SteadyState, RunLive, OneActiveRun, ActiveStatuses, ExclusiveExecution

\* While workers are steady, no two workers ever work for the same target, for
\* any number of targets and runs and whatever crashes, cancellations and
\* reconciliations happen: the reconciliation never releases a run that works.
THEOREM ExclusiveExecutionHolds == Spec => []ExclusiveExecution
<1>1. Init => SteadyState
  BY DEF Init, SteadyState, RunLive, Working
<1>2. TypeOK /\ Bookkeeping /\ Safety /\ SteadyState /\ [Next]_vars => SteadyState'
  BY NextSteadyState DEF Safety
<1>3. SteadyState /\ OneActiveRun => ExclusiveExecution
  BY SteadyIsExclusive
<1> QED
  BY TypeCorrect, SafetyInvariant, OneActiveRunHolds, <1>1, <1>2, <1>3, PTL DEF Spec

-----------------------------------------------------------------------------
(* changed_only: neighbouring revisions differ *)

\* What an execution that stores compared with is still the newest revision,
\* and under changed_only differs from it.
SnapshotCurrent ==
    workers = "steady" =>
        \A r \in Runs : pc[r] \in {"put", "commit"} =>
            /\ latest[r] = Newest(owner[r])
            /\ ChangedOnly => ContentChanged(r, latest[r])

\* A step that commits no revision leaves the revisions alone, and the
\* comparison of a run that stores was made earlier or in this step.
ComparisonKept ==
    /\ UNCHANGED <<revs, content>>
    /\ \A r \in Runs : pc'[r] \in {"put", "commit"} =>
          \/ Decide(r)
          \/ /\ pc[r] \in {"put", "commit"}
             /\ latest'[r] = latest[r]
             /\ seen'[r] = seen[r]
             /\ owner'[r] = owner[r]

\* Every step is a commit_revision or of that kind.
LEMMA ComparisonSteps ==
    ASSUME TypeOK, Bookkeeping, [Next]_vars
    PROVE  ComparisonKept \/ \E r \in Runs : CommitStep(r)
<1> USE DEF TypeOK, Bookkeeping, ComparisonKept, Executing, runVars, workVars, revVars
<1>1. ASSUME NEW r \in Runs, Worker(r), ~ CommitStep(r)
      PROVE  ComparisonKept
  <2>1. UNCHANGED <<revs, content, owner>>
    BY <1>1, CommitSteps DEF Worker, Dequeue, JobStart, MarkRunning, MarkRunningRaises, Decide,
       Collect, PutArtifact, UnchangedStep, UnchangedCommits, ExpectedError, UnexpectedError,
       RollbackStorage, ReportFailure, MarkFailed, JobRaises, JobEnd
  <2>2. \A s \in Runs \ {r} :
           pc'[s] = pc[s] /\ latest'[s] = latest[s] /\ seen'[s] = seen[s]
    <3>1. CASE Decide(r) \/ \E c \in Contents : Collect(r, c)
      BY <3>1 DEF Decide, Collect
    <3>2. CASE JobEnd(r) BY <3>2 DEF JobEnd, Forget
    <3>3. CASE UNCHANGED <<latest, seen>> /\ \E p : pc' = [pc EXCEPT ![r] = p]
      BY <3>3
    <3>4. CASE Dequeue(r) \/ JobStart(r) \/ MarkRunning(r)
      BY <3>3, <3>4 DEF Dequeue, JobStart, MarkRunning
    <3>5. CASE \E a \in Artifacts : PutArtifact(r, a)
      BY <3>3, <3>5 DEF PutArtifact
    <3>6. CASE RollbackStorage(r) \/ ReportFailure(r) \/ JobRaises(r)
      BY <3>3, <3>6 DEF RollbackStorage, ReportFailure, JobRaises
    <3>7. CASE LeaveTry(r) /\ \E p : pc' = [pc EXCEPT ![r] = p]
      BY <3>7 DEF LeaveTry
    <3>8. CASE MarkRunningRaises(r) \/ ExpectedError(r) \/ UnexpectedError(r)
      BY <3>7, <3>8 DEF MarkRunningRaises, ExpectedError, UnexpectedError, EnterExcept
    <3>9. CASE UnchangedStep(r)
      BY <3>7, <3>9 DEF UnchangedStep, Returns, RaisesAfterCommit, EnterExcept
    <3> QED
      BY <1>1, <3>1, <3>2, <3>4, <3>5, <3>6, <3>8, <3>9, CommitSteps DEF Worker
  <2>3. \/ Decide(r)
        \/ \E a \in Artifacts : PutArtifact(r, a)
        \/ pc'[r] \notin {"put", "commit"}
    BY <1>1, CommitSteps DEF Worker, Dequeue, JobStart, MarkRunning, MarkRunningRaises,
       Collect, UnchangedStep, UnchangedCommits, Returns, RaisesAfterCommit,
       EnterExcept, ExpectedError, UnexpectedError,
       RollbackStorage, ReportFailure, JobRaises, JobEnd
  <2>4. ASSUME NEW a \in Artifacts, PutArtifact(r, a)
        PROVE  pc[r] \in {"put", "commit"} /\ latest'[r] = latest[r] /\ seen'[r] = seen[r]
    BY <2>4 DEF PutArtifact
  <2> QED BY <2>1, <2>2, <2>3, <2>4
<1>2. ASSUME NEW t \in Targets, NEW r \in Runs, EnqueueBackupRun(t, r),
             UNCHANGED <<pc, workVars, revVars>>
      PROVE  ComparisonKept
  BY <1>2 DEF EnqueueBackupRun
<1>3. CASE UNCHANGED <<pc, workVars, revVars, owner>>
  BY <1>3
<1>4. ASSUME NEW r \in Runs, WorkerCrash(r) PROVE ComparisonKept
  BY <1>4 DEF WorkerCrash, Forget
<1>5. CASE WorkersDown BY <1>5 DEF WorkersDown, Forget
<1> QED
  BY <1>1, <1>2, <1>3, <1>4, <1>5
  DEF Next, Dispatcher, Faults, Environment, vars,
      RqCleanup, WorkersReturn, DispatcherCrash, DispatcherStart,
      ReconcileEndedJob, ReconcileLiveJob, ReconcileOrphan, ReconcileUnknown,
      ReconcileDelete, ReconcileDeleteFails, ReconcileMarkFailed, MarkFailed,
      InitializeTargetSchedules, DispatchScan, DispatchWorkers, DispatchUnknown,
      DispatchSkip, DispatchTarget, ManualBackup,
      CancelQueuedRun, SetEnabled, ScheduleComesDue, RunAges,
      DispatcherFrame, EnvFrame

\* The newest revision of a target, when it has one, was committed.
LEMMA NewestCommitted ==
    ASSUME TypeOK, NEW t \in Targets
    PROVE  Newest(t) = NoRun \/ (Newest(t) \in Runs /\ Committed(Newest(t)))
BY DEF TypeOK, Newest, Committed

\* Steady workers never return, once gone.
LEMMA SteadyBefore ==
    ASSUME TypeOK, [Next]_vars, workers' = "steady"
    PROVE  workers = "steady"
BY CommitSteps DEF Next, Worker, Dispatcher, Faults, Environment, vars, WorkerFrame,
   DispatcherFrame, EnvFrame, Dequeue, JobStart, MarkRunning, MarkRunningRaises,
   Decide, Collect, PutArtifact, CommitStep, RevisionCommits,
   UnchangedStep, UnchangedCommits, ExpectedError,
   UnexpectedError, RollbackStorage, ReportFailure, JobRaises, JobEnd, WorkerCrash,
   RqCleanup, WorkersDown, WorkersReturn, DispatcherCrash, DispatcherStart,
   ReconcileEndedJob, ReconcileLiveJob, ReconcileOrphan, ReconcileUnknown,
   ReconcileDelete, ReconcileDeleteFails, ReconcileMarkFailed,
   InitializeTargetSchedules, DispatchScan,
   DispatchWorkers, DispatchUnknown, DispatchSkip, DispatchTarget, ManualBackup, CancelQueuedRun,
   SetEnabled, ScheduleComesDue, RunAges

\* No revision is committed between the comparison of an execution and its own
\* commit: the execution has its target to itself.
LEMMA NextSnapshotCurrent ==
    ASSUME TypeOK, Bookkeeping, ExecutionState, ExclusiveExecution,
           SnapshotCurrent, [Next]_vars
    PROVE  SnapshotCurrent'
<1> SUFFICES ASSUME workers' = "steady", NEW r \in Runs, pc'[r] \in {"put", "commit"}
             PROVE  /\ latest'[r] = Newest(owner[r])'
                    /\ ChangedOnly => ContentChanged(r, latest[r])'
  BY DEF SnapshotCurrent
<1>0. workers = "steady" BY SteadyBefore
<1>1. CASE ComparisonKept
  <2>1. \A t : Newest(t)' = Newest(t) BY <1>1 DEF ComparisonKept, Newest
  <2>2. CASE Decide(r)
    <3>1. owner'[r] = owner[r] /\ seen' = seen BY <2>2 DEF Decide, runVars
    <3>2. latest'[r] = Newest(owner[r])
      BY <2>2 DEF Decide, TypeOK
    <3>3. ChangedOnly => ContentChanged(r, Newest(owner[r]))
      BY <2>2 DEF Decide, TypeOK
    <3>4. content' = content BY <1>1 DEF ComparisonKept
    <3> QED BY <2>1, <3>1, <3>2, <3>3, <3>4 DEF ContentChanged
  <2>3. CASE /\ pc[r] \in {"put", "commit"}
             /\ latest'[r] = latest[r]
             /\ seen'[r] = seen[r]
             /\ owner'[r] = owner[r]
    <3>1. /\ latest[r] = Newest(owner[r])
          /\ ChangedOnly => ContentChanged(r, latest[r])
      BY <1>0, <2>3 DEF SnapshotCurrent
    <3>2. content' = content BY <1>1 DEF ComparisonKept
    <3> QED BY <2>1, <2>3, <3>1, <3>2 DEF ContentChanged
  <2> QED BY <1>1, <2>2, <2>3 DEF ComparisonKept
<1>2. ASSUME NEW s \in Runs, CommitStep(s)
      PROVE  /\ latest'[r] = Newest(owner[r])'
             /\ ChangedOnly => ContentChanged(r, latest[r])'
  <2>1. /\ r # s /\ pc'[r] = pc[r] /\ pc[s] = "commit"
        /\ latest'[r] = latest[r] /\ seen'[r] = seen[r] /\ owner' = owner
    BY <1>2 DEF CommitStep, RevisionCommits, Returns, RaisesAfterCommit, EnterExcept,
       LeaveTry, TypeOK
  <2>2. pc[r] \in Working /\ pc[s] \in Working BY <2>1 DEF Working
  <2>3. owner[r] # owner[s]
    BY <1>0, <2>1, <2>2 DEF ExclusiveExecution
  <2>4. owner[r] \in Targets /\ owner[s] \in Targets
    BY <2>1 DEF Bookkeeping
  <2>5. revs'[owner[r]] = revs[owner[r]]
    BY <1>2, <2>3, <2>4 DEF CommitStep, RevisionCommits, TypeOK
  <2>6. Newest(owner[r])' = Newest(owner[r])
    BY <2>1, <2>5 DEF Newest
  <2>7. /\ latest[r] = Newest(owner[r])
        /\ ChangedOnly => ContentChanged(r, latest[r])
    BY <1>0, <2>1 DEF SnapshotCurrent
  <2>8. latest[r] # s
    <3>1. ~ Committed(s) BY <2>1 DEF ExecutionState
    <3> QED BY <2>4, <2>7, <3>1, NewestCommitted, ConstantsAssumption
  <2>9. latest[r] # NoRun => content'[latest[r]] = content[latest[r]]
    BY <1>2, <2>8 DEF CommitStep, RevisionCommits, TypeOK
  <2> QED BY <2>1, <2>6, <2>7, <2>9 DEF ContentChanged
<1> QED BY <1>1, <1>2, ComparisonSteps

\* What is committed differs from what is then the newest revision.
LEMMA NextNeighboursDiffer ==
    ASSUME TypeOK, Bookkeeping, ExecutionState, SnapshotCurrent,
           NeighboursDiffer, [Next]_vars
    PROVE  NeighboursDiffer'
<1> SUFFICES ASSUME ChangedOnly, workers' = "steady", NEW u \in Targets,
                    NEW i \in 1..(Len(revs'[u]) - 1)
             PROVE  content'[revs'[u][i]] # content'[revs'[u][i + 1]]
  BY DEF NeighboursDiffer
<1>0. workers = "steady" BY SteadyBefore
<1>00. \A t \in Targets : \A j \in 1..(Len(revs[t]) - 1) :
          content[revs[t][j]] # content[revs[t][j + 1]]
  BY <1>0 DEF NeighboursDiffer
<1>1. CASE ComparisonKept
  BY <1>1, <1>00 DEF ComparisonKept
<1>2. ASSUME NEW s \in Runs, CommitStep(s)
      PROVE  content'[revs'[u][i]] # content'[revs'[u][i + 1]]
  <2>1. PICK t \in Targets : t = owner[s]
    BY <1>2 DEF CommitStep, RevisionCommits, Bookkeeping
  <2>2. revs[t] \in Seq(Runs) /\ revs[u] \in Seq(Runs) BY DEF TypeOK
  <2>3. PICK n \in Nat : n = Len(revs[t]) BY <2>2
  <2>4. /\ Len(revs'[t]) = n + 1
        /\ revs'[t][n + 1] = s
        /\ \A j \in 1..n : revs'[t][j] = revs[t][j]
        /\ \A v \in Targets \ {t} : revs'[v] = revs[v]
    <3>1. revs' = [revs EXCEPT ![t] = Append(@, s)]
      BY <1>2, <2>1 DEF CommitStep, RevisionCommits
    <3>2. /\ Len(revs'[t]) = Len(revs[t]) + 1
          /\ revs'[t][Len(revs[t]) + 1] = s
          /\ \A j \in 1..Len(revs[t]) : revs'[t][j] = revs[t][j]
          /\ \A v \in Targets \ {t} : revs'[v] = revs[v]
      BY <3>1, AppendCommits
    <3> QED BY <2>3, <3>2
  <2>5. ~ Committed(s) BY <1>2 DEF CommitStep, RevisionCommits, ExecutionState
  <2>6. \A v \in Targets : \A j \in 1..Len(revs[v]) :
           content'[revs[v][j]] = content[revs[v][j]]
    BY <1>2, <2>5 DEF CommitStep, RevisionCommits, Committed, TypeOK
  <2>7. content'[s] = seen[s] BY <1>2 DEF CommitStep, RevisionCommits, TypeOK
  <2>8. CASE u = t /\ i = n
    <3>1. n # 0 /\ n \in 1..n BY <2>8
    <3>2. Newest(t) = revs[t][n] /\ revs[t][n] \in Runs
      BY <2>2, <2>3, <3>1 DEF Newest
    <3>3. ContentChanged(s, Newest(t))
      BY <1>0, <1>2, <2>1 DEF CommitStep, RevisionCommits, SnapshotCurrent
    <3>4. content[revs[t][n]] # seen[s]
      BY <3>2, <3>3, ConstantsAssumption DEF ContentChanged
    <3>5. content'[revs[t][n]] = content[revs[t][n]] BY <2>3, <2>6, <3>1
    <3> QED BY <2>8, <3>1, <3>4, <3>5, <2>4, <2>7
  <2>9. CASE u = t /\ i # n
    <3>1. i \in 1..(n - 1) /\ i \in 1..n /\ i + 1 \in 1..n BY <2>9, <2>4
    <3>2. content[revs[t][i]] # content[revs[t][i + 1]] BY <1>00, <2>3, <3>1
    <3>3. /\ content'[revs[t][i]] = content[revs[t][i]]
          /\ content'[revs[t][i + 1]] = content[revs[t][i + 1]]
      BY <2>3, <2>6, <3>1
    <3>4. revs'[u][i] = revs[t][i] /\ revs'[u][i + 1] = revs[t][i + 1]
      BY <2>9, <2>4, <3>1
    <3> QED BY <3>2, <3>3, <3>4
  <2>10. CASE u # t
    <3>1. revs'[u] = revs[u] BY <2>10, <2>4
    <3>2. PICK m \in Nat : m = Len(revs[u]) BY <2>2
    <3>3. i \in 1..(m - 1) /\ i \in 1..m /\ i + 1 \in 1..m BY <3>1, <3>2
    <3>4. content[revs[u][i]] # content[revs[u][i + 1]] BY <1>00, <3>2, <3>3
    <3>5. /\ content'[revs[u][i]] = content[revs[u][i]]
          /\ content'[revs[u][i + 1]] = content[revs[u][i + 1]]
      BY <2>6, <3>2, <3>3
    <3> QED BY <3>1, <3>4, <3>5
  <2> QED BY <2>8, <2>9, <2>10
<1> QED BY <1>1, <1>2, ComparisonSteps

\* While workers are steady, a changed_only policy never stores the same
\* content twice in a row, for any number of targets, runs and contents: the
\* unlocked read of the newest revision is still right when it is used.
THEOREM NeighboursDifferHolds == Spec => []NeighboursDiffer
<1>1. Init => SnapshotCurrent /\ NeighboursDiffer
  BY DEF Init, SnapshotCurrent, NeighboursDiffer
<1>2. TypeOK /\ Bookkeeping /\ Safety /\ ExclusiveExecution /\ SnapshotCurrent
        /\ [Next]_vars => SnapshotCurrent'
  BY NextSnapshotCurrent DEF Safety
<1>3. TypeOK /\ Bookkeeping /\ Safety /\ SnapshotCurrent /\ NeighboursDiffer
        /\ [Next]_vars => NeighboursDiffer'
  BY NextNeighboursDiffer DEF Safety
<1> QED
  BY TypeCorrect, SafetyInvariant, ExclusiveExecutionHolds, <1>1, <1>2, <1>3, PTL
  DEF Spec
=============================================================================
