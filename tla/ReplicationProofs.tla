-------------------------- MODULE ReplicationProofs --------------------------
(***************************************************************************)
(* TLAPS proofs about Replication for any set of jobs and any number of    *)
(* retries: exclusion of uploads and cleanup, the tracked path, and that   *)
(* the row with its jobs implements RemoteCopy.                            *)
(***************************************************************************)
EXTENDS Replication, TLAPS

Places == Executing \cup {"none", "queued", "done"}

\* The types of the columns and of the jobs.
TypeOK ==
    /\ status \in Active \cup {"absent", "pending", "success", "failed"}
    /\ attempts \in Nat
    /\ retry \in {"none", "future", "due"}
    /\ jobId \in Jobs \cup {NoJob}
    /\ core \in [Jobs -> EnqueuedStates \cup {"absent", "ended"}]
    /\ pc \in [Jobs -> Places]
    /\ copy \in {"none", "part", "whole"}
    /\ cand \in Jobs \cup {NoJob}

\* The worker of a job between _mark_running and the report of its result.
Busy == Uploading \cup {"fail"}

\* What holds whatever was reconciled: a job that may still work has a Core Job
\* in an enqueued state, the path is recorded before the upload, the cleanup
\* and the tombstone belong to a replica that was decided, and a job about to
\* report success has uploaded everything, unless files were lost since.
RowState ==
    /\ \A j \in Jobs : pc[j] = "queued" => core[j] = "pending"
    /\ \A j \in Jobs : pc[j] \in Executing => core[j] = "running"
    /\ \A j \in Jobs : pc[j] \in Uploading => path
    /\ copy # "none" => path
    /\ Locked \/ expired => status \in {"success", "failed"}
    /\ \A j \in Jobs : pc[j] = "succeed" => copy = "whole" \/ ~ intact

\* The row belongs to the job that is queued or works, so that there is only
\* one, and nothing is left of a copy that expired or is about to.
Exclusion ==
    ~ raced =>
        /\ \A j \in Jobs : pc[j] \in {"queued", "start"} => status = "queued" /\ jobId = j
        /\ \A j \in Jobs : pc[j] \in Busy => status = "running" /\ jobId = j
        /\ expired \/ clean = "deleted" => copy = "none"

IInv == TypeOK /\ RowState /\ Exclusion

-----------------------------------------------------------------------------
(* The inductive invariant, one step per action. *)

\* A replica that does not exist yet satisfies it.
LEMMA InitIInv == Init => IInv
BY ReplicationAssumption
DEF Init, IInv, TypeOK, RowState, Exclusion, Active, EnqueuedStates, Places, Executing,
    Uploading, Busy, Locked

\* enqueue_revision_replica, whoever calls it, keeps it: the row it takes over
\* is not the row of a job that still works.
LEMMA EnqueueIInv ==
    ASSUME IInv, NEW j \in Jobs, NEW force \in BOOLEAN, EnqueueRevisionReplica(j, force)
    PROVE  IInv'
<1> USE DEF Locked, IInv, EnqueueRevisionReplica, MayEnqueue, serverVars
<1>1. TypeOK'
  BY DEF TypeOK, Active, EnqueuedStates, Places, Executing
<1>2. RowState'
  BY DEF TypeOK, RowState, Active, Executing, Uploading, Places
<1>3. Exclusion'
  BY DEF TypeOK, Exclusion, Active, Executing, Uploading, Busy, Places
<1> QED BY <1>1, <1>2, <1>3

\* So does every step of a DestinationReplicationJob,
LEMMA WorkerIInv ==
    ASSUME IInv, NEW j \in Jobs, Worker(j) \/ WorkerCrash(j)
    PROVE  IInv'
<1> USE DEF Locked, IInv, replicaVars, jobVars, serverVars, dispVars, history
<1> USE DEF TypeOK, RowState, Exclusion, Active, EnqueuedStates, Places, Executing, Uploading, Busy
<1>1. CASE Take(j) BY <1>1 DEF Take
<1>2. CASE MarkRunning(j)
  <2>1. TypeOK' BY <1>2 DEF MarkRunning, Ready
  <2>2. RowState' BY <1>2 DEF MarkRunning, Ready
  <2>3. Exclusion' BY <1>2 DEF MarkRunning, Ready
  <2> QED BY <2>1, <2>2, <2>3
<1>3. CASE MarkRunningRaises(j) BY <1>3 DEF MarkRunningRaises
<1>4. CASE UploadSome(j) BY <1>4 DEF UploadSome
<1>5. CASE UploadAll(j) BY <1>5 DEF UploadAll
<1>6. CASE UploadFails(j) BY <1>6 DEF UploadFails
<1>7. CASE MarkSuccess(j) BY <1>7 DEF MarkSuccess
<1>8. CASE MarkFailed(j)
  <2>1. TypeOK' BY <1>8 DEF MarkFailed, FailReplica
  <2>2. RowState' BY <1>8 DEF MarkFailed, FailReplica
  <2>3. Exclusion' BY <1>8 DEF MarkFailed, FailReplica
  <2> QED BY <2>1, <2>2, <2>3
<1>9. CASE ReportRaises(j) BY <1>9 DEF ReportRaises
<1>10. CASE JobEnd(j) BY <1>10 DEF JobEnd
<1>11. CASE WorkerCrash(j) BY <1>11 DEF WorkerCrash
<1> QED
  BY <1>1, <1>2, <1>3, <1>4, <1>5, <1>6, <1>7, <1>8, <1>9, <1>10, <1>11 DEF Worker

\* the dispatcher, the stale-replica reconciliation (a replica that it fails
\* has no job any more, or the step counts as raced),
LEMMA SystemJobIInv ==
    ASSUME IInv, Reconciler \/ Dispatcher
    PROVE  IInv'
<1> USE DEF Locked, IInv, replicaVars, jobVars, serverVars, dispVars, history
<1>1. ASSUME NEW j \in Jobs, DispatchEnqueue(j) PROVE IInv'
  BY <1>1, EnqueueIInv DEF DispatchEnqueue
<1>2. CASE ReconcileFail
  BY <1>2 DEF ReconcileFail, FailReplica, LiveJob, TypeOK, RowState, Exclusion, Active,
              EnqueuedStates, Executing, Uploading, Busy
<1>3. CASE ReconcileRead \/ ReconcileSkip
  <2>1. TypeOK' BY <1>3 DEF ReconcileRead, ReconcileSkip, TypeOK
  <2>2. RowState' /\ Exclusion'
    BY <1>3 DEF ReconcileRead, ReconcileSkip, RowState, Exclusion
  <2> QED BY <2>1, <2>2
<1>4. CASE DispatchRead \/ DispatchSkip
  <2>1. UNCHANGED <<status, attempts, retry, path, expired, jobId, core, pc, copy, intact,
                    cand, clean, raced>>
    BY <1>4 DEF DispatchRead, DispatchSkip
  <2> QED BY <2>1 DEF TypeOK, RowState, Exclusion
<1> QED BY <1>1, <1>2, <1>3, <1>4 DEF Reconciler, Dispatcher

\* and remote retention.
LEMMA CleanupIInv == ASSUME IInv, Cleanup PROVE IInv'
<1> USE DEF Locked, IInv, replicaVars, jobVars, serverVars, dispVars, history
<1> USE DEF TypeOK, RowState, Exclusion, Active, Executing, Uploading, Busy
<1>1. CASE CleanupBegin
  <2>1. TypeOK' BY <1>1 DEF CleanupBegin, Eligible
  <2>2. RowState' BY <1>1 DEF CleanupBegin, Eligible
  <2>3. Exclusion' BY <1>1 DEF CleanupBegin, Eligible
  <2> QED BY <2>1, <2>2, <2>3
<1>2. CASE CleanupDelete BY <1>2 DEF CleanupDelete
<1>5. CASE CleanupReturns BY <1>5 DEF CleanupReturns
<1>3. CASE CleanupCommit
  <2>1. TypeOK' BY <1>3 DEF CleanupCommit
  <2>2. RowState' BY <1>3 DEF CleanupCommit
  <2>3. Exclusion' BY <1>3 DEF CleanupCommit
  <2> QED BY <2>1, <2>2, <2>3
<1>4. CASE CleanupFails BY <1>4 DEF CleanupFails
<1> QED BY <1>1, <1>2, <1>3, <1>4, <1>5 DEF Cleanup

\* The invariant holds in every reachable state.
LEMMA Invariant == Spec => []IInv
<1>1. IInv /\ [Next]_vars => IInv'
  <2> SUFFICES ASSUME IInv, [Next]_vars PROVE IInv'
    OBVIOUS
  <2> USE DEF Locked, replicaVars, jobVars, serverVars, dispVars, history
  <2>1. CASE CreateReplica
    BY <2>1 DEF CreateReplica, IInv, TypeOK, RowState, Exclusion, Active, Busy, Uploading
  <2>2. ASSUME NEW j \in Jobs, EnqueueNew(j) \/ EnqueueForced(j) PROVE IInv'
    BY <2>2, EnqueueIInv DEF EnqueueNew, EnqueueForced, IInv, TypeOK
  <2>3. CASE ToggleDestination
    BY <2>3 DEF ToggleDestination, IInv, TypeOK, RowState, Exclusion
  <2>4. CASE ServerLoses
    BY <2>4 DEF ServerLoses, IInv, TypeOK, RowState, Exclusion
  <2>5. CASE RetryComesDue \/ ReplicaAges
    BY <2>5 DEF RetryComesDue, ReplicaAges, IInv, TypeOK, RowState, Exclusion
  <2>6. CASE UNCHANGED vars
    BY <2>6 DEF vars, IInv, TypeOK, RowState, Exclusion
  <2> QED
    BY <2>1, <2>2, <2>3, <2>4, <2>5, <2>6, WorkerIInv, SystemJobIInv, CleanupIInv DEF Next
<1> QED BY <1>1, InitIInv, PTL DEF Spec

-----------------------------------------------------------------------------
(* Theorems *)

\* Two jobs never upload the same copy at once, as long as no reconciliation
\* acted on an outdated reading of the row.
THEOREM ExclusiveUploadHolds == Spec => []ExclusiveUpload
<1>1. IInv => ExclusiveUpload
  BY DEF IInv, Exclusion, ExclusiveUpload, Busy
<1> QED BY <1>1, Invariant, PTL

\* Retention and transfers exclude each other, and a tombstone stands for a
\* copy that is gone and stays gone.
THEOREM ExpiredStaysGoneHolds == Spec => []ExpiredStaysGone
<1>1. IInv => ExpiredStaysGone
  BY DEF IInv, RowState, Exclusion, ExpiredStaysGone, Busy, Locked
<1> QED BY <1>1, Invariant, PTL

\* Every byte on the server is under a path that the row has recorded, after
\* any crash.
THEOREM CopyIsTrackedHolds == Spec => []CopyIsTracked
<1>1. IInv => CopyIsTracked
  BY DEF IInv, RowState, CopyIsTracked
<1> QED BY <1>1, Invariant, PTL

-----------------------------------------------------------------------------
(* Replication implements RemoteCopy *)

\* Queueing and starting a transfer withdraw the claim, the report of a
\* success confirms a whole copy, that of a failure withdraws the claim or
\* leaves the tombstone.
LEMMA JobRefines ==
    ASSUME IInv, NEW j \in Jobs,
           \/ \E force \in BOOLEAN : EnqueueRevisionReplica(j, force)
           \/ Worker(j) \/ WorkerCrash(j)
    PROVE  [Abstract!Next]_(Abstract!vars)
<1> USE DEF Claim, replicaVars, jobVars, serverVars, history, Abstract!vars, Abstract!Next
<1>1. CASE \E force \in BOOLEAN : EnqueueRevisionReplica(j, force)
  BY <1>1 DEF EnqueueRevisionReplica, MayEnqueue, Abstract!Withdraw
<1>2. CASE MarkRunning(j) BY <1>2 DEF MarkRunning, Ready, Abstract!Withdraw
<1>3. CASE UploadSome(j) BY <1>3 DEF UploadSome, Abstract!Upload
<1>4. CASE UploadAll(j) BY <1>4 DEF UploadAll, Abstract!Upload
<1>5. CASE MarkSuccess(j)
  BY <1>5 DEF MarkSuccess, IInv, RowState, Abstract!Confirm
<1>6. CASE MarkFailed(j) BY <1>6 DEF MarkFailed, FailReplica, Abstract!Withdraw
<1>7. CASE UNCHANGED <<replicaVars, serverVars, raced>> BY <1>7
<1> QED
  BY <1>1, <1>2, <1>3, <1>4, <1>5, <1>6, <1>7
  DEF Worker, WorkerCrash, Take, MarkRunningRaises, UploadFails, ReportRaises, JobEnd

\* Every step of the row, its jobs and the server is a step of RemoteCopy, or
\* none: what is claimed of the copy is true when it is claimed, through
\* crashes, reconciliations, retention and losses of the server.  A tombstone
\* claims nothing once a reconciliation acted on an outdated reading.
THEOREM ReplicationRefinesRemoteCopy == Spec => ReplicationImplementsCopy
<1>1. Init => Abstract!Init
  BY DEF Init, Claim, Abstract!Init
<1>2. IInv /\ [Next]_vars => [Abstract!Next]_(Abstract!vars)
  <2> SUFFICES ASSUME IInv, [Next]_vars PROVE [Abstract!Next]_(Abstract!vars)
    OBVIOUS
  <2> USE DEF Claim, replicaVars, jobVars, serverVars, history, Abstract!vars, Abstract!Next
  <2>1. ASSUME NEW j \in Jobs,
               \/ EnqueueNew(j) \/ EnqueueForced(j) \/ DispatchEnqueue(j)
               \/ Worker(j) \/ WorkerCrash(j)
        PROVE  [Abstract!Next]_(Abstract!vars)
    BY <2>1, JobRefines DEF EnqueueNew, EnqueueForced, DispatchEnqueue
  <2>2. CASE ReconcileFail
    BY <2>2 DEF ReconcileFail, FailReplica, Abstract!Withdraw
  <2>3. CASE CleanupDelete BY <2>3 DEF CleanupDelete, Abstract!Erase
  <2>4. CASE ServerLoses BY <2>4 DEF ServerLoses, Abstract!Erase
  <2>5. CASE CleanupCommit
    <3>1. CASE raced BY <2>5, <3>1 DEF CleanupCommit, history, Abstract!Withdraw
    <3>2. CASE ~ raced
      BY <2>5, <3>2 DEF CleanupCommit, history, IInv, Exclusion, Abstract!Bury
    <3> QED BY <3>1, <3>2
  <2>6. CASE UNCHANGED <<available, expired, serverVars, raced>> BY <2>6
  <2> QED
    BY <2>1, <2>2, <2>3, <2>4, <2>5, <2>6
    DEF Next, vars, CreateReplica, Reconciler, ReconcileRead, ReconcileSkip, Dispatcher,
        DispatchRead, DispatchSkip, Cleanup, CleanupBegin, CleanupReturns, CleanupFails,
        ToggleDestination,
        RetryComesDue, ReplicaAges
<1> QED BY <1>1, <1>2, Invariant, PTL DEF Spec, ReplicationImplementsCopy, Abstract!Spec
=============================================================================
