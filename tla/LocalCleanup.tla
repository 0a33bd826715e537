---------------------------- MODULE LocalCleanup ----------------------------
(***************************************************************************)
(* Taking revisions out of the local storage of one target: retention      *)
(* (execute_retention_cleanup) and an operator's deletion of a revision    *)
(* (delete_config_revision_everywhere).  Both move the artifact files into *)
(* a quarantine inside one database transaction that holds the target, its *)
(* revisions and their replicas locked, and purge or restore them after it.*)
(*                                                                         *)
(* Revisions are numbered in creation order; 0 is the SQL NULL.  The       *)
(* replica of a revision is "pending", "active" (queued or running),       *)
(* "retry" (failed with a next_retry_at), "copy" (successful), "failed"    *)
(* (for good) or "expired": see Replication.                               *)
(***************************************************************************)
EXTENDS Naturals, FiniteSets, FiniteSetsExt

CONSTANTS
    MaxRevision,    \* bound: revisions of the target
    Artifacts,      \* artifacts of a revision
    Ops,            \* calls of retention or deletion
    MaxLoad,        \* bound: revisions created and calls begun, together
    MaxProtected,   \* bound: revisions that are protected at the same time
    MaxReplicas,    \* bound: revisions with a replica at the same time
    MaxLost         \* bound: deletions that S3 carries out without an answer;
                    \* 0 on a file system, where a file is moved in one step

ASSUME CleanupAssumption ==
    /\ MaxRevision \in Nat /\ Artifacts # {} /\ IsFiniteSet(Artifacts)
    /\ MaxLoad \in Nat /\ MaxProtected \in Nat /\ MaxReplicas \in Nat /\ MaxLost \in Nat

Revisions == 1..MaxRevision
Files == Revisions \X Artifacts

VARIABLES
    created,    \* revisions created so far
    rows,       \* ConfigRevision rows
    local,      \* revisions whose artifacts say local_available
    prev,       \* previous_revision
    last,       \* BackupTarget.last_revision
    protected,  \* revisions with ConfigRevision.protected
    running,    \* the target has a queued or running run
    replica,    \* the replica of each revision on the remote storage
    recorded,   \* revisions whose replica has a remote_path
    destOn,     \* BackupDestination.enabled of that storage
    copied,     \* revisions with a complete copy on it
    stripped,   \* revisions that lost it to a deletion that was rolled back
    place,      \* where each artifact file is
    phase,      \* where each cleanup call is
    doomed,     \* the revisions it removes
    staged,     \* the files it moved to its quarantine
    torn        \* files left in quarantine by a crash or a failed restore

chainVars == <<created, rows, local, prev, last>>
remoteVars == <<copied, stripped>>
replicaVars == <<replica, recorded, destOn, remoteVars>>
dbVars == <<chainVars, protected, running, replicaVars>>
callVars == <<phase, doomed, staged, torn>>
vars == <<dbVars, place, callVars>>

\* The transaction of a call is open: it holds the target's row lock.
InTransaction == {"retention", "delete", "deleted"}

Locked == \E o \in Ops : phase[o] \in InTransaction

\* Many calls are checked on few revisions, and many revisions with few calls.
WithinLoad == created + Cardinality({o \in Ops : phase[o] # "idle"}) < MaxLoad

FilesOf(revs) == revs \X Artifacts

\* The newest of a set of revisions, order_by("-created").first().
Newest(revs) == IF revs = {} THEN 0 ELSE Max(revs)

-----------------------------------------------------------------------------
Init ==
    /\ created = 0
    /\ rows = {}
    /\ local = {}
    /\ prev = [r \in Revisions |-> 0]
    /\ last = 0
    /\ protected = {}
    /\ running = FALSE
    /\ replica = [r \in Revisions |-> "none"]
    /\ recorded = {}
    /\ destOn = TRUE
    /\ copied = {}
    /\ stripped = {}
    /\ place = [f \in Files |-> "none"]
    /\ phase = [o \in Ops |-> "idle"]
    /\ doomed = [o \in Ops |-> {}]
    /\ staged = [o \in Ops |-> {}]
    /\ torn = {}

\* A run is queued: its row refers to the target, so that the insert waits for
\* the target's lock.
RunStarts ==
    /\ ~ Locked
    /\ ~ running
    /\ running' = TRUE
    /\ UNCHANGED <<chainVars, protected, replicaVars, place, callVars>>

\* The run ends without a new revision.
RunEnds ==
    /\ ~ Locked
    /\ running
    /\ running' = FALSE
    /\ UNCHANGED <<chainVars, protected, replicaVars, place, callVars>>

\* commit_revision, which waits for the target's lock.
CommitRevision ==
    /\ ~ Locked
    /\ running
    /\ created < MaxRevision
    /\ WithinLoad
    /\ LET r == created + 1
       IN /\ created' = r
          /\ rows' = rows \cup {r}
          /\ local' = local \cup {r}
          /\ prev' = [prev EXCEPT ![r] = Newest(rows)]
          /\ last' = r
          /\ place' = [f \in Files |-> IF f[1] = r THEN "stored" ELSE place[f]]
    /\ running' = FALSE
    /\ UNCHANGED <<protected, replicaVars, callVars>>

\* ConfigRevisionProtectionView, under the lock of the revision.
ToggleProtection(r) ==
    /\ ~ Locked
    /\ r \in rows
    /\ r \in protected \/ Cardinality(protected) < MaxProtected
    /\ protected' = IF r \in protected THEN protected \ {r} ELSE protected \cup {r}
    /\ UNCHANGED <<chainVars, running, replicaVars, place, callVars>>

-----------------------------------------------------------------------------
(* Replicas: every change of a row waits for its lock *)

ReplicaFrame == UNCHANGED <<protected, running, place, callVars>>

\* For a new or unchanged revision, or by a backfill, which does not ask
\* whether the storage is enabled.
CreateReplica(r) ==
    /\ ~ Locked
    /\ r \in rows
    /\ replica[r] = "none"
    /\ Cardinality({s \in rows : replica[s] # "none"}) < MaxReplicas
    /\ replica' = [replica EXCEPT ![r] = "pending"]
    /\ UNCHANGED <<chainVars, recorded, destOn, remoteVars>>
    /\ ReplicaFrame

\* A new replica, a retry that is due, or a forced repair or retry.
TransferStarts(r) ==
    /\ ~ Locked
    /\ r \in rows
    /\ destOn
    /\ replica[r] \in {"pending", "retry", "copy", "failed"}
    /\ replica' = [replica EXCEPT ![r] = "active"]
    /\ UNCHANGED <<chainVars, recorded, destOn, remoteVars>>
    /\ ReplicaFrame

\* The transfer succeeds, which takes every artifact in the storage, or fails:
\* for good, or with a retry.  A job that started has recorded the path before
\* its first command; a failed repair leaves an older copy where it is.
TransferEnds(r, started, to) ==
    /\ ~ Locked
    /\ r \in rows
    /\ replica[r] = "active"
    /\ to = "copy" => started /\ \A a \in Artifacts : place[<<r, a>>] = "stored"
    /\ recorded' = IF started THEN recorded \cup {r} ELSE recorded
    /\ replica' = [replica EXCEPT ![r] = to]
    /\ copied' = IF to = "copy" THEN copied \cup {r} ELSE copied
    /\ stripped' = IF to = "copy" THEN stripped \ {r} ELSE stripped
    /\ UNCHANGED <<chainVars, destOn>>
    /\ ReplicaFrame

\* A deletion has locked the storages of its replicas, retention has not.
ToggleDestination ==
    /\ \A o \in Ops : phase[o] \notin {"delete", "deleted"}
    /\ destOn' = ~ destOn
    /\ UNCHANGED <<chainVars, replica, recorded, remoteVars>>
    /\ ReplicaFrame

\* Mutant: the metadata of a revision without any copy is kept.
RowsAfterExpiryKept(r) == rows

\* execute_remote_retention_cleanup removes the metadata of a revision that is
\* gone here as well.
RowsAfterExpiry(r) == IF r \in local THEN rows ELSE rows \ {r}

\* The foreign key of a deleted row becomes NULL where it was used.
Unlink(link, gone) == [r \in Revisions |-> IF link[r] \in gone THEN 0 ELSE link[r]]

\* The replicas of the rows that go are deleted with them.
CascadeReplicas(status, gone) ==
    /\ replica' = [r \in Revisions |-> IF r \in gone THEN "none" ELSE status[r]]
    /\ recorded' = recorded \ gone
    /\ stripped' = stripped \ gone
    /\ UNCHANGED destOn

\* Mutant: a revision in use by a backup, or protected, may be removed.
RemovableAlways(r) == TRUE

\* All three cleanups refuse while a backup is active, and keep what is
\* protected.
Removable(r) == ~ running /\ r \notin protected

\* What remote retention may delete: a copy, or what an upload that failed for
\* good may have left under its path.
RemoteCandidates ==
    {r \in rows : replica[r] = "copy" \/ (replica[r] = "failed" /\ r \in recorded)}

\* The remote plan keeps the newest of them, on an enabled storage.
MayExpire(r) ==
    /\ ~ Locked
    /\ destOn
    /\ r \in RemoteCandidates
    /\ Removable(r)
    /\ r # Newest(RemoteCandidates)

RemoteExpires(r) ==
    /\ MayExpire(r)
    /\ copied' = copied \ {r}
    /\ rows' = RowsAfterExpiry(r)
    /\ CascadeReplicas([replica EXCEPT ![r] = "expired"], rows \ rows')
    /\ prev' = Unlink(prev, rows \ rows')
    /\ last' = IF last \in rows \ rows' THEN 0 ELSE last
    /\ UNCHANGED <<created, local>>
    /\ ReplicaFrame

\* Its transaction fails after the storage has deleted files: the row is as it
\* was, the copy is not.
RemoteExpiryFails(r) ==
    /\ MayExpire(r)
    /\ r \in copied
    /\ copied' = copied \ {r}
    /\ stripped' = stripped \cup {r}
    /\ UNCHANGED <<chainVars, replica, recorded, destOn>>
    /\ ReplicaFrame

-----------------------------------------------------------------------------
(* The two cleanup calls *)

\* has_recorded_remote_copy: a pointer that is no tombstone, to a copy or to what
\* an upload that failed may have left.
HasRecordedCopy(r) == r \in recorded /\ replica[r] # "expired"

\* The revision is the source of a transfer that is active or will be tried.
Deferred(r) ==
    replica[r] = "active" \/ (destOn /\ replica[r] \in {"pending", "retry"})

\* The retention plan may expire any revisions but the newest local one and
\* the protected ones; those with a transfer are deferred.
BeginRetention(o, planned) ==
    /\ phase[o] = "idle"
    /\ WithinLoad
    /\ ~ Locked
    /\ ~ running
    /\ planned \subseteq {r \in rows \cap local : Removable(r)}
    /\ Newest(rows \cap local) \notin planned
    /\ phase' = [phase EXCEPT ![o] = "retention"]
    /\ doomed' = [doomed EXCEPT ![o] = {r \in planned : ~ Deferred(r)}]
    /\ UNCHANGED <<dbVars, place, staged, torn>>

\* The operator deletes one revision; _validate_replicas refuses a transfer,
\* and a copy on a storage that is switched off.
BeginDelete(o, r) ==
    /\ phase[o] = "idle"
    /\ WithinLoad
    /\ ~ Locked
    /\ r \in rows
    /\ Removable(r)
    /\ replica[r] \notin {"active", "retry"}
    /\ HasRecordedCopy(r) => destOn
    /\ phase' = [phase EXCEPT ![o] = "delete"]
    /\ doomed' = [doomed EXCEPT ![o] = {r}]
    /\ UNCHANGED <<dbVars, place, staged, torn>>

\* The files the call has yet to move; a missing one is only counted.
ToStage(o) == {f \in FilesOf(doomed[o]) : place[f] = "stored"}

\* storage.stage_delete
StageFile(o, f) ==
    /\ phase[o] \in InTransaction
    /\ f \in ToStage(o)
    /\ place' = [place EXCEPT ![f] = "trash"]
    /\ staged' = [staged EXCEPT ![o] = @ \cup {f}]
    /\ UNCHANGED <<dbVars, phase, doomed, torn>>

\* The transaction ends: what is left of the call are the files it moved.
Leave(o, to) ==
    /\ phase' = [phase EXCEPT ![o] = to]
    /\ doomed' = [doomed EXCEPT ![o] = {}]

\* S3 copies the object into the quarantine and deletes it.  When the deletion
\* takes effect and its answer does not arrive, stage_delete removes the copy,
\* or fails to, and raises: the caller never learns of the quarantined key.
StageUnanswered(o, f) ==
    /\ phase[o] \in InTransaction
    /\ f \in ToStage(o)
    /\ \/ /\ Cardinality({g \in Files : place[g] = "lost"}) < MaxLost
          /\ place' = [place EXCEPT ![f] = "lost"]
          /\ UNCHANGED torn
       \/ /\ place' = [place EXCEPT ![f] = "trash"]
          /\ torn' = torn \cup {f}
    /\ Leave(o, "restore")
    /\ UNCHANGED <<dbVars, staged>>

\* A deletion everywhere removes the remote copy next.
DeleteRemote(o) ==
    /\ phase[o] = "delete"
    /\ ToStage(o) = {}
    /\ copied' = copied \ doomed[o]
    /\ stripped' = stripped \cup (copied \cap doomed[o])
    /\ phase' = [phase EXCEPT ![o] = "deleted"]
    /\ UNCHANGED <<chainVars, protected, running, replica, recorded, destOn, place, doomed,
                   staged, torn>>

\* Mutant: local retention removes the metadata of what it expires.
RemovedRowsAll(o) == doomed[o]

\* Local retention keeps the metadata of a revision with a recorded copy.
RemovedRows(o) ==
    IF phase[o] = "deleted" THEN doomed[o]
    ELSE {r \in doomed[o] : ~ HasRecordedCopy(r)}

\* relink_kept_revisions over the revisions that stay: for retention those
\* that stay in the local storage, for a deletion all.
Kept(o) ==
    (IF phase[o] = "deleted" THEN rows ELSE rows \cap local) \ doomed[o]

\* Mutant: the revisions are linked in the order they were read, newest first.
RelinkedUnsorted(link, kept) ==
    [r \in Revisions |-> IF r \in kept
                         THEN Newest({s \in kept : s > r}) ELSE link[r]]

Relinked(link, kept) ==
    [r \in Revisions |-> IF r \in kept THEN Newest({s \in kept : s < r})
                                       ELSE link[r]]

\* The changes of the transaction.
Apply(o) ==
    /\ rows' = rows \ RemovedRows(o)
    /\ local' = local \ doomed[o]
    /\ prev' = Unlink(Relinked(prev, Kept(o)), RemovedRows(o))
    /\ last' = Newest(Kept(o))
    /\ CascadeReplicas(replica, RemovedRows(o))
    /\ UNCHANGED <<created, protected, running, copied>>

\* Everything is staged and, in a deletion, gone from the remote storage.
ReadyToCommit(o) == phase[o] \in {"retention", "deleted"} /\ ToStage(o) = {}

\* The transaction commits and releases its locks; the purge follows.
Commit(o) ==
    /\ ReadyToCommit(o)
    /\ Apply(o)
    /\ Leave(o, "purge")
    /\ UNCHANGED <<place, staged, torn>>

\* A file cannot be staged, the remote copy not be deleted, or the database
\* fails: the transaction is rolled back, then the files are restored.
Fail(o) ==
    /\ phase[o] \in InTransaction
    /\ Leave(o, "restore")
    /\ UNCHANGED <<dbVars, place, staged, torn>>

\* The connection dies in the commit: it took place, the caller sees an error.
CommitUnconfirmed(o) ==
    /\ ReadyToCommit(o)
    /\ Apply(o)
    /\ Leave(o, "restore")
    /\ UNCHANGED <<place, staged, torn>>

\* _restore_staged moves a file back ...
RestoreFile(o, f) ==
    /\ phase[o] = "restore"
    /\ f \in staged[o]
    /\ place' = [place EXCEPT ![f] = "stored"]
    /\ staged' = [staged EXCEPT ![o] = @ \ {f}]
    /\ UNCHANGED <<dbVars, phase, doomed, torn>>

\* ... or fails to and goes on with the next.
RestoreFails(o, f) ==
    /\ phase[o] = "restore"
    /\ f \in staged[o]
    /\ torn' = torn \cup {f}
    /\ staged' = [staged EXCEPT ![o] = @ \ {f}]
    /\ UNCHANGED <<dbVars, place, phase, doomed>>

\* Mutant: the quarantine is emptied although the call failed.
PurgingAlways == {"purge", "restore"}

\* The phases in which a file may be destroyed.
Purging == {"purge"}

\* purge_staged_delete.  Where it fails the file stays in a quarantine that
\* nobody will look into, which counts as none.
PurgeFile(o, f) ==
    /\ phase[o] \in Purging
    /\ f \in staged[o]
    /\ place' = [place EXCEPT ![f] = "none"]
    /\ staged' = [staged EXCEPT ![o] = @ \ {f}]
    /\ UNCHANGED <<dbVars, phase, doomed, torn>>

\* Mutant: the call returns without restoring what it moved.
ReturnUnrestored(o) ==
    /\ phase[o] \in {"purge", "restore"}
    /\ phase' = [phase EXCEPT ![o] = "done"]
    /\ staged' = [staged EXCEPT ![o] = {}]
    /\ UNCHANGED <<dbVars, place, doomed, torn>>

Return(o) ==
    /\ phase[o] \in {"purge", "restore"}
    /\ staged[o] = {}
    /\ phase' = [phase EXCEPT ![o] = "done"]
    /\ UNCHANGED <<dbVars, place, doomed, staged, torn>>

\* The process dies; an open transaction is rolled back.  (During the purge
\* this is the failure of every purge that is left.)
Crash(o) ==
    /\ phase[o] \in InTransaction \cup {"restore"}
    /\ Leave(o, "done")
    /\ staged' = [staged EXCEPT ![o] = {}]
    /\ torn' = torn \cup staged[o]
    /\ UNCHANGED <<dbVars, place>>

-----------------------------------------------------------------------------
Call(o) ==
    \/ \E planned \in SUBSET (rows \cap local) : BeginRetention(o, planned)
    \/ \E r \in Revisions : BeginDelete(o, r)
    \/ \E f \in Files : \/ StageFile(o, f) \/ StageUnanswered(o, f) \/ RestoreFile(o, f)
                        \/ RestoreFails(o, f) \/ PurgeFile(o, f)
    \/ DeleteRemote(o) \/ Commit(o) \/ Fail(o) \/ CommitUnconfirmed(o) \/ Return(o) \/ Crash(o)

Next ==
    \/ RunStarts \/ RunEnds \/ CommitRevision
    \/ \E r \in Revisions :
          \/ ToggleProtection(r) \/ CreateReplica(r) \/ TransferStarts(r)
          \/ \E started \in BOOLEAN, to \in {"copy", "failed", "retry"} :
                TransferEnds(r, started, to)
          \/ RemoteExpires(r) \/ RemoteExpiryFails(r)
    \/ ToggleDestination
    \/ \E o \in Ops : Call(o)

Spec == Init /\ [][Next]_vars

-----------------------------------------------------------------------------
(* Properties *)

\* The bytes of a revision that the database says is available locally are
\* never destroyed: through failed calls, failed restores, crashes and two
\* calls that overlap they are in the storage or in the quarantine.  Only S3
\* (MaxLost > 0) may have lost one in a deletion without an answer.
BytesKept ==
    \A f \in FilesOf(rows \cap local) :
        place[f] \in {"stored", "trash"} \/ (MaxLost > 0 /\ place[f] = "lost")

\* "Local cleanup stages files in an internal quarantine and restores them if
\* its database transaction fails" (README): no file of a revision that is
\* available locally is lost.  stage_delete of the S3 storage breaks it.
NothingLost == \A f \in FilesOf(rows \cap local) : place[f] # "lost"

\* Such a revision is readable, unless a call is working on it or a crash or a
\* failed restore left it in quarantine.
Readable ==
    \A f \in FilesOf(rows \cap local) :
        place[f] \in {"stored", "lost"} \/ f \in torn \/ \E o \in Ops : f \in staged[o]

\* A revision in the history is in the local storage or has a complete copy on
\* the remote one, whatever local retention, remote retention and deletions take.
\* The code admits two exceptions: the recorded path of a transfer that did not
\* succeed counts as a copy for local retention, and a deletion on the storage
\* is not undone when its transaction is.
HasCopy ==
    \A r \in rows :
        \/ r \in local \cup copied
        \/ r \in recorded /\ replica[r] \in {"failed", "retry", "active"}
        \/ r \in stripped

\* No copy on the remote storage is forgotten: as long as it is there, the
\* revision is in the history with a pointer that remote retention can follow.
CopyIsTracked == \A r \in copied : r \in rows /\ HasRecordedCopy(r)

\* Nobody takes away what is in use: the source of an active transfer, a
\* protected revision, and while a run is active the newest revision, against
\* which it compares.
RevisionInUseKept ==
    [][/\ \A r \in local \ local' : replica[r] # "active"
       /\ \A r \in rows \cap (protected \cup (IF running THEN {Newest(rows)} ELSE {})) :
             r \in rows' /\ (r \in local => r \in local')]_vars

\* The revisions in the local storage form a chain in creation order: no two
\* have the same predecessor, and a predecessor is older and still exists.
LocalChain ==
    /\ \A r \in rows : prev[r] # 0 => prev[r] < r /\ prev[r] \in rows
    /\ \A r, s \in rows \cap local : r # s /\ prev[r] # 0 => prev[r] # prev[s]
=============================================================================
