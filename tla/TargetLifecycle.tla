---------------------------- MODULE TargetLifecycle ----------------------------
(***************************************************************************)
(* The setup of a backup target (create_quick_setup) and its deletion      *)
(* (delete_backup_target): the rows, the quarantine of the local files,    *)
(* the copies on remote storages, and the profiles that the setup made.    *)
(* The deletion is one database transaction around effects that no         *)
(* rollback takes back.  The history of the target is one revision.        *)
(***************************************************************************)
CONSTANTS
    HistoryFiles,  \* local files of the revision
    Storages       \* remote storages

VARIABLES
    target,      \* the rows of the target and its history exist
    busy,        \* an active backup run
    fileAt,      \* "none", "stored", "trash" or "lost" for each file
    remoteRow,   \* RevisionReplica on each storage
    remoteCopy,  \* what is there: "none", "part", "whole"
    storageOn,   \* BackupDestination.enabled
    quick,       \* the "[Quick]" profile exists
    shared,      \* another target or a platform mapping uses it
    del,         \* the deletion under way
    astray,      \* files that a deletion did not bring where they belong: it died,
                 \* a call of the storage failed, or its commit was not confirmed
    latecomer    \* a replica was created after the deletion had looked

lifeVars == <<target, busy, fileAt, remoteRow, remoteCopy, storageOn, quick, shared, del,
              astray, latecomer>>

NoReplica == [exists |-> FALSE, path |-> FALSE, available |-> FALSE, active |-> FALSE]
NoDeletion == [at |-> "idle", staged |-> {}, copies |-> {}, held |-> {}]

TargetLifecycleInit ==
    /\ target = FALSE /\ busy = FALSE
    /\ fileAt = [f \in HistoryFiles |-> "none"]
    /\ remoteRow = [d \in Storages |-> NoReplica]
    /\ remoteCopy = [d \in Storages |-> "none"]
    /\ storageOn = [d \in Storages |-> TRUE]
    /\ quick = FALSE /\ shared = FALSE
    /\ del = NoDeletion
    /\ astray = {} /\ latecomer = FALSE

LocalOnly == UNCHANGED <<remoteRow, remoteCopy, storageOn, latecomer>>

-----------------------------------------------------------------------------
(* Setup, backups and uploads *)

\* One transaction: policies, profiles, the credential and the target.  The
\* profile is a new one or one that exists.  The history, and the paths of the
\* copies, are those of a new target.
QuickSetup ==
    /\ ~ target /\ del = NoDeletion
    /\ \A d \in Storages : ~ remoteRow[d].active
    /\ target' = TRUE
    /\ quick' = TRUE
    /\ fileAt' = [f \in HistoryFiles |-> "none"]
    /\ remoteCopy' = [d \in Storages |-> "none"]
    /\ astray' = {} /\ latecomer' = FALSE
    /\ UNCHANGED <<busy, remoteRow, storageOn, shared, del>>

\* Somebody assigns the profile to another target or mapping, or takes it away.
ShareProfile ==
    /\ quick
    /\ shared' = ~ shared
    /\ UNCHANGED <<target, busy, fileAt, quick, del, astray>>
    /\ LocalOnly

\* enqueue_backup_run locks the target.
BackupStarts ==
    /\ target /\ ~ busy /\ del = NoDeletion
    /\ busy' = TRUE
    /\ UNCHANGED <<target, fileAt, quick, shared, del, astray>>
    /\ LocalOnly

\* The first backup stores the revision; a later one leaves it alone.
BackupStores ==
    /\ busy
    /\ busy' = FALSE
    /\ fileAt' = [f \in HistoryFiles |-> IF fileAt[f] = "none" THEN "stored" ELSE fileAt[f]]
    /\ UNCHANGED <<target, quick, shared, del, astray>>
    /\ LocalOnly

\* ensure_revision_replicas, backfill_destination.  Neither locks the target; a
\* storage that the deletion holds makes the insertion wait.
ReplicaCreated(d) ==
    /\ target /\ ~ remoteRow[d].exists
    /\ d \notin del.held
    /\ \A f \in HistoryFiles : fileAt[f] # "none"
    /\ remoteRow' = [remoteRow EXCEPT ![d].exists = TRUE]
    /\ latecomer' = (latecomer \/ del # NoDeletion)
    /\ UNCHANGED <<target, busy, fileAt, remoteCopy, storageOn, quick, shared, del, astray>>

\* _mark_running of an upload or a repair.
UploadStarts(d) ==
    /\ remoteRow[d].exists /\ ~ remoteRow[d].active
    /\ storageOn[d] /\ d \notin del.held
    /\ remoteRow' = [remoteRow EXCEPT ![d] = [exists |-> TRUE, path |-> TRUE,
                                              available |-> FALSE, active |-> TRUE]]
    /\ UNCHANGED <<target, busy, fileAt, remoteCopy, storageOn, quick, shared, del, astray,
                   latecomer>>

\* The upload ends well, or with some files on the server.  Its row may be gone.
UploadEnds(d) ==
    /\ remoteRow[d].active
    /\ \E copy \in {"part", "whole"} :
          /\ remoteCopy' = [remoteCopy EXCEPT ![d] = IF @ = "whole" THEN @ ELSE copy]
          /\ remoteRow' = [remoteRow EXCEPT ![d].active = FALSE,
                               ![d].available = @ \/ (copy = "whole" /\ remoteRow[d].exists)]
    /\ UNCHANGED <<target, busy, fileAt, storageOn, quick, shared, del, astray, latecomer>>

ToggleStorage(d) ==
    /\ d \notin del.held
    /\ storageOn' = [storageOn EXCEPT ![d] = ~ @]
    /\ UNCHANGED <<target, busy, fileAt, remoteRow, remoteCopy, quick, shared, del, astray,
                   latecomer>>

-----------------------------------------------------------------------------
(* Deletion *)

\* validate_target_external_copies
CopiesRemovable(held) ==
    \A d \in held : ~ remoteRow[d].active
                    /\ (remoteRow[d].path \/ remoteRow[d].available => storageOn[d])

\* Mutant: only a copy that is said to be available is removed.
RecordedAvailable(held) == {d \in held : remoteRow[d].available}

\* delete_target_ftp_copies: a recorded path is enough, a failed repair may
\* have left the copy of before.
Recorded(held) == {d \in held : remoteRow[d].path}

\* The target, its replicas and their storages are locked and validated.
DeletionBegins ==
    /\ target /\ ~ busy /\ del = NoDeletion
    /\ LET held == {d \in Storages : remoteRow[d].exists}
       IN  /\ CopiesRemovable(held)
           /\ del' = [at |-> "stage", staged |-> {}, copies |-> Recorded(held), held |-> held]
    /\ UNCHANGED <<target, busy, fileAt, quick, shared, astray>>
    /\ LocalOnly

StageHistoryFile(f) ==
    /\ del.at = "stage"
    /\ f \notin del.staged /\ fileAt[f] = "stored"
    /\ fileAt' = [fileAt EXCEPT ![f] = "trash"]
    /\ del' = [del EXCEPT !.staged = @ \cup {f}]
    /\ UNCHANGED <<target, busy, quick, shared, astray>>
    /\ LocalOnly

Rollback == del' = [del EXCEPT !.at = "restore", !.held = {}, !.copies = {}]

\* S3 copies the object and deletes it.  When the deletion takes effect without
\* an answer, stage_delete removes the copy too, or fails to, and raises: the
\* quarantined key is not among those that will be restored.
StageUnanswered(f) ==
    /\ del.at = "stage"
    /\ f \notin del.staged /\ fileAt[f] = "stored"
    /\ \E at \in {"lost", "trash"} : fileAt' = [fileAt EXCEPT ![f] = at]
    /\ astray' = astray \cup {f}
    /\ Rollback
    /\ UNCHANGED <<target, busy, quick, shared>>
    /\ LocalOnly

\* Then the copies, one after the other.
DeleteCopy(d) ==
    /\ del.at = "stage" /\ d \in del.copies
    /\ \A f \in HistoryFiles : fileAt[f] # "stored"
    /\ remoteCopy' = [remoteCopy EXCEPT ![d] = "none"]
    /\ del' = [del EXCEPT !.copies = @ \ {d}]
    /\ UNCHANGED <<target, busy, fileAt, remoteRow, storageOn, quick, shared, astray,
                   latecomer>>

\* No other target and no mapping uses the profile.
ProfileUnshared == ~ shared

\* The rows, cascading to every replica, and the profile.
RowsDeleted ==
    /\ del.at = "stage" /\ del.copies = {}
    /\ \A f \in HistoryFiles : fileAt[f] # "stored"
    /\ target' = FALSE
    /\ remoteRow' = [d \in Storages |-> [NoReplica EXCEPT !.active = remoteRow[d].active]]
    /\ quick' = (quick /\ ~ ProfileUnshared)
    /\ UNCHANGED <<busy, fileAt, remoteCopy, storageOn, shared, latecomer>>

DeletionCommits ==
    /\ RowsDeleted
    /\ del' = [del EXCEPT !.at = "purge", !.held = {}]
    /\ UNCHANGED astray

\* The connection dies in the commit: the rows are gone, and the caller puts the
\* files back as after any other exception.
DeletionUnconfirmed ==
    /\ RowsDeleted
    /\ Rollback
    /\ astray' = astray \cup del.staged

\* A storage, a server or the commit fails: the transaction is rolled back.  A
\* copy may be damaged, the copies removed before stay removed.
DeletionFails ==
    /\ del.at = "stage"
    /\ \E d \in del.copies \cup {"no copy"} :
          remoteCopy' = IF d = "no copy" THEN remoteCopy
                        ELSE [remoteCopy EXCEPT ![d] = IF @ = "none" THEN @ ELSE "part"]
    /\ Rollback
    /\ UNCHANGED <<target, busy, fileAt, remoteRow, storageOn, quick, shared, astray,
                   latecomer>>

RestoreHistoryFile(f) ==
    /\ del.at = "restore" /\ f \in del.staged
    /\ \/ fileAt' = [fileAt EXCEPT ![f] = "stored"] /\ UNCHANGED astray
       \/ astray' = astray \cup {f} /\ UNCHANGED fileAt
    /\ del' = [del EXCEPT !.staged = @ \ {f}]
    /\ UNCHANGED <<target, busy, quick, shared>>
    /\ LocalOnly

\* Purging may fail, which is logged.
PurgeHistoryFile(f) ==
    /\ del.at = "purge" /\ f \in del.staged
    /\ \/ fileAt' = [fileAt EXCEPT ![f] = "none"] /\ UNCHANGED astray
       \/ astray' = astray \cup {f} /\ UNCHANGED fileAt
    /\ del' = [del EXCEPT !.staged = @ \ {f}]
    /\ UNCHANGED <<target, busy, quick, shared>>
    /\ LocalOnly

DeletionReturns ==
    /\ del.at \in {"purge", "restore"} /\ del.staged = {}
    /\ del' = NoDeletion
    /\ UNCHANGED <<target, busy, fileAt, quick, shared, astray>>
    /\ LocalOnly

\* The web process dies; the database rolls back what was not committed.
DeletionDies ==
    /\ del # NoDeletion
    /\ del' = NoDeletion
    /\ astray' = astray \cup del.staged
    /\ UNCHANGED <<target, busy, fileAt, quick, shared>>
    /\ LocalOnly

TargetLifecycleNext ==
    \/ QuickSetup \/ ShareProfile \/ BackupStarts \/ BackupStores
    \/ \E d \in Storages : \/ ReplicaCreated(d) \/ UploadStarts(d) \/ UploadEnds(d)
                           \/ ToggleStorage(d) \/ DeleteCopy(d)
    \/ DeletionBegins \/ DeletionCommits \/ DeletionUnconfirmed \/ DeletionFails
    \/ DeletionReturns \/ DeletionDies
    \/ \E f \in HistoryFiles : \/ StageHistoryFile(f) \/ StageUnanswered(f)
                               \/ RestoreHistoryFile(f) \/ PurgeHistoryFile(f)

-----------------------------------------------------------------------------
\* A deletion is all or nothing as far as the plugin can see.  A target that
\* is gone left no copy behind that nobody knows of, unless a replica was
\* created while it was being deleted, and no local file, but for those astray.
\* A target that stayed has every file of its history back where it was, but for
\* those astray, and every remote copy is on a recorded path: what the rollback
\* could not bring back can be audited and repaired.  A profile that others use
\* stays.
DeletionIsWhole ==
    /\ ~ target /\ ~ latecomer => \A d \in Storages : remoteCopy[d] = "none"
    /\ ~ target /\ del = NoDeletion => \A f \in HistoryFiles : fileAt[f] = "none" \/ f \in astray
    /\ target /\ del = NoDeletion =>
          \/ \A f \in HistoryFiles : fileAt[f] = "none"
          \/ \A f \in HistoryFiles : fileAt[f] = "stored" \/ f \in astray
    /\ target => \A d \in Storages : remoteCopy[d] # "none" => remoteRow[d].path
    /\ shared => quick
=============================================================================
