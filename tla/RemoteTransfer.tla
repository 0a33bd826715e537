---------------------------- MODULE RemoteTransfer ----------------------------
(***************************************************************************)
(* The directory of one revision on a remote storage, file by file: the    *)
(* upload (replicate_revision_ftp, replicate_revision_mounted), the        *)
(* deletion (delete_revision_replica), the integrity audit and the         *)
(* recovery download that read it, the storage form that edits the         *)
(* endpoint, and renames of the device.                                    *)
(*                                                                         *)
(* A command of the server is a step; every step can fail, with or without *)
(* having had its effect, and the worker can die between any two.  Upload  *)
(* and deletion exclude each other (see Replication), readers run beside.  *)
(* Paths are abstracted to the base directory they were built from, sizes  *)
(* and hashes to the content itself.  A share is attached or detached only *)
(* between two operations.                                                 *)
(***************************************************************************)
EXTENDS Naturals

CONSTANTS
    Artifacts,  \* the artifacts of the revision
    Manifest,   \* _netbox_manifest.json
    MaxFaults,  \* bound: failures of commands and crashes of the worker
    MaxHarm     \* bound: files lost, altered or added by others

ASSUME TransferAssumption ==
    /\ Manifest \notin Artifacts
    /\ "none" \notin Artifacts \cup {Manifest}
    /\ MaxFaults \in Nat /\ MaxHarm \in Nat

VARIABLES
    proto,     \* BackupDestination.protocol: "ftp", or "mounted" (NFS, SMB3)
    base,      \* BackupDestination.base_path
    edit,      \* the storage form between clean() and save()
    name,      \* Device.name
    attached,  \* the share is mounted
    path,      \* RevisionReplica.remote_path
    claim,     \* the row: "none", "stored" (available), "gone" (tombstone)
    dir,       \* the directory exists
    final,     \* content under the final name of each file
    temp,      \* content under the name with .part
    other,     \* an entry nobody expects is in the directory
    w,         \* the upload or deletion under way
    last,      \* how the last one ended
    r,         \* the audit or recovery under way
    alarm,     \* the worst an audit or a recovery reported: "none", "refused", "damage"
    intact,    \* see RemoteCopy
    harm,      \* how many times others harmed the directory
    harmed,    \* a file was removed or altered, by others or by a deletion
    rushed,    \* the endpoint was saved after a path had been recorded
    faults

settings == <<proto, base, edit, name, rushed>>
server == <<dir, final, temp, other>>
reader == <<r, alarm>>
harms == <<harm, harmed>>
vars == <<settings, attached, path, claim, server, w, last, reader, intact,
          harms, faults>>

Names == {"n1", "n2"}
None == "none"

\* _expected_revision_files: the artifacts, and the manifest at the end.
Files == Artifacts \cup {Manifest}

\* The manifest carries the device name of the time it was written, which
\* _manifest_matches_revision does not compare.
Good(f) == IF f = Manifest THEN Names ELSE {"bytes"}

\* What the upload under way writes: it holds the name it loaded.
Mine(f) == IF f = Manifest THEN w.name ELSE "bytes"

\* Mutant: files come in the order of the listing.
TurnAny(f) == f \in w.todo

\* The manifest is the last file of an upload and of a deletion.
Turn(f) == f \in w.todo /\ (f = Manifest => w.todo = {Manifest})

\* An operation works with the endpoint and the device name it loaded; late: the
\* file under way was touched by others after the upload had looked at it.
Idle == [op |-> "idle", todo |-> {}, file |-> None, name |-> "n1", base |-> "b1",
         late |-> FALSE]
NotReading == [op |-> "idle", todo |-> {}]

\* _validate_recorded_revision_path: below the base directory that was loaded.
\* Neither side changes while the operation runs, so that one look is enough.
ValidPath == path = w.base

\* Mutant: the directory is taken for the share.
RootReadyAny == TRUE

\* _destination_root: the directory must be an active mount.
RootReady == proto = "mounted" => attached

\* How a server answers a question about a path.  For a missing one many say
\* so, some only that the action was not taken.
Replies(present) ==
    IF present THEN {"listed", "denied", "generic"} ELSE {"missing", "denied", "generic"}

\* Mutant: every refusal but a denial means that the path is missing.
ConcludesRashly(reply, present) ==
    CASE reply = "listed" -> "there"
      [] reply \in {"missing", "generic"} -> "absent"
      [] reply = "denied" -> "error"

\* _remote_exists, _list_revision_directory: an unclear answer counts only
\* with the listing of the nearest directory above as evidence.
Concludes(reply, present) ==
    CASE reply = "listed" -> "there"
      [] reply = "missing" \/ (reply = "generic" /\ ~ present) -> "absent"
      [] OTHER -> "error"

Concluded(present, what) == \E reply \in Replies(present) : Concludes(reply, present) = what

-----------------------------------------------------------------------------
Init ==
    /\ proto \in {"ftp", "mounted"}
    /\ base = "b1"
    /\ edit = "idle"
    /\ name = "n1"
    /\ attached = TRUE
    /\ path = None
    /\ claim = "none"
    /\ dir = FALSE
    /\ final = [f \in Files |-> "none"]
    /\ temp = [f \in Files |-> "none"]
    /\ other = FALSE
    /\ w = Idle
    /\ last = "none"
    /\ r = NotReading
    /\ alarm = "none"
    /\ intact = TRUE
    /\ harm = 0
    /\ harmed = FALSE
    /\ rushed = FALSE
    /\ faults = 0

\* The operation ends; the row keeps what it says.
End(outcome) ==
    /\ w' = Idle
    /\ last' = outcome
    /\ UNCHANGED <<settings, attached, path, claim, reader, intact, harms>>

Writes(op) == w.op = op /\ ValidPath /\ RootReady

Refused ==
    /\ w.op # "idle"
    /\ ~ (ValidPath /\ RootReady)
    /\ End("refused")
    /\ UNCHANGED <<server, faults>>

Progress ==
    UNCHANGED <<settings, attached, path, claim, last, reader, intact, harms, faults>>

-----------------------------------------------------------------------------
(* Upload *)

\* The path is recorded with the attempt, before the server is contacted.
StartUpload ==
    /\ w.op = "idle"
    /\ claim # "gone"
    /\ path' = IF path = None THEN base ELSE path
    /\ claim' = "none"
    /\ w' = [Idle EXCEPT !.op = "put", !.todo = Files, !.name = name, !.base = base]
    /\ intact' = TRUE
    /\ UNCHANGED <<settings, attached, server, last, reader, harms, faults>>

\* _mkdirs and _cwd_after_mkdir, or mkdir on the share.
MakeDirectory ==
    /\ Writes("put")
    /\ ~ dir
    /\ dir' = TRUE
    /\ UNCHANGED <<final, temp, other, w>>
    /\ Progress

AtFile(f) == Writes("put") /\ dir /\ w.file = None /\ Turn(f)

\* _put_immutable finds its own file in place ...
PutSkip(f, accepted) ==
    /\ AtFile(f)
    /\ final[f] \in accepted
    /\ w' = [w EXCEPT !.todo = @ \ {f}]
    /\ UNCHANGED server
    /\ Progress

\* ... or another one, which FTP does not read when it is too long.
PutConflict(f, accepted, outcomes) ==
    /\ AtFile(f)
    /\ final[f] \notin accepted \cup {"none"}
    /\ \E outcome \in outcomes : End(outcome)
    /\ UNCHANGED <<server, faults>>

\* Mutant: the manifest has to be the one this upload would write.
FtpAcceptedExact(f) == {Mine(f)}

\* An FTP upload is content with any manifest that matches the revision.
FtpAccepted(f) == Good(f)

\* Mutant: the file is stored under its final name.
PutStoreInPlace(f) ==
    /\ AtFile(f)
    /\ Concluded(final[f] # "none", "absent")
    /\ w' = [w EXCEPT !.file = f]
    /\ final' = [final EXCEPT ![f] = "part"]
    /\ UNCHANGED <<dir, temp, other>>
    /\ Progress

\* FTP stores under the temporary name and reads it back ...
PutStore(f) ==
    /\ AtFile(f)
    /\ Concluded(final[f] # "none", "absent")
    /\ w' = [w EXCEPT !.file = f]
    /\ temp' = [temp EXCEPT ![f] = Mine(f)]
    /\ UNCHANGED <<dir, final, other>>
    /\ Progress

\* ... and renames without another look at the final name.
PutRename(f) ==
    /\ Writes("put")
    /\ w.file = f
    /\ w' = [w EXCEPT !.file = None, !.todo = @ \ {f}, !.late = FALSE]
    /\ final' = [final EXCEPT ![f] = Mine(f)]
    /\ temp' = [temp EXCEPT ![f] = "none"]
    /\ UNCHANGED <<dir, other>>
    /\ Progress

FtpUpload ==
    \/ MakeDirectory
    \/ \E f \in Files : \/ PutSkip(f, FtpAccepted(f))
                        \/ PutConflict(f, FtpAccepted(f), {"conflict", "unread"})
                        \/ PutStore(f) \/ PutRename(f)

\* On a share the final file is created exclusively, empty at first ...
CreateFile(f) ==
    /\ AtFile(f)
    /\ final[f] = "none"
    /\ w' = [w EXCEPT !.file = f]
    /\ final' = [final EXCEPT ![f] = "part"]
    /\ UNCHANGED <<dir, temp, other>>
    /\ Progress

\* ... then written, synchronised and verified ...
WriteFile(f) ==
    /\ Writes("put")
    /\ w.file = f
    /\ ~ w.late
    /\ w' = [w EXCEPT !.file = None, !.todo = @ \ {f}]
    /\ final' = [final EXCEPT ![f] = Mine(f)]
    /\ UNCHANGED <<dir, temp, other>>
    /\ Progress

\* ... which fails when others touched it meanwhile.
WriteUnverified(f) ==
    /\ Writes("put")
    /\ w.file = f
    /\ w.late
    /\ End("failed")
    /\ UNCHANGED <<server, faults>>

\* Every file is compared byte for byte, the manifest too.
MountedUpload ==
    \/ MakeDirectory
    \/ \E f \in Files : \/ PutSkip(f, {Mine(f)}) \/ PutConflict(f, {Mine(f)}, {"conflict"})
                        \/ CreateFile(f) \/ WriteFile(f) \/ WriteUnverified(f)

\* The ReplicationResult, and _mark_success.
FinishUpload ==
    /\ Writes("put")
    /\ w.todo = {}
    /\ claim' = "stored"
    /\ w' = Idle
    /\ last' = "done"
    /\ UNCHANGED <<settings, attached, path, server, reader, intact, harms, faults>>

-----------------------------------------------------------------------------
(* Deletion *)

StartDelete ==
    /\ w.op = "idle"
    /\ path # None
    /\ claim # "gone"
    /\ w' = [Idle EXCEPT !.op = "del", !.todo = Files, !.base = base]
    /\ UNCHANGED <<settings, attached, path, claim, server, last, reader, intact,
                   harms, faults>>

\* _reject_unknown_revision_entries; at the end of an FTP deletion every entry is
\* unknown, and rmdir on a share refuses a directory that is not empty.
RejectUnknown ==
    /\ Writes("del")
    /\ dir
    /\ \/ other /\ (proto = "ftp" \/ w.todo \in {Files, {}})
       \/ w.todo = {} /\ \E f \in Files : final[f] # "none"
    /\ End("unknown")
    /\ UNCHANGED <<server, faults>>

Erasing ==
    /\ intact' = FALSE
    /\ harmed' = TRUE
    /\ UNCHANGED <<settings, attached, path, claim, last, reader, harm, faults>>

\* What an interrupted upload left under the temporary names goes first.
DeleteTemp(f) ==
    /\ Writes("del")
    /\ dir /\ ~ other
    /\ temp[f] # "none"
    /\ temp' = [temp EXCEPT ![f] = "none"]
    /\ UNCHANGED <<dir, final, other, w>>
    /\ Progress

DeleteFile(f) ==
    /\ Writes("del")
    /\ dir
    /\ Turn(f)
    /\ final' = [final EXCEPT ![f] = "none"]
    /\ w' = [w EXCEPT !.todo = @ \ {f}]
    /\ UNCHANGED <<dir, temp, other>>
    /\ Erasing

\* The server removes a directory only when it is empty.
RemoveDirectory ==
    /\ Writes("del")
    /\ w.todo = {}
    /\ dir /\ ~ other
    /\ \A f \in Files : final[f] = "none" /\ temp[f] = "none"
    /\ dir' = FALSE
    /\ UNCHANGED <<final, temp, other, w>>
    /\ Erasing

\* The tombstone: the directory is gone, or was missing from the start.
CommitDelete ==
    /\ w.op = "del" /\ ValidPath
    /\ claim' = "gone"
    /\ w' = Idle
    /\ last' = "done"
    /\ UNCHANGED <<settings, attached, path, server, reader, intact, harms, faults>>

\* FTP lists the directory before and after every command.
FtpDelete ==
    \/ \E f \in Files : \/ DeleteTemp(f)
                        \/ /\ ~ other
                           /\ \A g \in Files : temp[g] = "none"
                           /\ DeleteFile(f)
    \/ RemoveDirectory
    \/ Concluded(dir, "absent") /\ CommitDelete

\* On a share it is listed once, and rmdir refuses what was added later.
MountedDelete ==
    \/ \E f \in Files : (w.todo = Files => ~ other) /\ DeleteFile(f)
    \/ RemoveDirectory
    \/ RootReady /\ ~ (dir /\ attached) /\ CommitDelete

-----------------------------------------------------------------------------
(* Failures of an upload or a deletion *)

Fault == faults < MaxFaults /\ faults' = faults + 1

\* The worker is killed, or an error ends the operation between two commands.
Interrupted ==
    /\ w.op # "idle"
    /\ Fault
    /\ End("failed")
    /\ UNCHANGED server

\* The file in place cannot be read.  On FTP only the manifest's case has an
\* outcome of its own ("The immutable FTP revision manifest could not be
\* verified", with the error code of a conflict); a share says that a different
\* object exists.
PutUnreadable(f) ==
    /\ AtFile(f)
    /\ final[f] # "none"
    /\ proto = "ftp" => f = Manifest
    /\ Fault
    /\ End(IF proto = "ftp" THEN "unread" ELSE "conflict")
    /\ UNCHANGED server

\* An FTP store fails: nothing, a part or all of it is there under the
\* temporary name, and the attempt to remove that may fail as well.
StoreFails(f) ==
    /\ proto = "ftp"
    /\ AtFile(f)
    /\ final[f] = "none"
    /\ Fault
    /\ \E c \in {"none", "part", Mine(f)} : temp' = [temp EXCEPT ![f] = c]
    /\ UNCHANGED <<dir, final, other>>
    /\ End("failed")

\* A rename fails, or was done and the answer lost.
RenameFails(f) ==
    /\ proto = "ftp"
    /\ Writes("put")
    /\ w.file = f
    /\ Fault
    /\ \E c \in {final[f], Mine(f)} : final' = [final EXCEPT ![f] = c]
    /\ temp' = [temp EXCEPT ![f] = "none"]
    /\ UNCHANGED <<dir, other>>
    /\ End("failed")

\* A write on a share raises and the file is unlinked.  When that fails too,
\* or the verification does, the file stays: see Interrupted.
WriteFails(f) ==
    /\ proto = "mounted"
    /\ Writes("put")
    /\ w.file = f
    /\ Fault
    /\ final' = [final EXCEPT ![f] = "none"]
    /\ UNCHANGED <<dir, temp, other>>
    /\ End("failed")

-----------------------------------------------------------------------------
(* Integrity audit and recovery: read-only, beside everything else *)

Reads(op) ==
    /\ r.op = "idle"
    /\ claim = "stored"
    /\ RootReady
    /\ r' = [op |-> op, todo |-> Files]
    /\ UNCHANGED <<settings, attached, path, claim, server, w, last, alarm, intact,
                   harms, faults>>

StartFtpAudit == proto = "ftp" /\ Reads("audit")
StartMountedAudit == proto = "mounted" /\ Reads("audit")
StartRecovery == proto = "ftp" /\ Reads("recover")

\* Mutant: the manifest is compared with the one of today.
VerifiedExact(f) == final[f] \in IF f = Manifest THEN {name} ELSE {"bytes"}

\* The size, then the hash; the manifest by its meaning.
Verified(f) == final[f] \in Good(f)

\* The audit counts the problem and goes on.
AuditFile(f) ==
    /\ r.op = "audit"
    /\ f \in r.todo
    /\ alarm' = IF Verified(f) THEN alarm ELSE "damage"
    /\ r' = [r EXCEPT !.todo = @ \ {f}]
    /\ UNCHANGED <<settings, attached, path, claim, server, w, last, intact, harms, faults>>

\* The recovery stops at the first problem.
RecoverFile(f) ==
    /\ r.op = "recover"
    /\ f \in r.todo
    /\ alarm' = IF Verified(f) THEN alarm ELSE "damage"
    /\ r' = IF Verified(f) THEN [r EXCEPT !.todo = @ \ {f}] ELSE NotReading
    /\ UNCHANGED <<settings, attached, path, claim, server, w, last, intact, harms, faults>>

\* The server will not give a file, or not all of it, although it is there: a
\* refusal (550 counts as missing, another as unreadable), a temporary error, an
\* OSError on a share.  The audit counts it among the problems and goes on.
ReadRefused(f) ==
    /\ f \in r.todo
    /\ final[f] # "none"
    /\ Fault
    /\ alarm' = IF alarm = "damage" THEN alarm ELSE "refused"
    /\ r' = IF r.op = "audit" THEN [r EXCEPT !.todo = @ \ {f}] ELSE NotReading
    /\ UNCHANGED <<settings, attached, path, claim, server, w, last, intact, harms>>

\* All is read, or the connection failed.
EndRead ==
    /\ r.op # "idle"
    /\ r' = NotReading
    /\ UNCHANGED <<settings, attached, path, claim, server, w, last, alarm, intact,
                   harms, faults>>

-----------------------------------------------------------------------------
(* Others *)

Rename ==
    /\ name = "n1"
    /\ name' = "n2"
    /\ UNCHANGED <<proto, base, edit, rushed, attached, path, claim, server, w, last,
                   reader, intact, harms, faults>>

\* The share is detached or attached again.
Remount ==
    /\ proto = "mounted"
    /\ w.op = "idle" /\ r.op = "idle"
    /\ attached' = ~ attached
    /\ UNCHANGED <<settings, path, claim, server, w, last, reader, intact, harms, faults>>

\* BackupDestination.clean: no copy may be recorded on the old endpoint ...
MayEdit == path = None \/ claim = "gone"

EditCheck ==
    /\ edit = "idle"
    /\ base = "b1"
    /\ MayEdit
    /\ edit' = "checked"
    /\ UNCHANGED <<proto, base, name, rushed, attached, path, claim, server, w, last,
                   reader, intact, harms, faults>>

\* ... and the form saves without a lock on the replicas.
EditSave ==
    /\ edit = "checked"
    /\ edit' = "idle"
    /\ base' = "b2"
    /\ rushed' = (rushed \/ ~ (path = None \/ claim = "gone"))
    /\ UNCHANGED <<proto, name, attached, path, claim, server, w, last, reader, intact,
                   harms, faults>>

Harm ==
    /\ harm < MaxHarm
    /\ harm' = harm + 1
    /\ dir
    /\ UNCHANGED <<settings, attached, path, claim, last, reader, faults, dir, temp>>

\* Others touch a final name: they may do so while a file is under way.
Touch(f, c) ==
    /\ Harm
    /\ final' = [final EXCEPT ![f] = c]
    /\ w' = IF w.file = f THEN [w EXCEPT !.late = TRUE] ELSE w
    /\ harmed' = TRUE
    /\ UNCHANGED other

\* A file is lost, or altered by somebody else ...
LoseFile(f) ==
    /\ final[f] # "none"
    /\ \E c \in {"none", "foreign"} : Touch(f, c)
    /\ intact' = FALSE

\* ... or put where there is none, between the look and the rename too.
CreateForeign(f) ==
    /\ final[f] = "none"
    /\ Touch(f, "foreign")
    /\ UNCHANGED intact

\* Somebody puts a file of their own into the directory.
AddEntry ==
    /\ Harm
    /\ ~ other
    /\ other' = TRUE
    /\ UNCHANGED <<final, w, intact, harmed>>

-----------------------------------------------------------------------------
\* replicate_revision chooses by protocol ...
Uploader ==
    \/ Refused
    \/ proto = "ftp" /\ FtpUpload
    \/ proto = "mounted" /\ MountedUpload
    \/ FinishUpload

\* ... and so does delete_revision_replica.
Deleter ==
    \/ RejectUnknown
    \/ proto = "ftp" /\ FtpDelete
    \/ proto = "mounted" /\ MountedDelete

Failures ==
    \/ Interrupted
    \/ \E f \in Files : PutUnreadable(f) \/ StoreFails(f) \/ RenameFails(f) \/ WriteFails(f)

Reader ==
    \/ StartFtpAudit \/ StartMountedAudit \/ StartRecovery
    \/ \E f \in Files : AuditFile(f) \/ RecoverFile(f) \/ ReadRefused(f)
    \/ EndRead

Others ==
    \/ Rename \/ Remount \/ EditCheck \/ EditSave \/ AddEntry
    \/ \E f \in Files : LoseFile(f) \/ CreateForeign(f)

Next ==
    StartUpload \/ StartDelete \/ Uploader \/ Deleter \/ Failures \/ Reader \/ Others

Spec == Init /\ [][Next]_vars

\* A worker goes on with what it began, and an upload is tried again: by the
\* dispatcher while retries are left, by the operator after that.
FairSpec ==
    /\ Spec
    /\ SF_vars(StartUpload)
    /\ WF_vars(Uploader)
    /\ WF_vars(Deleter)

-----------------------------------------------------------------------------
(* Properties *)

\* The copy, seen as RemoteCopy sees it.
CopyState ==
    IF ~ dir THEN "none"
    ELSE IF \A f \in Files : final[f] \in Good(f) THEN "whole" ELSE "part"

Abstract == INSTANCE RemoteCopy WITH copy <- CopyState

\* The files implement the promise of RemoteCopy: "stored" is said of a
\* complete directory, "gone" of an absent one, through every failure.
TransferImplementsCopy == Abstract!Spec

\* When the plugin says that a different object is in place, somebody else put
\* it there.  On FTP neither an interrupted upload nor a renamed device makes it
\* say so of its own files (a manifest that could not be read is reported with
\* the same error code, but only after such a failure); on a mount, where files
\* are written in place, the manifest is compared byte for byte and a failed
\* read counts as a difference, a fault or a rename can.
ConflictMeansForeign ==
    /\ last = "conflict" => harmed \/ (proto = "mounted" /\ (faults > 0 \/ name = "n2"))
    /\ last = "unread" => harmed \/ faults > 0

\* The manifest brackets the copy: the upload writes it when every artifact is
\* in place, the deletion removes it when no artifact of the plugin is left, so
\* that a manifest on the server always names what may remain.
ManifestBrackets ==
    [][harm' = harm /\ final'[Manifest] # final[Manifest] =>
          \A a \in Artifacts :
             /\ final'[Manifest] = "none" /\ w.op = "del" => final[a] \in {"none", "foreign"}
             /\ final'[Manifest] \in Names /\ ~ harmed => final[a] = "bytes"]_vars

\* An audit or a recovery never finds damage in a copy nobody harmed, whatever
\* uploads, repairs and renames happen while it reads.  A file that the server
\* refuses to give is a problem too in their reports: those are kept apart here.
NoFalseAlarm == alarm = "damage" => harmed

\* An upload changes a file under its final name only when that is the part it
\* has just created on a share, or when others touched the name after it had
\* looked: no answer of a server makes it replace a file that was there before.
FinalNeverReplaced ==
    [][w.op = "put" /\ harm' = harm =>
          \A f \in Files : final[f] \notin {"none", final'[f]} =>
             /\ w.file = f
             /\ w.late \/ (proto = "mounted" /\ final[f] = "part")]_vars

\* On FTP an upload that is retried ends with a complete copy, whatever the
\* interrupted attempts left behind.
RetryCompletes ==
    proto = "ftp" /\ w.op = "put"
        ~> claim \in {"stored", "gone"} \/ harmed \/ rushed
=============================================================================
