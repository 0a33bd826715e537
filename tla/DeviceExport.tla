----------------------------- MODULE DeviceExport -----------------------------
(***************************************************************************)
(* Backups that a device uploads itself: the worker changes a setting of   *)
(* the device, tells it to send its backup to the receiver, waits for the  *)
(* file in the inbox and puts everything back.  SiaeAlfoplusWebLct-        *)
(* Transport ("alfoplus", HTTP and FTP: the setting is the FTP mode) and   *)
(* CeragonCeraOSTransport ("ceraos", SSH and SFTP: the port), the upload-  *)
(* only receivers and the reverse tunnel, which is one more request that   *)
(* can fail.                                                               *)
(*                                                                         *)
(* A request may be carried out although its answer is lost, and a device  *)
(* may go on with an upload that the worker has given up.  The status of   *)
(* an ALFOplus is that of the export started last.  restore_sftp_port is   *)
(* on, as by default.  The credentials of the receiver, the channel and    *)
(* the restore point stay on the device: nothing puts them back.           *)
(***************************************************************************)
EXTENDS Naturals

CONSTANTS
    MaxExports,  \* bound: backups of the device, one after the other
    FullSize     \* parts of a backup file

ASSUME ExportAssumption == MaxExports \in Nat /\ FullSize \in Nat \ {0}

Exports == 1..MaxExports
NoUpload == [there |-> FALSE, size |-> 0, by |-> 0]
Idle == [at |-> "idle", original |-> "unknown", set |-> FALSE, logged |-> FALSE, started |-> FALSE,
         completed |-> FALSE, seen |-> 0, stable |-> 0, content |-> NoUpload]

VARIABLES
    exportKind,  \* "alfoplus" or "ceraos"
    device,      \* setting, session, export state, its file, its parts sent
    inbox,       \* the files of the receiver
    exportNo,    \* the backup under way, or the last one
    collector,   \* collect() in the worker
    accepted,    \* what the last backup returned
    excused      \* a request that puts the device back failed, or could not be made

exportVars == <<exportKind, device, inbox, exportNo, collector, accepted, excused>>

\* A name of its own for every backup.
FileName(n) == n

DeviceExportInit ==
    /\ exportKind \in {"alfoplus", "ceraos"}
    /\ device = [setting |-> "own", session |-> FALSE, export |-> "none",
                 file |-> 0, by |-> 0, sent |-> 0]
    /\ inbox = [n \in Exports |-> NoUpload]
    /\ exportNo = 0
    /\ collector = Idle
    /\ accepted = NoUpload
    /\ excused = FALSE

At(kind, step) == exportKind = kind /\ collector.at = step
Kept == UNCHANGED <<exportKind, exportNo, accepted>>

\* A step of collect() that raises goes to the finally block.
Raise ==
    collector' = [collector EXCEPT !.at = IF exportKind = "alfoplus" THEN "abort" ELSE "restore"]

\* A request that reads: it is answered, or collect() raises.
Query(next) == (collector' = next \/ Raise) /\ UNCHANGED device

\* A request that changes the device: refused, carried out, or carried out
\* although its answer is lost or cannot be decoded.
Request(changed, next) ==
    \/ device' = changed /\ (collector' = next \/ Raise)
    \/ Raise /\ UNCHANGED device

\* A command of the CLI, confirmed where it asks: the prompt may not return.
Command(changed, next) == Request(changed, next)

-----------------------------------------------------------------------------
(* collect *)

BeginExport ==
    /\ collector.at = "idle" /\ exportNo < MaxExports
    /\ exportNo' = exportNo + 1
    /\ inbox' = [inbox EXCEPT ![FileName(exportNo')] = NoUpload]
    /\ collector' = [Idle EXCEPT !.at = "login"]
    /\ accepted' = NoUpload
    /\ UNCHANGED <<exportKind, device, excused>>

\* Snmp.LogInfo and Snmp.Login.  A login whose answer is lost is not logged out.
WebLogin ==
    /\ At("alfoplus", "login")
    /\ Request([device EXCEPT !.session = TRUE],
               [collector EXCEPT !.at = "read", !.logged = TRUE])
    /\ excused' = (excused \/ (device'.session /\ ~ collector'.logged))
    /\ UNCHANGED inbox /\ Kept

\* A connection that fails ends with its client.
SshConnect ==
    /\ At("ceraos", "login")
    /\ \/ /\ collector' = [collector EXCEPT !.at = "read", !.logged = TRUE]
          /\ device' = [device EXCEPT !.session = TRUE]
       \/ Raise /\ UNCHANGED device
    /\ UNCHANGED <<inbox, excused>> /\ Kept

\* The role and the address are checked, and the mode is read.
ReadFtpMode ==
    /\ At("alfoplus", "read")
    /\ Query([collector EXCEPT !.at = "set", !.original = device.setting])
    /\ UNCHANGED <<inbox, excused>> /\ Kept

\* A port that is printed in another form than _PORT_ROW stays unknown.
ReadSftpPort ==
    /\ At("ceraos", "read")
    /\ \E original \in {device.setting, "unknown"} :
          Query([collector EXCEPT !.at = "set", !.original = original])
    /\ UNCHANGED <<inbox, excused>> /\ Kept

ToReceiver == [device EXCEPT !.setting = "receiver"]

\* Without allow_legacy_ftp_setup a mode that has to change ends the backup.
SetFtpMode ==
    /\ At("alfoplus", "set")
    /\ IF collector.original = "receiver"
       THEN Query([collector EXCEPT !.at = "start"])
       ELSE Request(ToReceiver, [collector EXCEPT !.at = "start", !.set = TRUE])
    /\ UNCHANGED <<inbox, excused>> /\ Kept

\* After the tunnel, which may be refused.  An unknown port is never put back.
SetSftpPort ==
    /\ At("ceraos", "set")
    /\ IF collector.original = "receiver"
       THEN Query([collector EXCEPT !.at = "start"])
       ELSE Command(ToReceiver, [collector EXCEPT !.at = "start", !.set = TRUE])
    /\ excused' = (excused \/ (collector.original = "unknown" /\ device' = ToReceiver))
    /\ UNCHANGED inbox /\ Kept

Sending == [device EXCEPT !.export = "sending", !.file = FileName(exportNo), !.by = exportNo,
                          !.sent = 0]

\* The path and the action.  A device that is still sending refuses.
StartWebBackup ==
    /\ At("alfoplus", "start")
    /\ IF device.export = "sending" THEN Raise /\ UNCHANGED device
       ELSE Request(Sending, [collector EXCEPT !.at = "wait", !.started = TRUE])
    /\ UNCHANGED <<inbox, excused>> /\ Kept

\* The channel, the restore point and its export.
StartCliExport ==
    /\ At("ceraos", "start")
    /\ IF device.export = "sending" THEN Raise /\ UNCHANGED device
       ELSE Command(Sending, [collector EXCEPT !.at = "wait", !.started = TRUE])
    /\ UNCHANGED <<inbox, excused>> /\ Kept

Upload == inbox[FileName(exportNo)]

\* A look at the file: it has to rest for two more looks, if it may.
Look(maySettle) ==
    IF ~ Upload.there THEN collector
    ELSE IF maySettle /\ Upload.size > 0 /\ Upload.size = collector.seen
         THEN IF collector.stable = 1
              THEN [collector EXCEPT !.at = "abort", !.content = Upload]
              ELSE [collector EXCEPT !.stable = 1]
         ELSE [collector EXCEPT !.seen = Upload.size, !.stable = 0]

\* Mutant: a file whose size rests is complete.
SettlesAlone(completed) == TRUE

\* An ALFOplus says when it has finished.
MaySettle(completed) == completed

\* A turn of _wait_for_backup.
WaitForBackup ==
    /\ At("alfoplus", "wait")
    /\ device.export # "stopped"
    /\ LET completed == collector.completed \/ device.export = "done"
       IN  collector' = [Look(MaySettle(completed)) EXCEPT !.completed = completed]
    /\ UNCHANGED <<device, inbox, excused>> /\ Kept

\* A turn of _wait_and_read: CeraOS does not tell.
WaitAndRead ==
    /\ At("ceraos", "wait")
    /\ collector' = Look(TRUE)
    /\ UNCHANGED <<device, inbox, excused>> /\ Kept

\* The deadline, an export that is called interrupted, a status that cannot be
\* read, a file that is too large.
WaitFails ==
    /\ collector.at = "wait"
    /\ Raise
    /\ UNCHANGED <<device, inbox, excused>> /\ Kept

\* The bridge cannot reach the receiver: the upload of the device ends with it.
TunnelFails ==
    /\ At("ceraos", "wait")
    /\ Raise
    /\ device' = [device EXCEPT !.export = "stopped"]
    /\ UNCHANGED <<inbox, excused>> /\ Kept

-----------------------------------------------------------------------------
(* finally: every step may fail and the next one is taken all the same *)

AbortBackup ==
    /\ collector.at = "abort"
    /\ \/ /\ exportKind = "alfoplus" /\ collector.started /\ ~ Upload.there
          /\ device' = [device EXCEPT !.export = IF @ = "sending" THEN "stopped" ELSE @]
       \/ UNCHANGED device
    /\ collector' = [collector EXCEPT !.at = "restore"]
    /\ UNCHANGED <<inbox, excused>> /\ Kept

\* Mutant: the setting is put back when the request to change it succeeded.
RestoresChanged(c) == c.set

\* Whatever became of the request to change it.
Restores(c) == c.original \notin {"unknown", "receiver"}

RestoreSetting ==
    /\ collector.at = "restore"
    /\ IF Restores(collector)
       THEN \/ device' = [device EXCEPT !.setting = collector.original] /\ UNCHANGED excused
            \/ excused' = TRUE /\ UNCHANGED device
       ELSE UNCHANGED <<device, excused>>
    /\ collector' = [collector EXCEPT !.at = "logout"]
    /\ UNCHANGED inbox /\ Kept

WebLogout ==
    /\ At("alfoplus", "logout")
    /\ IF collector.logged
       THEN \/ device' = [device EXCEPT !.session = FALSE] /\ UNCHANGED excused
            \/ excused' = TRUE /\ UNCHANGED device
       ELSE UNCHANGED <<device, excused>>
    /\ collector' = [collector EXCEPT !.at = "unlink"]
    /\ UNCHANGED inbox /\ Kept

\* client.close()
SshClose ==
    /\ At("ceraos", "logout")
    /\ device' = [device EXCEPT !.session = FALSE]
    /\ collector' = [collector EXCEPT !.at = "unlink"]
    /\ UNCHANGED <<inbox, excused>> /\ Kept

\* A ZIP that ends early has no directory.
ValidContent(content) == content.there /\ (exportKind = "ceraos" => content.size = FullSize)

\* The file is removed, and the driver validates what it has.
EndExport ==
    /\ collector.at = "unlink"
    /\ inbox' = [inbox EXCEPT ![FileName(exportNo)] = NoUpload]
    /\ accepted' = IF ValidContent(collector.content) THEN collector.content ELSE NoUpload
    /\ collector' = Idle
    /\ UNCHANGED <<exportKind, exportNo, device, excused>>

\* The worker dies.  Only the SSH connection goes with it.
ExportDies ==
    /\ collector.at # "idle"
    /\ collector' = Idle
    /\ device' = [device EXCEPT !.session = @ /\ exportKind = "alfoplus"]
    /\ excused' = TRUE
    /\ UNCHANGED inbox
    /\ Kept

-----------------------------------------------------------------------------
(* The device and the receiver *)

Refused == exportKind = "alfoplus" /\ device.sent = 0 /\ inbox[device.file].there

\* A part arrives.  The FTP receiver never overwrites a file, the SFTP one does;
\* what is written to a file that was removed is lost.
SendPart ==
    /\ device.export = "sending"
    /\ IF Refused
       THEN device' = [device EXCEPT !.export = "stopped"] /\ UNCHANGED inbox
       ELSE /\ device' = [device EXCEPT !.sent = @ + 1,
                              !.export = IF device.sent + 1 = FullSize THEN "done" ELSE @]
            /\ inbox' = IF device.sent = 0 \/ inbox[device.file].by = device.by
                        THEN [inbox EXCEPT ![device.file] =
                                 [there |-> TRUE, size |-> device.sent + 1, by |-> device.by]]
                        ELSE inbox
    /\ UNCHANGED <<collector, excused>>
    /\ Kept

SendFails ==
    /\ device.export = "sending"
    /\ device' = [device EXCEPT !.export = "stopped"]
    /\ UNCHANGED <<inbox, collector, excused>>
    /\ Kept

\* The device loses its connection and begins again.
SendRestarts ==
    /\ device.export = "sending" /\ device.sent > 0
    /\ device' = [device EXCEPT !.sent = 0]
    /\ UNCHANGED <<inbox, collector, excused>>
    /\ Kept

DeviceExportNext ==
    \/ BeginExport \/ WebLogin \/ SshConnect \/ ReadFtpMode \/ ReadSftpPort
    \/ SetFtpMode \/ SetSftpPort \/ StartWebBackup \/ StartCliExport
    \/ WaitForBackup \/ WaitAndRead \/ WaitFails \/ TunnelFails
    \/ AbortBackup \/ RestoreSetting \/ WebLogout \/ SshClose \/ EndExport \/ ExportDies
    \/ SendPart \/ SendFails \/ SendRestarts

-----------------------------------------------------------------------------
\* After a backup the transfer setting of the device is as it was and no session
\* is left, whichever request failed and whether or not it was carried out,
\* unless a request that puts it back failed, the old setting could not
\* be read, or the worker died.
LeftAsFound == collector.at = "idle" /\ ~ excused => device.setting = "own" /\ ~ device.session

\* What a backup returns is the whole file of this backup: never the part that
\* had arrived when an upload paused, nor the late upload of an earlier one.
CollectedWhole == accepted.there => accepted.size = FullSize /\ accepted.by = exportNo
=============================================================================
