---------------------------- MODULE IntegrityAudit ----------------------------
(***************************************************************************)
(* The integrity audits of one remote storage: the dispatcher that queues  *)
(* them on a schedule, the operator's request for one, the job that runs   *)
(* one and announces what became of the storage, and the two forms that    *)
(* save its row.  What an audit reads, file by file, is in RemoteTransfer. *)
(*                                                                         *)
(* The result reaches the row and the event queue in two steps, and the    *)
(* forms save every column of a row that was loaded earlier.               *)
(***************************************************************************)
EXTENDS Naturals, FiniteSets

CONSTANT AuditJobs   \* Core Jobs that may audit the storage

VARIABLES
    auditRow,     \* the columns of BackupDestination that matter to audits
    auditForm,    \* the row a form has loaded
    auditJob,     \* what each job is doing, with the status it found first
    auditRequest, \* BackupDestinationReconciliationView between look and enqueue
    auditEvent,   \* the last event: FTP_AUDIT_FAILED or FTP_AUDIT_RECOVERED
    damaged,      \* the copies on the storage are damaged
    mixedUp       \* the events may not match the row: see AuditTold

auditVars == <<auditRow, auditForm, auditJob, auditRequest, auditEvent, damaged, mixedUp>>

NoForm == [open |-> FALSE]
NoAudit == [at |-> "free", previous |-> "", result |-> ""]

IntegrityAuditInit ==
    /\ auditRow = [enabled |-> TRUE, audits |-> FALSE, next |-> "none", status |-> ""]
    /\ auditForm = NoForm
    /\ auditJob = [j \in AuditJobs |-> NoAudit]
    /\ auditRequest = "idle"
    /\ auditEvent = "recovered"
    /\ damaged = FALSE
    /\ mixedUp = FALSE

\* A job in one of ENQUEUED_STATE_CHOICES.  One whose worker was killed stays.
AuditEnqueued(j) == auditJob[j].at # "free"
Audits == {j \in AuditJobs : AuditEnqueued(j)}

\* The statuses after which a failure was announced.
Bad(status) == status \in {"failed", "problems"}

-----------------------------------------------------------------------------
(* Dispatcher and requests *)

AuditsActive(row) == row.enabled /\ row.audits

\* calculate_next_ftp_audit compares wall-clock times: in the hour that the
\* clocks repeat, the next slot can lie in the past (see Scheduling).
NextAudit == {"later", "due"}

\* calculate_destination_next_ftp_audit
DestinationNextAudit(row) == IF AuditsActive(row) THEN NextAudit ELSE {"none"}

InitializeAuditSchedules ==
    /\ ~ AuditsActive(auditRow) \/ auditRow.next = "none"
    /\ \E next \in DestinationNextAudit(auditRow) : auditRow' = [auditRow EXCEPT !.next = next]
    /\ UNCHANGED <<auditForm, auditJob, auditRequest, auditEvent, damaged, mixedUp>>

Enqueue(j) ==
    /\ ~ AuditEnqueued(j)
    /\ auditJob' = [auditJob EXCEPT ![j].at = "queued"]

\* Mutant: only a job that has begun counts as active.
AuditActiveStarted == \E j \in AuditJobs : auditJob[j].at \notin {"free", "queued"}

\* An active job of this storage.
AuditActive == Audits # {}

\* dispatch_due_ftp_audits, under the lock of the storage: the schedule moves
\* on whether or not an audit is queued.
DispatchDueAudit ==
    /\ AuditsActive(auditRow) /\ auditRow.next = "due"
    /\ \E next \in NextAudit : auditRow' = [auditRow EXCEPT !.next = next]
    /\ IF AuditActive THEN UNCHANGED auditJob ELSE \E j \in AuditJobs : Enqueue(j)
    /\ UNCHANGED <<auditForm, auditRequest, auditEvent, damaged, mixedUp>>

\* The operator's request looks for an active job ...
ReconcileLook ==
    /\ auditRequest = "idle"
    /\ ~ AuditActive
    /\ auditRequest' = "none active"
    /\ UNCHANGED <<auditRow, auditForm, auditJob, auditEvent, damaged, mixedUp>>

\* ... and enqueues one, without a lock.
ReconcileEnqueue ==
    /\ auditRequest = "none active"
    /\ auditRequest' = "idle"
    /\ \E j \in AuditJobs : Enqueue(j)
    /\ mixedUp' = (mixedUp \/ AuditActive)
    /\ UNCHANGED <<auditRow, auditForm, auditEvent, damaged>>

-----------------------------------------------------------------------------
(* DestinationReconciliationJob *)

AuditAt(j, at) == auditJob[j].at = at

StartAudit(j) ==
    /\ AuditAt(j, "queued")
    /\ auditJob' = [auditJob EXCEPT ![j].at = "reading", ![j].previous = auditRow.status]
    /\ UNCHANGED <<auditRow, auditForm, auditRequest, auditEvent, damaged, mixedUp>>

\* reconcile_destination returns what it saw, or raises DestinationError.
ReconcileDestination(j) ==
    /\ AuditAt(j, "reading")
    /\ \E result \in {"failed", IF damaged THEN "problems" ELSE "healthy"} :
          auditJob' = [auditJob EXCEPT ![j].at = "read", ![j].result = result]
    /\ UNCHANGED <<auditRow, auditForm, auditRequest, auditEvent, damaged, mixedUp>>

\* The columns are updated in place ...
SaveAudit(j) ==
    /\ AuditAt(j, "read")
    /\ auditRow' = [auditRow EXCEPT !.status = auditJob[j].result]
    /\ auditJob' = [auditJob EXCEPT ![j].at = "saved"]
    /\ UNCHANGED <<auditForm, auditRequest, auditEvent, damaged, mixedUp>>

\* The audit found a change from good to bad or back.
ChangeDue(j) == Bad(auditJob[j].result) # Bad(auditJob[j].previous)

\* ... and a change is announced.  What an audit of its own tells is what the
\* row shows, so that whatever was mixed up before is in order again.
QueueAuditEvent(j) ==
    /\ AuditAt(j, "saved")
    /\ IF ChangeDue(j)
       THEN /\ auditEvent' = IF Bad(auditJob[j].result) THEN "failed" ELSE "recovered"
            /\ mixedUp' = (mixedUp /\ (Audits # {j} \/ auditRow.status # auditJob[j].result))
       ELSE UNCHANGED <<auditEvent, mixedUp>>
    /\ auditJob' = [auditJob EXCEPT ![j] = NoAudit]
    /\ UNCHANGED <<auditRow, auditForm, auditRequest, damaged>>

\* The events are switched off, or the event cannot be emitted, which is only
\* logged: nobody will repeat it.
DropAuditEvent(j) ==
    /\ AuditAt(j, "saved") /\ ChangeDue(j)
    /\ auditJob' = [auditJob EXCEPT ![j] = NoAudit]
    /\ mixedUp' = TRUE
    /\ UNCHANGED <<auditRow, auditForm, auditRequest, auditEvent, damaged>>

\* A job that ends between the result and its event leaves the event unsaid.
Unsaid(j) == AuditAt(j, "saved") /\ ChangeDue(j)

\* An exception of another kind ends the job: before the result, whose row then
\* keeps what it says, or after it.
AuditErrors(j) ==
    /\ auditJob[j].at \in {"reading", "read", "saved"}
    /\ auditJob' = [auditJob EXCEPT ![j] = NoAudit]
    /\ mixedUp' = (mixedUp \/ Unsaid(j))
    /\ UNCHANGED <<auditRow, auditForm, auditRequest, auditEvent, damaged>>

\* The worker is killed; the Core Job stays as it is.
AuditDies(j) ==
    /\ auditJob[j].at \in {"reading", "read", "saved"}
    /\ auditJob' = [auditJob EXCEPT ![j].at = "dead"]
    /\ mixedUp' = (mixedUp \/ Unsaid(j))
    /\ UNCHANGED <<auditRow, auditForm, auditRequest, auditEvent, damaged>>

-----------------------------------------------------------------------------
(* Forms *)

LoadDestination ==
    /\ ~ auditForm.open
    /\ auditForm' = [open |-> TRUE, row |-> auditRow]
    /\ UNCHANGED <<auditRow, auditJob, auditRequest, auditEvent, damaged, mixedUp>>

\* Every column is saved, the status of the row that was loaded too.
SaveRow(row) ==
    /\ auditRow' = row
    /\ auditForm' = NoForm
    /\ mixedUp' = (mixedUp \/ row.status # auditRow.status)
    /\ UNCHANGED <<auditJob, auditRequest, auditEvent, damaged>>

\* FtpIntegrityAuditScheduleForm: a disabled storage cannot be audited.
SaveAuditSchedule ==
    /\ auditForm.open
    /\ \E audits \in BOOLEAN :
          /\ audits => auditForm.row.enabled
          /\ LET row == [auditForm.row EXCEPT !.audits = audits]
             IN \E next \in DestinationNextAudit(row) : SaveRow([row EXCEPT !.next = next])

\* BackupDestinationForm: a slot that is set stays.
SaveDestination ==
    /\ auditForm.open
    /\ \E enabled \in BOOLEAN :
          LET row == [auditForm.row EXCEPT !.enabled = enabled]
          IN \E next \in IF AuditsActive(row) /\ row.next # "none" THEN {row.next}
                         ELSE DestinationNextAudit(row) :
                SaveRow([row EXCEPT !.next = next])

-----------------------------------------------------------------------------
AuditTimeComes ==
    /\ auditRow.next = "later"
    /\ auditRow' = [auditRow EXCEPT !.next = "due"]
    /\ UNCHANGED <<auditForm, auditJob, auditRequest, auditEvent, damaged, mixedUp>>

\* Files are lost or altered; a repair puts them back.
CopiesChange ==
    /\ damaged' = ~ damaged
    /\ UNCHANGED <<auditRow, auditForm, auditJob, auditRequest, auditEvent, mixedUp>>

IntegrityAuditNext ==
    \/ InitializeAuditSchedules \/ DispatchDueAudit \/ ReconcileLook \/ ReconcileEnqueue
    \/ \E j \in AuditJobs :
          \/ StartAudit(j) \/ ReconcileDestination(j) \/ SaveAudit(j) \/ QueueAuditEvent(j)
          \/ DropAuditEvent(j) \/ AuditErrors(j) \/ AuditDies(j)
    \/ LoadDestination \/ SaveAuditSchedule \/ SaveDestination
    \/ AuditTimeComes \/ CopiesChange

-----------------------------------------------------------------------------
\* At most one audit of a storage is active, and the last event an operator got
\* agrees with the result the storage shows: damage is announced, and so is the
\* recovery.  Four things excuse it (history variable mixedUp): a request that
\* looked before another one was queued; a job that is killed or raises between
\* the result and its event; an event that is switched off or cannot be emitted;
\* a form that put an older result back.  None of them for ever: the next change
\* that an audit of its own announces puts the two in order.
AuditTold ==
    \/ mixedUp
    \/ /\ Cardinality(Audits) <= 1
       /\ (\E j \in AuditJobs : AuditAt(j, "saved"))
             \/ (auditEvent = "failed" <=> Bad(auditRow.status))
=============================================================================
