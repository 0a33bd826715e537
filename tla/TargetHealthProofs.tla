-------------------------- MODULE TargetHealthProofs --------------------------
(***************************************************************************)
(* TLAPS proofs about TargetHealth, for any number of results and requests *)
(* and both values of notify_on_every_failure.                             *)
(***************************************************************************)
EXTENDS TargetHealth, TLAPS

Rows == [enabled : BOOLEAN, status : TargetStatuses, failures : Nat, success : Nat]

Forms == [kind : {"schedule", "edit"}, row : Rows]

HealthTypes ==
    /\ row \in Rows
    /\ commits \in Nat
    /\ form \in {NoForm} \cup Forms

EventKinds == \A e \in pending : e.kind \in {"failed", "recovered"}

HealthInv == HealthTypes /\ EventKinds /\ FailureAnnounced

-----------------------------------------------------------------------------
\* A form that is open is one of the two kinds, and NoForm is neither.
LEMMA FormKinds ==
    ASSUME HealthTypes
    PROVE  form.kind \in {"schedule", "edit"} => form.row \in Rows
<1>1. CASE form = NoForm BY <1>1 DEF NoForm
<1>2. CASE form \in Forms BY <1>2 DEF Forms
<1> QED BY <1>1, <1>2 DEF HealthTypes

\* Every status that is computed is a status.
LEMMA StatusComputed ==
    ASSUME NEW rw \in Rows
    PROVE  EvaluateTargetHealth(rw) \in TargetStatuses /\ ScheduledStatus(rw) \in TargetStatuses
BY DEF Rows, TargetStatuses, EvaluateTargetHealth, ScheduledStatus, Quiet

\* A step that leaves the counter and the events alone, or only announces.
LEMMA StatusOnlyStep ==
    ASSUME HealthInv, row' \in Rows, row'.failures = row.failures,
           commits' = commits, form' \in {NoForm, form},
           pending' = pending, open => open', unsaid' = {} => unsaid = {}
    PROVE  HealthInv'
<1>1. HealthTypes' BY DEF HealthInv, HealthTypes
<1>2. FailureAnnounced' BY DEF HealthInv, FailureAnnounced
<1>3. EventKinds' BY DEF HealthInv, EventKinds
<1> QED BY <1>1, <1>2, <1>3 DEF HealthInv

\* What is queued is of a kind.
LEMMA QueueStep ==
    ASSUME EventKinds, NEW kind \in {"failed", "recovered"}, NEW queued,
           QueueRunEvent(kind, queued)
    PROVE  EventKinds'
BY DEF EventKinds, QueueRunEvent

\* A success leaves no failure to be announced.
LEMMA CommitSuccessStep == HealthInv /\ CommitSuccess => HealthInv'
<1> SUFFICES ASSUME HealthInv, CommitSuccess PROVE HealthInv'
  OBVIOUS
<1> DEFINE n == commits + 1
<1>1. commits' = n /\ row' = MarkTargetSuccess(row, n) /\ form' = form
  BY DEF CommitSuccess, webVars
<1>2. n \in Nat /\ "healthy" \in TargetStatuses /\ row \in Rows /\ form \in {NoForm} \cup Forms
  BY DEF HealthInv, HealthTypes, TargetStatuses
<1> HIDE DEF n
<1>3. row' \in Rows /\ row'.failures = 0 BY <1>1, <1>2 DEF MarkTargetSuccess, Rows
<1>4. HealthTypes' BY <1>1, <1>2, <1>3 DEF HealthTypes
<1>5. FailureAnnounced' BY <1>3 DEF FailureAnnounced
<1>6. EventKinds' BY QueueStep DEF HealthInv, CommitSuccess
<1> QED BY <1>4, <1>5, <1>6 DEF HealthInv

\* The first failure queues its event, a later one finds it queued or emitted.
LEMMA MarkFailedStep == HealthInv /\ MarkFailed => HealthInv'
<1> SUFFICES ASSUME HealthInv, MarkFailed PROVE HealthInv'
  OBVIOUS
<1>1. /\ commits' = commits + 1
      /\ row' = [row EXCEPT !.status = "failed", !.failures = @ + 1]
      /\ UNCHANGED <<form, open, unsaid>>
  BY DEF MarkFailed, webVars
<1>2. HealthTypes BY DEF HealthInv
<1>3. row' \in Rows
  <2> DEFINE n == row.failures + 1
  <2>1. n \in Nat /\ "failed" \in TargetStatuses /\ row \in Rows
    BY <1>2 DEF HealthTypes, Rows, TargetStatuses
  <2>2. row' = [row EXCEPT !.status = "failed", !.failures = n] BY <1>1
  <2> HIDE DEF n
  <2> QED BY <2>1, <2>2 DEF Rows
<1>4. HealthTypes' BY <1>1, <1>2, <1>3 DEF HealthTypes
<1>5. \A e \in pending : e \in pending' BY DEF MarkFailed, QueueRunEvent
<1>6. row.failures = 0 => \E e \in pending' : e.kind = "failed"
  <2> DEFINE ev == [n |-> commits + 1, kind |-> "failed"]
  <2>1. row.failures = 0 => ev \in pending' BY DEF MarkFailed, QueueRunEvent, FirstFailure
  <2>2. ev.kind = "failed" OBVIOUS
  <2> QED BY <2>1, <2>2
<1>7. row.failures # 0 => row.failures > 0 BY <1>2 DEF HealthTypes, Rows
<1>8. FailureAnnounced'
  BY <1>1, <1>5, <1>6, <1>7 DEF HealthInv, FailureAnnounced
<1>9. EventKinds' BY QueueStep DEF HealthInv, MarkFailed
<1> QED BY <1>4, <1>8, <1>9 DEF HealthInv

\* Emitting a failure tells of it; a recovery that is emitted while failures are
\* counted is noted.
LEMMA EmitStep ==
    ASSUME HealthInv, NEW e \in pending, EmitRunEvent(e)
    PROVE  HealthInv'
<1>1. UNCHANGED <<row, commits, form>> BY DEF EmitRunEvent, webVars
<1>2. HealthTypes' BY <1>1 DEF HealthInv, HealthTypes
<1>3. EventKinds' BY DEF EmitRunEvent, HealthInv, EventKinds
<1>4. FailureAnnounced'
  <2>1. CASE e.kind = "failed"
    <3>1. open' BY <2>1 DEF EmitRunEvent
    <3> QED BY <3>1 DEF FailureAnnounced
  <2>2. CASE e.kind = "recovered" /\ row.failures > 0
    <3>1. unsaid' = unsaid \cup {"overtaken"} BY <2>2 DEF EmitRunEvent
    <3>2. unsaid' # {} BY <3>1
    <3> QED BY <3>2 DEF FailureAnnounced
  <2>3. CASE ~ (row.failures > 0)
    BY <1>1, <2>3 DEF FailureAnnounced
  <2> QED BY <2>1, <2>2, <2>3 DEF HealthInv, EventKinds
<1> QED BY <1>2, <1>3, <1>4 DEF HealthInv

\* A failure that is not emitted is noted; a recovery that is not emitted leaves
\* the failure announced.
LEMMA DropStep ==
    ASSUME HealthInv, NEW e \in pending, DropRunEvent(e)
    PROVE  HealthInv'
<1>1. UNCHANGED <<row, commits, form, open>> BY DEF DropRunEvent, webVars
<1>2. HealthTypes' BY <1>1 DEF HealthInv, HealthTypes
<1>3. EventKinds' BY DEF DropRunEvent, HealthInv, EventKinds
<1>4. FailureAnnounced'
  <2>1. CASE e.kind = "failed"
    <3>1. unsaid' = unsaid \cup {"dropped"} BY <2>1 DEF DropRunEvent
    <3>2. unsaid' # {} BY <3>1
    <3> QED BY <3>2 DEF FailureAnnounced
  <2>2. CASE e.kind # "failed"
    <3>1. \A f \in pending : f.kind = "failed" => f \in pending'
      BY <2>2 DEF DropRunEvent
    <3>2. unsaid' = unsaid BY <2>2 DEF DropRunEvent
    <3> QED BY <1>1, <3>1, <3>2 DEF HealthInv, FailureAnnounced
  <2> QED BY <2>1, <2>2
<1> QED BY <1>2, <1>3, <1>4 DEF HealthInv

\* The refresh writes the status and nothing else, however old its snapshot is.
LEMMA RefreshStep ==
    HealthInv /\ (RefreshRead \/ RefreshWrite \/ RefreshAnnounce \/ RefreshCrash) => HealthInv'
<1> SUFFICES ASSUME HealthInv, RefreshRead \/ RefreshWrite \/ RefreshAnnounce \/ RefreshCrash
             PROVE  HealthInv'
  OBVIOUS
<1>1. row \in Rows BY DEF HealthInv, HealthTypes
<1>2. UNCHANGED <<commits, form, pending, unsaid>>
  BY DEF RefreshRead, RefreshWrite, RefreshAnnounce, RefreshCrash, eventVars, webVars
<1>3. open => open'
  BY DEF RefreshRead, RefreshWrite, RefreshAnnounce, RefreshCrash, eventVars
<1>4. row' \in Rows /\ row'.failures = row.failures
  BY <1>1 DEF RefreshRead, RefreshWrite, RefreshAnnounce, RefreshCrash, Rows
<1> QED BY <1>2, <1>3, <1>4, StatusOnlyStep

\* A request loads the row as it is.
LEMMA LoadRowStep ==
    ASSUME HealthInv, NEW kind \in {"schedule", "edit"}, LoadRow(kind)
    PROVE  HealthInv'
<1>1. /\ form' = [kind |-> kind, row |-> row]
      /\ UNCHANGED <<row, commits, pending, open, unsaid>>
  BY DEF LoadRow, eventVars
<1>2. form' \in Forms BY <1>1 DEF HealthInv, HealthTypes, Forms
<1>3. HealthTypes' BY <1>1, <1>2 DEF HealthInv, HealthTypes
<1> QED BY <1>1, <1>3 DEF HealthInv, EventKinds, FailureAnnounced

\* Saving a schedule writes a status that may be old.
LEMMA SaveScheduleStep == HealthInv /\ SaveSchedule => HealthInv'
<1> SUFFICES ASSUME HealthInv, SaveSchedule PROVE HealthInv'
  OBVIOUS
<1>1. row \in Rows /\ form.row \in Rows
  BY FormKinds DEF HealthInv, HealthTypes, SaveSchedule
<1>2. ScheduledStatus(form.row) \in TargetStatuses BY <1>1, StatusComputed
<1>3. row' \in Rows /\ row'.failures = row.failures
  BY <1>1, <1>2 DEF SaveSchedule, Rows
<1>4. UNCHANGED <<commits, pending, open, unsaid>> /\ form' = NoForm
  BY DEF SaveSchedule, eventVars
<1> QED BY <1>3, <1>4, StatusOnlyStep

\* An edit writes all it loaded: either a result was lost, or the row had the
\* same counter.
LEMMA SaveEditStep ==
    ASSUME HealthInv, NEW enabled \in BOOLEAN, SaveEdit(enabled)
    PROVE  HealthInv'
<1> DEFINE edited == [form.row EXCEPT !.enabled = enabled]
<1>1. row \in Rows /\ form.row \in Rows
  BY FormKinds DEF HealthInv, HealthTypes, SaveEdit
<1>2. edited \in Rows /\ edited.failures = form.row.failures
  BY <1>1 DEF Rows
<1>3. row' = [edited EXCEPT !.status = ScheduledStatus(edited)] BY DEF SaveEdit
<1> HIDE DEF edited
<1>4. ScheduledStatus(edited) \in TargetStatuses BY <1>2, StatusComputed
<1>5. row' \in Rows /\ row'.failures = form.row.failures
  BY <1>2, <1>3, <1>4 DEF Rows
<1>6. UNCHANGED <<commits, pending, open>> /\ form' = NoForm
  BY DEF SaveEdit
<1>7. unsaid' = {} => unsaid = {} /\ form.row.failures = row.failures
  BY DEF SaveEdit
<1>8. HealthTypes' BY <1>5, <1>6 DEF HealthInv, HealthTypes
<1>9. FailureAnnounced' BY <1>5, <1>6, <1>7 DEF HealthInv, FailureAnnounced
<1>10. EventKinds' BY <1>6 DEF HealthInv, EventKinds
<1> QED BY <1>8, <1>9, <1>10 DEF HealthInv

\* The policy and the clock leave the row alone.
LEMMA OutsideStep == HealthInv /\ (TogglePolicy \/ DeadlinePasses \/ UNCHANGED vars) => HealthInv'
<1> SUFFICES ASSUME HealthInv, TogglePolicy \/ DeadlinePasses \/ UNCHANGED vars PROVE HealthInv'
  OBVIOUS
<1>1. UNCHANGED <<row, commits, form, pending, open, unsaid>>
  BY DEF TogglePolicy, DeadlinePasses, vars, eventVars, webVars
<1> QED BY <1>1 DEF HealthInv, HealthTypes, EventKinds, FailureAnnounced

\* The invariant of the health columns holds throughout.
LEMMA HealthInvariant == Spec => []HealthInv
<1>1. Init => HealthInv
  <2> SUFFICES ASSUME Init PROVE HealthInv
    OBVIOUS
  <2>1. HealthTypes BY DEF Init, HealthTypes, Rows, TargetStatuses
  <2> QED BY <2>1 DEF Init, HealthInv, EventKinds, FailureAnnounced
<1>2. HealthInv /\ [Next]_vars => HealthInv'
  BY CommitSuccessStep, MarkFailedStep, EmitStep, DropStep, RefreshStep, LoadRowStep,
     SaveScheduleStep, SaveEditStep, OutsideStep DEF Next
<1> QED BY <1>1, <1>2, PTL DEF Spec

\* A target with failed attempts has been announced as failed, or is about to be,
\* whatever the refresh and the requests write, unless its event was dropped, a
\* late recovery followed it, or an edit undid a result, since the last success.
THEOREM FailureAnnouncedHolds == Spec => []FailureAnnounced
<1>1. HealthInv => FailureAnnounced BY DEF HealthInv
<1> QED BY <1>1, HealthInvariant, PTL
=============================================================================
