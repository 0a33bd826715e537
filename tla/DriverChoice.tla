----------------------------- MODULE DriverChoice -----------------------------
(***************************************************************************)
(* Which drivers are enabled (Settings > Device drivers) and which are     *)
(* assigned to targets and platform mappings.  The forms of assignments    *)
(* validate without a lock (clean) and again when they save; there, and    *)
(* for the whole request that changes the settings, the row of             *)
(* OperationalSettings serialises them (locked_driver_settings).           *)
(* Migration 0003 creates that row.  The two SIAE compatibility drivers    *)
(* are selected as siae_smos_auto.                                         *)
(***************************************************************************)
CONSTANTS
    Assignees,  \* targets and platform mappings
    Plain,      \* a driver that is its own selection
    SiaeAuto,   \* siae_smos_auto
    SiaeLegacy  \* siae_smos_cli, siae_smos_ssh

NoDriver == "no driver"
DriverIds == {Plain, SiaeAuto, SiaeLegacy}
Selectable == {Plain, SiaeAuto}

ASSUME DriverAssumption == NoDriver \notin DriverIds

VARIABLES
    disabled,     \* OperationalSettings.disabled_driver_ids
    assigned,     \* driver_override or driver_id of each row
    assigning,    \* the form of each row between clean and save
    driverRun     \* the last run: its row, the driver it read, whether the row
                  \* got another one since, and how it began

NoRun == [at |-> "none", row |-> NoDriver, driver |-> NoDriver, moved |-> FALSE]

driverVars == <<disabled, assigned, assigning, driverRun>>

\* selection_id
SelectionId(d) == IF d = SiaeLegacy THEN SiaeAuto ELSE d

\* driver_is_enabled
DriverIsEnabled(d) == SelectionId(d) \notin {SelectionId(e) : e \in disabled}

\* driver_usage_counts: rows that are disabled themselves count too.
DriversInUse == {SelectionId(assigned[a]) : a \in {b \in Assignees : assigned[b] # NoDriver}}

DriverChoiceInit ==
    /\ disabled = {}
    /\ assigned = [a \in Assignees |-> NoDriver]
    /\ assigning = [a \in Assignees |-> NoDriver]
    /\ driverRun = NoRun

\* validate_disabled_drivers
MayDisable(off) == {SelectionId(d) : d \in off} \cap DriversInUse = {}

\* AdvancedSettingsView.post, DriverSettingsForm
SaveDrivers ==
    /\ \E off \in SUBSET Selectable : MayDisable(off) /\ disabled' = off
    /\ UNCHANGED <<assigned, assigning, driverRun>>

\* BackupTarget.clean, PlatformMapping.clean, QuickSetupForm.clean
ChooseAssignment(a) ==
    /\ assigning[a] = NoDriver
    /\ \E d \in DriverIds :
          /\ DriverIsEnabled(d)
          /\ assigning' = [assigning EXCEPT ![a] = d]
    /\ UNCHANGED <<disabled, assigned, driverRun>>

\* Mutant: what clean() accepted is saved.
AssignmentAccepted(d) == TRUE

\* validate_driver_assignment under the lock.
AssignmentValid(d) == DriverIsEnabled(d)

\* A run that has read the driver of a row goes on with it.
DriverTaken(a, driver) ==
    driverRun' = [driverRun EXCEPT !.moved = @ \/ (driverRun.row = a /\
                     SelectionId(driver) # SelectionId(driverRun.driver))]

\* BackupTarget.save, PlatformMapping.save
SaveAssignment(a) ==
    /\ assigning[a] # NoDriver
    /\ assigned' = IF AssignmentValid(assigning[a])
                   THEN [assigned EXCEPT ![a] = assigning[a]] ELSE assigned
    /\ assigning' = [assigning EXCEPT ![a] = NoDriver]
    /\ DriverTaken(a, assigned'[a])
    /\ UNCHANGED disabled

\* The row is deleted or its driver cleared.
ClearAssignment(a) ==
    /\ assigned[a] # NoDriver
    /\ assigned' = [assigned EXCEPT ![a] = NoDriver]
    /\ DriverTaken(a, NoDriver)
    /\ UNCHANGED <<disabled, assigning>>

\* get_execution_context reads the driver of the row ...
ReadDriver(a) ==
    /\ driverRun.at # "read"
    /\ assigned[a] # NoDriver
    /\ driverRun' = [at |-> "read", row |-> a, driver |-> assigned[a], moved |-> FALSE]
    /\ UNCHANGED <<disabled, assigned, assigning>>

\* ... and after mark_running EnabledDriverRegistry.create looks at the settings.
CreateDriver ==
    /\ driverRun.at = "read"
    /\ driverRun' = [driverRun EXCEPT !.at = IF DriverIsEnabled(driverRun.driver)
                                             THEN "created" ELSE "DRIVER_DISABLED"]
    /\ UNCHANGED <<disabled, assigned, assigning>>

DriverChoiceNext ==
    \/ SaveDrivers \/ CreateDriver
    \/ \E a \in Assignees : \/ ChooseAssignment(a) \/ SaveAssignment(a)
                            \/ ClearAssignment(a) \/ ReadDriver(a)

-----------------------------------------------------------------------------
\* No backup fails because a driver in use was disabled: a run gets DRIVER_DISABLED
\* only when its row was given another driver after the run had read it.  A driver
\* that a target or a mapping uses, under its own or a compatibility identifier,
\* is never disabled, however the forms overlap.
NoDriverDisabledInUse == driverRun.at = "DRIVER_DISABLED" => driverRun.moved
=============================================================================
