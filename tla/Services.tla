------------------------------- MODULE Services -------------------------------
(***************************************************************************)
(* The parts of the plugin beside the backup pipeline that share no state  *)
(* with one another: the identity of devices, secrets, the choice of       *)
(* drivers, setup and deletion of targets, the retention plan, recovery    *)
(* packages, uploads by devices, integrity audits and the slots of the     *)
(* schedule.  A behaviour of this specification is a behaviour of one of   *)
(* them while the others rest, so that its states are the sum of theirs    *)
(* and not the product.                                                    *)
(***************************************************************************)
EXTENDS HostKeys, Secrets, DriverChoice, TargetLifecycle, RetentionPlan,
        RecoveryPackages, DeviceExport, IntegrityAudit, Scheduling

VARIABLE part   \* the part that runs

vars == <<part, hostKeyVars, secretVars, driverVars, lifeVars, planVars, packageVars, exportVars,
          auditVars, scheduleVars>>

Parts == {"host keys", "secrets", "drivers", "lifecycle", "retention", "packages", "exports",
          "audits", "schedules"}

\* A part that rests keeps one of its initial states.
Resting(p, oneInitialState) == part = p \/ oneInitialState

Init ==
    /\ part \in Parts
    /\ HostKeysInit /\ Resting("host keys", /\ hostPolicy = "strict" /\ hostsFile = "none"
                                            /\ presented = CHOOSE k \in HostKeySet : TRUE)
    /\ SecretsInit /\ Resting("secrets", \A s \in SecretRows : secretKey[s] = 0)
    /\ DriverChoiceInit
    /\ TargetLifecycleInit
    /\ RetentionPlanInit /\ Resting("retention", remote /\ policyOf = NoPolicy)
    /\ RecoveryPackagesInit /\ Resting("packages", zipSetting /\ zipSecret)
    /\ DeviceExportInit /\ Resting("exports", exportKind = "ceraos")
    /\ IntegrityAuditInit
    /\ SchedulingInit /\ Resting("schedules", schedulePolicy = CHOOSE p \in Policies : TRUE)

RestHostKeys == UNCHANGED hostKeyVars
RestSecrets == UNCHANGED secretVars
RestDrivers == UNCHANGED driverVars
RestLifecycle == UNCHANGED lifeVars
RestRetention == UNCHANGED planVars
RestPackages == UNCHANGED packageVars
RestExports == UNCHANGED exportVars
RestAudits == UNCHANGED auditVars
RestSchedules == UNCHANGED scheduleVars

Next ==
    /\ UNCHANGED part
    /\ \/ /\ part = "host keys" /\ HostKeysNext
          /\ RestSecrets /\ RestDrivers /\ RestLifecycle
          /\ RestRetention /\ RestPackages /\ RestExports /\ RestAudits /\ RestSchedules
       \/ /\ part = "secrets" /\ SecretsNext
          /\ RestHostKeys /\ RestDrivers /\ RestLifecycle
          /\ RestRetention /\ RestPackages /\ RestExports /\ RestAudits /\ RestSchedules
       \/ /\ part = "drivers" /\ DriverChoiceNext
          /\ RestHostKeys /\ RestSecrets /\ RestLifecycle
          /\ RestRetention /\ RestPackages /\ RestExports /\ RestAudits /\ RestSchedules
       \/ /\ part = "lifecycle" /\ TargetLifecycleNext
          /\ RestHostKeys /\ RestSecrets /\ RestDrivers
          /\ RestRetention /\ RestPackages /\ RestExports /\ RestAudits /\ RestSchedules
       \/ /\ part = "retention" /\ RetentionPlanNext
          /\ RestHostKeys /\ RestSecrets /\ RestDrivers
          /\ RestLifecycle /\ RestPackages /\ RestExports /\ RestAudits /\ RestSchedules
       \/ /\ part = "packages" /\ RecoveryPackagesNext
          /\ RestHostKeys /\ RestSecrets /\ RestDrivers
          /\ RestLifecycle /\ RestRetention /\ RestExports /\ RestAudits /\ RestSchedules
       \/ /\ part = "exports" /\ DeviceExportNext
          /\ RestHostKeys /\ RestSecrets /\ RestDrivers
          /\ RestLifecycle /\ RestRetention /\ RestPackages /\ RestAudits /\ RestSchedules
       \/ /\ part = "audits" /\ IntegrityAuditNext
          /\ RestHostKeys /\ RestSecrets /\ RestDrivers /\ RestLifecycle
          /\ RestRetention /\ RestPackages /\ RestExports /\ RestSchedules
       \/ /\ part = "schedules" /\ SchedulingNext
          /\ RestHostKeys /\ RestSecrets /\ RestDrivers /\ RestLifecycle
          /\ RestRetention /\ RestPackages /\ RestExports /\ RestAudits

Spec == Init /\ [][Next]_vars
=============================================================================
