---------------------------- MODULE ServicesProofs ----------------------------
(***************************************************************************)
(* TLAPS proofs about the parts of Services, for any keys, processes,      *)
(* rows, jobs, files and storages.  A step of Services is a step of each   *)
(* part or leaves its variables alone (StepOfParts), so that every part    *)
(* has an inductive invariant of its own.                                  *)
(***************************************************************************)
EXTENDS Services, FiniteSetTheorems, TLAPS

\* What the parts see of a step of the whole.
StepOfParts ==
    /\ [HostKeysNext]_hostKeyVars
    /\ [SecretsNext]_secretVars
    /\ [DriverChoiceNext]_driverVars
    /\ [TargetLifecycleNext]_lifeVars
    /\ [RecoveryPackagesNext]_packageVars
    /\ [DeviceExportNext]_exportVars
    /\ [IntegrityAuditNext]_auditVars

\* While one part runs the others rest.
LEMMA PartsRest == [Next]_vars => StepOfParts
BY DEF Next, vars, StepOfParts, RestHostKeys, RestSecrets, RestDrivers, RestLifecycle,
       RestPackages, RestExports, RestAudits

\* A set whose members are all the same has at most one.
LEMMA AtMostOne ==
    ASSUME NEW S, \A x, y \in S : x = y
    PROVE  Cardinality(S) <= 1
<1>1. CASE S = {} BY <1>1, FS_EmptySet
<1>2. CASE S # {}
  <2>1. PICK x : x \in S BY <1>2
  <2>2. S = {x} BY <2>1
  <2> QED BY <2>2, FS_Singleton
<1> QED BY <1>1, <1>2

-----------------------------------------------------------------------------
(* Drivers *)

DriverRuns ==
    [at : {"none", "read", "created", "DRIVER_DISABLED"}, row : Assignees \cup {NoDriver},
     driver : DriverIds \cup {NoDriver}, moved : BOOLEAN]

\* A driver that is assigned is enabled, under the identifier it is selected by;
\* what a run has read is still assigned, unless the row was given another one.
DriverInv ==
    /\ assigned \in [Assignees -> DriverIds \cup {NoDriver}]
    /\ assigning \in [Assignees -> DriverIds \cup {NoDriver}]
    /\ driverRun \in DriverRuns
    /\ \A a \in Assignees : assigned[a] # NoDriver => DriverIsEnabled(assigned[a])
    /\ driverRun.at = "read" =>
          /\ driverRun.row \in Assignees /\ driverRun.driver \in DriverIds
          /\ ~ driverRun.moved =>
                /\ assigned[driverRun.row] # NoDriver
                /\ SelectionId(assigned[driverRun.row]) = SelectionId(driverRun.driver)
    /\ NoDriverDisabledInUse

\* A row that changes while a run has read it is noticed, or has the same driver.
LEMMA DriverTakenStep ==
    ASSUME DriverInv, NEW a \in Assignees, NEW d \in DriverIds \cup {NoDriver},
           assigned' = [assigned EXCEPT ![a] = d],
           d # NoDriver => DriverIsEnabled(d), DriverTaken(a, d), UNCHANGED disabled,
           assigning' \in [Assignees -> DriverIds \cup {NoDriver}]
    PROVE  DriverInv'
<1> USE DEF DriverInv
<1>1. /\ driverRun' \in DriverRuns
      /\ driverRun'.at = driverRun.at /\ driverRun'.row = driverRun.row
      /\ driverRun'.driver = driverRun.driver
      /\ driverRun.moved => driverRun'.moved
      /\ driverRun.row = a /\ ~ driverRun'.moved => SelectionId(d) = SelectionId(driverRun.driver)
  BY DEF DriverTaken, DriverRuns
<1>2. /\ assigned' \in [Assignees -> DriverIds \cup {NoDriver}]
      /\ \A b \in Assignees : assigned'[b] = IF b = a THEN d ELSE assigned[b]
  OBVIOUS
<1>3. (\A b \in Assignees : assigned[b] # NoDriver => DriverIsEnabled(assigned[b]))'
  BY <1>2 DEF DriverIsEnabled
<1>4. driverRun.driver \in DriverIds /\ SelectionId(d) = SelectionId(driverRun.driver)
         => d # NoDriver
  BY DriverAssumption DEF SelectionId, DriverIds
<1>5. ASSUME driverRun'.at = "read"
      PROVE  /\ driverRun'.row \in Assignees /\ driverRun'.driver \in DriverIds
             /\ ~ driverRun'.moved =>
                   /\ assigned'[driverRun'.row] # NoDriver
                   /\ SelectionId(assigned'[driverRun'.row]) = SelectionId(driverRun'.driver)
  <2>1. CASE driverRun.row = a BY <1>1, <1>2, <1>4, <1>5, <2>1
  <2>2. CASE driverRun.row # a BY <1>1, <1>2, <1>5, <2>2
  <2> QED BY <2>1, <2>2
<1>6. NoDriverDisabledInUse' BY <1>1 DEF NoDriverDisabledInUse
<1> QED BY <1>1, <1>2, <1>3, <1>5, <1>6

\* Saving the settings refuses the drivers in use, and saving an assignment
\* validates again what the form had accepted.
LEMMA DriverStep == DriverInv /\ [DriverChoiceNext]_driverVars => DriverInv'
<1> SUFFICES ASSUME DriverInv, [DriverChoiceNext]_driverVars PROVE DriverInv'
  OBVIOUS
<1> USE DEF DriverInv, NoDriverDisabledInUse
<1>1. CASE SaveDrivers
  BY <1>1 DEF SaveDrivers, MayDisable, DriversInUse, DriverIsEnabled
<1>2. ASSUME NEW a \in Assignees, ChooseAssignment(a) PROVE DriverInv'
  BY <1>2 DEF ChooseAssignment, DriverIsEnabled
<1>3. ASSUME NEW a \in Assignees, SaveAssignment(a) PROVE DriverInv'
  <2>1. PICK d \in DriverIds \cup {NoDriver} :
           /\ d = assigned'[a] /\ assigned' = [assigned EXCEPT ![a] = d]
           /\ d # NoDriver => DriverIsEnabled(d)
    <3>1. CASE AssignmentValid(assigning[a])
      BY <1>3, <3>1 DEF SaveAssignment, AssignmentValid
    <3>2. CASE ~ AssignmentValid(assigning[a])
      <4>1. assigned' = assigned /\ assigned = [assigned EXCEPT ![a] = assigned[a]]
        BY <1>3, <3>2 DEF SaveAssignment
      <4> QED BY <4>1
    <3> QED BY <3>1, <3>2
  <2>2. assigning' \in [Assignees -> DriverIds \cup {NoDriver}] /\ UNCHANGED disabled
    BY <1>3 DEF SaveAssignment
  <2>3. DriverTaken(a, d) BY <1>3, <2>1 DEF SaveAssignment, DriverTaken
  <2> QED BY <2>1, <2>2, <2>3, DriverTakenStep
<1>4. ASSUME NEW a \in Assignees, ClearAssignment(a) PROVE DriverInv'
  <2>1. /\ assigned' = [assigned EXCEPT ![a] = NoDriver] /\ DriverTaken(a, NoDriver)
        /\ UNCHANGED <<disabled, assigning>>
    BY <1>4 DEF ClearAssignment
  <2> QED BY <2>1, DriverTakenStep
<1>5. ASSUME NEW a \in Assignees, ReadDriver(a) PROVE DriverInv'
  BY <1>5 DEF ReadDriver, DriverIsEnabled, DriverRuns
<1>6. CASE CreateDriver
  <2>1. /\ driverRun' \in DriverRuns /\ driverRun'.at # "read"
        /\ driverRun'.moved = driverRun.moved
        /\ driverRun'.at = "DRIVER_DISABLED" => ~ DriverIsEnabled(driverRun.driver)
    BY <1>6 DEF CreateDriver, DriverRuns
  <2>2. ~ driverRun.moved => DriverIsEnabled(driverRun.driver)
    BY <1>6 DEF CreateDriver, DriverIsEnabled
  <2> QED BY <1>6, <2>1, <2>2 DEF CreateDriver, DriverIsEnabled
<1>7. CASE UNCHANGED driverVars
  BY <1>7 DEF driverVars, DriverIsEnabled
<1> QED BY <1>1, <1>2, <1>3, <1>4, <1>5, <1>6, <1>7 DEF DriverChoiceNext

\* However the forms of settings, targets and mappings overlap, a run meets a
\* disabled driver only if its row was given another one after it had read it.
THEOREM NoDriverDisabledInUseHolds == Spec => []NoDriverDisabledInUse
<1>1. Init => DriverInv
  <2> SUFFICES ASSUME DriverChoiceInit PROVE DriverInv
    BY DEF Init
  <2>1. NoRun \in DriverRuns /\ NoRun.at = "none"
    BY DEF NoRun, DriverRuns
  <2> QED BY <2>1 DEF DriverChoiceInit, DriverInv, NoDriverDisabledInUse
<1>2. DriverInv /\ [Next]_vars => DriverInv'
  BY DriverStep, PartsRest DEF StepOfParts
<1>3. DriverInv => NoDriverDisabledInUse
  BY DEF DriverInv
<1> QED BY <1>1, <1>2, <1>3, PTL DEF Spec

-----------------------------------------------------------------------------
(* Secrets *)

\* From the moment the command runs no process is left that encrypts with the
\* old key, a form that was open in one died with it, and no row is on the old
\* key once a dry run has found none.
SecretInv ==
    /\ keyEnv \in [Processes -> {"old", "both", "new"}]
    /\ secretKey \in [SecretRows -> 0..2]
    /\ saving \in [Processes -> [row : SecretRows, part : {"nothing", "password", "username"},
                                 key : 0..2]]
    /\ \A p \in Processes : saving[p].part # "nothing" => saving[p].row # DownloadKey
    /\ \A p \in Processes : saving[p].part = "password" =>
          saving[p].key # 0 /\ (saving[p].key = 1 => keyEnv[p] = "old")
    /\ stage # "before" => \A p \in Processes : keyEnv[p] # "old"
    /\ \A p \in Processes : keyEnv[p] = "new" => stage = "verified"
    /\ stage = "verified" => PendingRotation = {}
    /\ zipProtected => secretKey[DownloadKey] # 0

\* Every form and every step of the procedure keeps it.
LEMMA SecretStep == SecretInv /\ [SecretsNext]_secretVars => SecretInv'
<1> SUFFICES ASSUME SecretInv, [SecretsNext]_secretVars PROVE SecretInv'
  OBVIOUS
<1> USE SecretsAssumption DEF SecretInv, PendingRotation, SecretRows, NotSaving
<1>1. ASSUME NEW p \in Processes, NEW s \in Passwords, LoadCredential(p, s) PROVE SecretInv'
  BY <1>1 DEF LoadCredential, ActiveVersion
<1>2. ASSUME NEW p \in Processes, StoreCredential(p) PROVE SecretInv'
  BY <1>2 DEF StoreCredential, SavedRow
<1>3. ASSUME NEW p \in Processes, SaveDownloadEncryption(p) PROVE SecretInv'
  <2>1. PICK remove \in BOOLEAN, set \in BOOLEAN, enable \in BOOLEAN :
           /\ enable => WillHavePassword(remove, set)
           /\ ~ (remove /\ set)
           /\ zipProtected' = enable
           /\ secretKey' = [secretKey EXCEPT ![DownloadKey] =
                  IF remove THEN 0 ELSE IF set THEN ActiveVersion(p) ELSE @]
    BY <1>3 DEF SaveDownloadEncryption
  <2>2. UNCHANGED <<keyEnv, saving, rotating, stage>> BY <1>3 DEF SaveDownloadEncryption
  <2>3. ActiveVersion(p) \in {1, 2} /\ (stage = "verified" => ActiveVersion(p) = 2)
    BY DEF ActiveVersion
  <2>4. secretKey' \in [SecretRows -> 0..2] BY <2>1, <2>3
  <2>5. stage' = "verified" => PendingRotation' = {} BY <2>1, <2>2, <2>3
  <2>6. secretKey'[DownloadKey] =
           IF remove THEN 0 ELSE IF set THEN ActiveVersion(p) ELSE secretKey[DownloadKey]
    BY <2>1
  <2>7. WillHavePassword(remove, set) => secretKey'[DownloadKey] # 0
    BY <2>1, <2>3, <2>6 DEF WillHavePassword
  <2>8. zipProtected' => secretKey'[DownloadKey] # 0 BY <2>1, <2>7, Zenon
  <2> QED BY <2>2, <2>4, <2>5, <2>8
<1>4. ASSUME NEW p \in Processes, RestartWithBoth(p) \/ RestartWithNew(p) PROVE SecretInv'
  <2>1. PICK env \in {"both", "new"} :
           keyEnv' = [keyEnv EXCEPT ![p] = env] /\ (env = "new" => stage = "verified")
    BY <1>4 DEF RestartWithBoth, RestartWithNew, Restart
  <2>2. saving' = [saving EXCEPT ![p] = NotSaving]
        /\ UNCHANGED <<secretKey, stage, zipProtected>>
    BY <1>4 DEF RestartWithBoth, RestartWithNew, Restart
  <2>3. keyEnv' \in [Processes -> {"old", "both", "new"}] BY <2>1
  <2>4. saving' \in [Processes -> [row : SecretRows, part : {"nothing", "password", "username"},
                                   key : 0..2]]
    BY <2>2
  <2> QED BY <2>1, <2>2, <2>3, <2>4
<1>5. ASSUME NEW p \in Processes, RotateBegin(p) \/ DryRun(p) PROVE SecretInv'
  BY <1>5 DEF RotateBegin, DryRun
<1>6. ASSUME NEW s \in Passwords, DeleteCredential(s) PROVE SecretInv'
  BY <1>6 DEF DeleteCredential
<1>7. CASE RotateCommit
  BY <1>7 DEF RotateCommit
<1>8. CASE UNCHANGED secretVars
  BY <1>8 DEF secretVars
<1> QED BY <1>1, <1>2, <1>3, <1>4, <1>5, <1>6, <1>7, <1>8 DEF SecretsNext

\* Every process that was restarted for the rotation of the master key can read
\* every secret, and protected downloads have a password, whatever forms were
\* open when the rotation began.
THEOREM SecretsReadableHolds == Spec => []SecretsReadable
<1>1. Init => SecretInv
  <2> SUFFICES ASSUME SecretsInit PROVE SecretInv
    BY DEF Init
  <2>1. zipProtected => secretKey[DownloadKey] # 0
    BY Zenon DEF SecretsInit
  <2> QED BY <2>1 DEF SecretsInit, SecretInv, PendingRotation, NotSaving, SecretRows
<1>2. SecretInv /\ [Next]_vars => SecretInv'
  BY SecretStep, PartsRest DEF StepOfParts
<1>3. SecretInv => SecretsReadable
  BY DEF SecretInv, SecretsReadable, Decrypts, Keyring, ActiveVersion, PendingRotation
<1> QED BY <1>1, <1>2, <1>3, PTL DEF Spec

-----------------------------------------------------------------------------
(* Host keys *)

JobSteps == {"idle", "scan", "first", "first-commit", "context", "connect", "session"}

JobState == [at : JobSteps, key : HostKeySet \cup {NoKey},
             known : SUBSET (HostKeySet \cup {NoKey}), alone : BOOLEAN]

Approvals == [key : HostKeySet, replaces : SUBSET HostKeySet, alone : BOOLEAN]

HostKeyTypes ==
    /\ presented \in HostKeySet
    /\ keyRow \in [HostKeySet -> {"none", "pending", "trusted", "rejected"}]
    /\ approvals \in SUBSET Approvals
    /\ connector \in [Connectors -> JobState]

\* A first trust that is about to commit has seen no other key, and its own row
\* keeps every other job from coming as far.
FirstTrust ==
    /\ \A c \in Connectors : connector[c].at \in {"first", "first-commit"} =>
          connector[c].key \in HostKeySet
    /\ \A c \in Connectors : connector[c].at = "first-commit" =>
          /\ keyRow[connector[c].key] # "none"
          /\ trustedFirst \subseteq {connector[c].key}
          /\ \A d \in Connectors : connector[d].at = "first-commit" =>
                connector[d].key = connector[c].key
    /\ \A k, l \in trustedFirst : k = l
    /\ \A k \in trustedFirst : k \in HostKeySet /\ keyRow[k] # "none"

\* The reasons of a session to go on: the key was trusted first or vouched for,
\* or a file of the deployment lists it.
MayMeet(job) ==
    NoKey \notin job.known =>
        \/ job.key \in trustedFirst \cup vouched
        \/ /\ job.key \in FileKeys
           /\ hostsFile = "profile" \/ (hostsFile = "system" /\ job.known = {})

\* Nothing is trusted, or goes as trusted in a job, that was not trusted first
\* or vouched for; a transaction that nobody overtook replaces all others.
TrustHasReason ==
    /\ Trusted \subseteq trustedFirst \cup vouched
    /\ \A c \in Connectors : connector[c].at = "connect" /\ NoKey \notin connector[c].known =>
          connector[c].known \subseteq trustedFirst \cup vouched
    /\ \A c \in Connectors : connector[c].at = "session" => MayMeet(connector[c])
    /\ ~ crossed => \A k, l \in Trusted : k = l
    /\ \A c \in Connectors : connector[c].at = "first-commit" /\ connector[c].alone =>
          Trusted \subseteq {connector[c].key}
    /\ \A a \in approvals : a.alone => Trusted \subseteq a.replaces \cup {a.key}

HostKeyInv == HostKeyTypes /\ FirstTrust /\ TrustHasReason

\* Of the approvals that were overtaken none is alone.
LEMMA OvertakenFacts ==
    ASSUME NEW open \in SUBSET Approvals
    PROVE  Overtaken(open) \subseteq Approvals /\ \A a \in Overtaken(open) : ~ a.alone
<1> SUFFICES ASSUME NEW b \in Overtaken(open) PROVE b \in Approvals /\ ~ b.alone
  OBVIOUS
<1>1. PICK a \in open : b = [a EXCEPT !.alone = FALSE] BY DEF Overtaken
<1>2. a \in Approvals OBVIOUS
<1> QED BY <1>1, <1>2 DEF Approvals

\* A step of a job that changes neither keys nor history keeps the invariant if
\* the new state of the job is no more than the old state allowed.
LEMMA JobStep ==
    ASSUME HostKeyInv, NEW c \in Connectors,
           NEW next \in JobState,
           connector' = [connector EXCEPT ![c] = next],
           UNCHANGED <<hostsFile, presented, keyRow, approvals, trustedFirst, vouched, crossed>>,
           next.at = "first" => next.key \in HostKeySet,
           next.at # "first-commit",
           next.at = "connect" /\ NoKey \notin next.known =>
               next.known \subseteq trustedFirst \cup vouched,
           next.at = "session" => MayMeet(next)
    PROVE  HostKeyInv'
<1>1. connector'[c] = next /\ \A d \in Connectors : d # c => connector'[d] = connector[d]
  BY DEF HostKeyInv, HostKeyTypes
<1>2. Trusted' = Trusted BY DEF Trusted
<1>3. HostKeyTypes' BY DEF HostKeyInv, HostKeyTypes
<1>4. FirstTrust' BY <1>1 DEF HostKeyInv, FirstTrust
<1>5. TrustHasReason' BY <1>1, <1>2 DEF HostKeyInv, TrustHasReason, MayMeet
<1> QED BY <1>3, <1>4, <1>5 DEF HostKeyInv

\* Every step of a job keeps the invariant.
LEMMA ConnectorStep ==
    ASSUME HostKeyInv, NEW c \in Connectors,
           \/ StartJob(c) \/ StartScan(c) \/ ScanTargetHostKey(c) \/ ScanFails(c)
           \/ FirstCheck(c) \/ FirstCommit(c) \/ LoadContext(c) \/ Connect(c) \/ Disconnect(c)
    PROVE  HostKeyInv'
<1>1. connector[c] \in JobState BY DEF HostKeyInv, HostKeyTypes
<1>2. AfterScan \subseteq {j \in JobState : j.at \in {"context", "idle"}} /\ Waiting \in JobState
      /\ Waiting.at = "idle"
  <2>1. Waiting \in JobState /\ Waiting.at = "idle" BY DEF Waiting, JobState, JobSteps
  <2>2. LET then == [Waiting EXCEPT !.at = "context"]
        IN  then \in JobState /\ then.at = "context"
    BY <2>1 DEF JobState, JobSteps
  <2> QED BY <2>1, <2>2 DEF AfterScan
<1>3. CASE StartJob(c) \/ StartScan(c)
  <2>1. PICK at \in {"scan", "context"} : connector' = [connector EXCEPT ![c].at = at]
    BY <1>3 DEF StartJob, StartScan
  <2>2. connector' = [connector EXCEPT ![c] = [connector[c] EXCEPT !.at = at]] BY <2>1
  <2>3. [connector[c] EXCEPT !.at = at] \in JobState
        /\ [connector[c] EXCEPT !.at = at].at \in {"scan", "context"}
    BY <1>1 DEF JobState, JobSteps
  <2>4. UNCHANGED <<hostsFile, presented, keyRow, approvals, trustedFirst, vouched, crossed>>
    BY <1>3 DEF StartJob, StartScan
  <2> QED BY <2>2, <2>3, <2>4, JobStep
<1>4. CASE ScanFails(c) \/ Disconnect(c)
  <2>1. PICK next \in JobState : next.at \in {"context", "idle"}
                                /\ connector' = [connector EXCEPT ![c] = next]
    BY <1>2, <1>4 DEF ScanFails, Disconnect
  <2>2. UNCHANGED <<hostsFile, presented, keyRow, approvals, trustedFirst, vouched, crossed>>
    BY <1>4 DEF ScanFails, Disconnect
  <2> QED BY <2>1, <2>2, JobStep
<1>5. CASE LoadContext(c)
  <2> DEFINE known == IF hostPolicy = "off" THEN HostKeySet \cup {NoKey} ELSE Trusted
             next == [connector[c] EXCEPT !.at = "connect", !.known = known]
  <2>1. connector' = [connector EXCEPT ![c] = next] BY <1>5 DEF LoadContext
  <2>2. Trusted \subseteq HostKeySet /\ Trusted \subseteq trustedFirst \cup vouched
    BY DEF Trusted, HostKeyInv, TrustHasReason
  <2>3. next \in JobState /\ next.at = "connect" /\ next.known = known
    BY <1>1, <2>2 DEF JobState, JobSteps
  <2>4. NoKey \notin known => known \subseteq trustedFirst \cup vouched BY <2>2
  <2>5. UNCHANGED <<hostsFile, presented, keyRow, approvals, trustedFirst, vouched, crossed>>
    BY <1>5 DEF LoadContext
  <2> HIDE DEF next, known
  <2> QED BY <2>1, <2>3, <2>4, <2>5, JobStep
<1>6. CASE Connect(c)
  <2>1. UNCHANGED <<hostsFile, presented, keyRow, approvals, trustedFirst, vouched, crossed>>
    BY <1>6 DEF Connect
  <2>2. connector[c].at = "connect" BY <1>6 DEF Connect, Connector
  <2>3. CASE presented \in KnownHosts(connector[c].known)
    <3> DEFINE next == [connector[c] EXCEPT !.at = "session", !.key = presented]
    <3>1. connector' = [connector EXCEPT ![c] = next] BY <1>6, <2>3 DEF Connect
    <3>2. presented \in HostKeySet BY DEF HostKeyInv, HostKeyTypes
    <3>3. /\ next \in JobState /\ next.at = "session" /\ next.key = presented
          /\ next.known = connector[c].known
      BY <1>1, <3>2 DEF JobState, JobSteps
    <3>4. NoKey \notin connector[c].known =>
             connector[c].known \subseteq trustedFirst \cup vouched
      BY <2>2 DEF HostKeyInv, TrustHasReason
    <3> HIDE DEF next
    <3>5. MayMeet(next) BY <2>3, <3>3, <3>4 DEF MayMeet, KnownHosts
    <3> QED BY <2>1, <3>1, <3>3, <3>5, JobStep
  <2>4. CASE presented \notin KnownHosts(connector[c].known)
    <3>1. connector' = [connector EXCEPT ![c] = Waiting] BY <1>6, <2>4 DEF Connect
    <3> QED BY <1>2, <2>1, <3>1, JobStep
  <2> QED BY <2>3, <2>4
<1>7. CASE ScanTargetHostKey(c)
  <2>1. /\ keyRow' = [keyRow EXCEPT ![presented] = IF @ = "none" THEN "pending" ELSE @]
        /\ UNCHANGED <<hostsFile, presented, approvals, trustedFirst, vouched, crossed>>
    BY <1>7 DEF ScanTargetHostKey
  <2>2. PICK next \in JobState :
           /\ connector' = [connector EXCEPT ![c] = next]
           /\ next.at \in {"first", "context", "idle"}
           /\ next.at = "first" => next.key \in HostKeySet
    <3>1. LET first == [Waiting EXCEPT !.at = "first", !.key = presented]
          IN  first \in JobState /\ first.at = "first" /\ first.key \in HostKeySet
      BY DEF Waiting, JobState, JobSteps, HostKeyInv, HostKeyTypes
    <3>2. \E next \in AfterScan \cup {[Waiting EXCEPT !.at = "first", !.key = presented]} :
             connector' = [connector EXCEPT ![c] = next]
      BY <1>7 DEF ScanTargetHostKey
    <3> QED BY <1>2, <3>1, <3>2
  <2>3. connector'[c] = next /\ \A d \in Connectors : d # c => connector'[d] = connector[d]
    BY <2>2 DEF HostKeyInv, HostKeyTypes
  <2>4. /\ keyRow' \in [HostKeySet -> {"none", "pending", "trusted", "rejected"}]
        /\ \A k \in HostKeySet : keyRow[k] # "none" => keyRow'[k] # "none"
        /\ Trusted' = Trusted
    BY <2>1 DEF HostKeyInv, HostKeyTypes, Trusted
  <2>5. HostKeyTypes' BY <2>1, <2>2, <2>4 DEF HostKeyInv, HostKeyTypes
  <2>6. FirstTrust' BY <2>1, <2>2, <2>3, <2>4 DEF HostKeyInv, FirstTrust
  <2>7. TrustHasReason' BY <2>1, <2>2, <2>3, <2>4 DEF HostKeyInv, TrustHasReason, MayMeet
  <2> QED BY <2>5, <2>6, <2>7 DEF HostKeyInv
<1>8. CASE FirstCheck(c)
  <2>1. UNCHANGED <<hostsFile, presented, keyRow, approvals, trustedFirst, vouched, crossed>>
    BY <1>8 DEF FirstCheck
  <2>2. CASE \E next \in AfterScan : connector' = [connector EXCEPT ![c] = next]
    BY <1>2, <2>1, <2>2, JobStep
  <2>3. CASE /\ connector' = [connector EXCEPT ![c] = [connector[c] EXCEPT !.at = "first-commit"]]
             /\ keyRow[connector[c].key] = "pending"
             /\ ~ EndpointHistoryExists(connector[c].key)
    <3>1. /\ connector'[c] = [connector[c] EXCEPT !.at = "first-commit"]
          /\ \A d \in Connectors : d # c => connector'[d] = connector[d]
      BY <2>3 DEF HostKeyInv, HostKeyTypes
    <3>2. connector'[c] \in JobState /\ connector'[c].at = "first-commit"
          /\ connector'[c].key = connector[c].key /\ connector[c].at = "first"
      BY <1>1, <1>8, <3>1 DEF JobState, JobSteps, FirstCheck, Connector
    <3>3. /\ connector[c].key \in HostKeySet
          /\ \A k \in HostKeySet : keyRow[k] # "none" => k = connector[c].key
      BY <2>3, <3>2 DEF EndpointHistoryExists, HostKeyInv, FirstTrust
    <3>4. Trusted' = Trusted /\ Trusted \subseteq {connector[c].key}
      BY <2>1, <3>3 DEF Trusted
    <3>5. HostKeyTypes' BY <2>1, <2>3, <3>2 DEF HostKeyInv, HostKeyTypes
    <3>6. FirstTrust' BY <2>1, <2>3, <3>1, <3>2, <3>3 DEF HostKeyInv, FirstTrust
    <3>7. TrustHasReason' BY <2>1, <3>1, <3>2, <3>4 DEF HostKeyInv, TrustHasReason, MayMeet
    <3> QED BY <3>5, <3>6, <3>7 DEF HostKeyInv
  <2> QED BY <1>8, <2>2, <2>3 DEF FirstCheck
<1>9. CASE FirstCommit(c)
  <2> DEFINE k == connector[c].key
  <2>1. /\ keyRow' = [keyRow EXCEPT ![k] = "trusted"]
        /\ trustedFirst' = trustedFirst \cup {k}
        /\ crossed' = (crossed \/ ~ connector[c].alone)
        /\ connector[c].at = "first-commit"
        /\ approvals' = Overtaken(approvals)
        /\ UNCHANGED <<hostsFile, presented, vouched>>
    BY <1>9 DEF FirstCommit, Connector
  <2>2. PICK next \in JobState : /\ next.at \in {"context", "idle"}
                                /\ connector' = [connector EXCEPT ![c] = next]
    BY <1>2, <1>9 DEF FirstCommit
  <2>3. connector'[c] = next /\ \A d \in Connectors : d # c => connector'[d] = connector[d]
    BY <2>2 DEF HostKeyInv, HostKeyTypes
  <2>4. /\ k \in HostKeySet /\ trustedFirst' = {k}
        /\ \A d \in Connectors : connector'[d].at = "first-commit" => connector'[d].key = k
    BY <2>1, <2>2, <2>3 DEF HostKeyInv, FirstTrust
  <2>5. /\ keyRow' \in [HostKeySet -> {"none", "pending", "trusted", "rejected"}]
        /\ \A l \in HostKeySet : keyRow[l] # "none" => keyRow'[l] # "none"
        /\ keyRow'[k] = "trusted"
        /\ Trusted' = Trusted \cup {k}
    BY <2>1, <2>4 DEF HostKeyInv, HostKeyTypes, Trusted
  <2> HIDE DEF k
  <2>o. approvals' \subseteq Approvals /\ \A a \in approvals' : ~ a.alone
    BY <2>1, OvertakenFacts DEF HostKeyInv, HostKeyTypes
  <2>6. HostKeyTypes' BY <2>1, <2>2, <2>5, <2>o DEF HostKeyInv, HostKeyTypes
  <2>7. FirstTrust' BY <2>1, <2>2, <2>3, <2>4, <2>5 DEF HostKeyInv, FirstTrust
  <2>8. TrustHasReason'
    <3>1. connector[c].alone => Trusted \subseteq {k}
      BY <2>1 DEF HostKeyInv, TrustHasReason, k
    <3>2. ~ crossed' => \A l, m \in Trusted' : l = m
      BY <2>1, <2>5, <3>1
    <3>3. trustedFirst \cup vouched \subseteq (trustedFirst \cup vouched)' BY <2>1
    <3>4. \A d \in Connectors : connector'[d].at = "first-commit" /\ connector'[d].alone =>
             Trusted' \subseteq {connector'[d].key}
      BY <2>2, <2>3, <2>4, <2>5 DEF HostKeyInv, TrustHasReason
    <3>5. Trusted' \subseteq (trustedFirst \cup vouched)'
      BY <2>1, <2>5 DEF HostKeyInv, TrustHasReason
    <3>6. \A d \in Connectors : connector'[d].at = "session" => MayMeet(connector[d])
                                                             /\ connector'[d] = connector[d]
      BY <2>2, <2>3 DEF HostKeyInv, TrustHasReason
    <3>7. \A d \in Connectors : connector'[d].at = "session" => MayMeet(connector[d])'
      BY <2>1, <3>3, <3>6 DEF MayMeet
    <3>8. \A d \in Connectors :
             connector'[d].at = "connect" /\ NoKey \notin connector'[d].known =>
                connector'[d].known \subseteq (trustedFirst \cup vouched)'
      BY <2>2, <2>3, <3>3 DEF HostKeyInv, TrustHasReason
    <3> QED BY <2>o, <3>2, <3>4, <3>5, <3>7, <3>8 DEF TrustHasReason
  <2> QED BY <2>6, <2>7, <2>8 DEF HostKeyInv
<1> QED BY <1>3, <1>4, <1>5, <1>6, <1>7, <1>8, <1>9

\* So does what operators and the device do.
LEMMA OperatorStep ==
    ASSUME HostKeyInv,
           \/ \E k \in HostKeySet : ApprovalCheck(k) \/ RejectHostKey(k)
           \/ \E a \in approvals : ApprovalCommit(a)
           \/ DeviceChanges
    PROVE  HostKeyInv'
<1>1. CASE DeviceChanges
  BY <1>1 DEF DeviceChanges, HostKeyInv, HostKeyTypes, FirstTrust, TrustHasReason,
             Trusted, MayMeet
<1>2. ASSUME NEW k \in HostKeySet, ApprovalCheck(k) PROVE HostKeyInv'
  <2>1. /\ approvals' = approvals \cup {[key |-> k, replaces |-> Previous(k), alone |-> TRUE]}
        /\ UNCHANGED <<hostsFile, presented, keyRow, connector, trustedFirst, vouched, crossed>>
    BY <1>2 DEF ApprovalCheck
  <2>2. Trusted' = Trusted /\ Trusted \subseteq HostKeySet BY <2>1 DEF Trusted
  <2>3. Previous(k) \subseteq HostKeySet /\ Trusted \subseteq Previous(k) \cup {k}
    BY <2>2 DEF Previous
  <2>a. [key |-> k, replaces |-> Previous(k), alone |-> TRUE]
           \in Approvals
    BY <2>3 DEF Approvals
  <2>4. HostKeyTypes' BY <2>1, <2>a DEF HostKeyInv, HostKeyTypes
  <2>5. FirstTrust' BY <2>1 DEF HostKeyInv, FirstTrust
  <2>6. TrustHasReason' BY <2>1, <2>2, <2>3 DEF HostKeyInv, TrustHasReason, MayMeet
  <2> QED BY <2>4, <2>5, <2>6 DEF HostKeyInv
<1>3. ASSUME NEW k \in HostKeySet, RejectHostKey(k) PROVE HostKeyInv'
  <2>1. /\ keyRow' = [keyRow EXCEPT ![k] = "rejected"]
        /\ UNCHANGED <<hostsFile, presented, approvals, connector, trustedFirst, vouched, crossed>>
    BY <1>3 DEF RejectHostKey
  <2>2. /\ keyRow' \in [HostKeySet -> {"none", "pending", "trusted", "rejected"}]
        /\ \A l \in HostKeySet : keyRow[l] # "none" => keyRow'[l] # "none"
        /\ Trusted' \subseteq Trusted
    BY <2>1 DEF HostKeyInv, HostKeyTypes, Trusted
  <2>3. HostKeyTypes' BY <2>1, <2>2 DEF HostKeyInv, HostKeyTypes
  <2>4. FirstTrust' BY <2>1, <2>2 DEF HostKeyInv, FirstTrust
  <2>5. TrustHasReason' BY <2>1, <2>2 DEF HostKeyInv, TrustHasReason, MayMeet
  <2> QED BY <2>3, <2>4, <2>5 DEF HostKeyInv
<1>4. ASSUME NEW a \in approvals, ApprovalCommit(a) PROVE HostKeyInv'
  <2>1. /\ keyRow' = [k \in HostKeySet |-> IF k = a.key THEN "trusted"
                            ELSE IF k \in a.replaces THEN "rejected" ELSE keyRow[k]]
        /\ vouched' = vouched \cup {a.key}
        /\ approvals' = Overtaken(approvals \ {a})
        /\ connector' = [c \in Connectors |-> [connector[c] EXCEPT !.alone =
                              @ /\ ~ Connector(c, "first-commit")]]
        /\ crossed' = ~ a.alone
        /\ UNCHANGED <<hostsFile, presented, trustedFirst>>
    BY <1>4 DEF ApprovalCommit
  <2>2. ASSUME NEW c \in Connectors
        PROVE  /\ connector'[c] \in JobState
               /\ connector'[c].at = connector[c].at /\ connector'[c].key = connector[c].key
               /\ connector'[c].known = connector[c].known
               /\ connector'[c].alone => connector'[c].at # "first-commit"
    <3>1. connector[c] \in JobState BY DEF HostKeyInv, HostKeyTypes
    <3>2. connector'[c] = [connector[c] EXCEPT !.alone = @ /\ ~ Connector(c, "first-commit")]
      BY <2>1
    <3>3. CASE connector[c].at = "first-commit"
      <4>1. connector'[c] = [connector[c] EXCEPT !.alone = FALSE]
        BY <3>1, <3>2, <3>3 DEF Connector
      <4> QED BY <3>1, <3>3, <4>1 DEF JobState
    <3>4. CASE connector[c].at # "first-commit"
      <4>1. connector'[c] = connector[c]
        BY <3>1, <3>2, <3>4 DEF Connector, JobState
      <4> QED BY <3>1, <3>4, <4>1
    <3> QED BY <3>3, <3>4
  <2>c. connector' \in [Connectors -> JobState]
    BY <2>1, <2>2
  <2>o. approvals' \subseteq Approvals /\ \A b \in approvals' : ~ b.alone
    BY <2>1, OvertakenFacts DEF HostKeyInv, HostKeyTypes
  <2>3. /\ keyRow' \in [HostKeySet -> {"none", "pending", "trusted", "rejected"}]
        /\ \A l \in HostKeySet : keyRow[l] # "none" => keyRow'[l] # "none"
        /\ Trusted' \subseteq (Trusted \ a.replaces) \cup {a.key}
    BY <2>1 DEF HostKeyInv, HostKeyTypes, Trusted
  <2>4. HostKeyTypes' BY <2>1, <2>3, <2>c, <2>o DEF HostKeyInv, HostKeyTypes
  <2>5. FirstTrust'
    <3>1. \A c \in Connectors : /\ connector'[c].at = connector[c].at
                                /\ connector'[c].key = connector[c].key
      BY <2>2
    <3>2. \A l \in HostKeySet : keyRow[l] # "none" => keyRow'[l] # "none"
      BY <2>3
    <3>3. trustedFirst' = trustedFirst BY <2>1
    <3> QED BY <3>1, <3>2, <3>3 DEF HostKeyInv, FirstTrust
  <2>6. TrustHasReason'
    <3>1. ~ crossed' => Trusted' \subseteq {a.key}
      BY <2>1, <2>3 DEF HostKeyInv, TrustHasReason
    <3>2. Trusted' \subseteq (trustedFirst \cup vouched)'
      BY <2>1, <2>3 DEF HostKeyInv, TrustHasReason
    <3>3. \A c \in Connectors : connector'[c].at = "session" => MayMeet(connector[c])'
      BY <2>1, <2>2 DEF HostKeyInv, TrustHasReason, MayMeet
    <3>4. \A c \in Connectors :
             connector'[c].at = "connect" /\ NoKey \notin connector'[c].known =>
                connector'[c].known \subseteq (trustedFirst \cup vouched)'
      BY <2>1, <2>2 DEF HostKeyInv, TrustHasReason
    <3> QED BY <2>2, <2>o, <3>1, <3>2, <3>3, <3>4 DEF TrustHasReason
  <2> QED BY <2>4, <2>5, <2>6 DEF HostKeyInv
<1> QED BY <1>1, <1>2, <1>3, <1>4

\* Without an operator at most one key of an endpoint is ever trusted; verified
\* sessions meet that one, an approved one or one of the deployment's own file;
\* and a key that became trusted with all others in sight is the only one.
THEOREM FirstTrustOnceHolds == Spec => []FirstTrustOnce
<1>1. Init => HostKeyInv
  <2> SUFFICES ASSUME HostKeysInit PROVE HostKeyInv
    BY DEF Init
  <2>1. HostKeyTypes BY DEF HostKeysInit, HostKeyTypes, Waiting, JobState, JobSteps
  <2>2. FirstTrust BY DEF HostKeysInit, FirstTrust, Waiting
  <2>3. TrustHasReason BY DEF HostKeysInit, TrustHasReason, Waiting, Trusted
  <2> QED BY <2>1, <2>2, <2>3 DEF HostKeyInv
<1>2. HostKeyInv /\ [Next]_vars => HostKeyInv'
  <2> SUFFICES ASSUME HostKeyInv, [HostKeysNext]_hostKeyVars PROVE HostKeyInv'
    BY PartsRest DEF StepOfParts
  <2>1. CASE HostKeysNext BY <2>1, ConnectorStep, OperatorStep DEF HostKeysNext
  <2>2. CASE UNCHANGED hostKeyVars
    BY <2>2 DEF hostKeyVars, HostKeyInv, HostKeyTypes, FirstTrust, TrustHasReason,
               Trusted, MayMeet
  <2> QED BY <2>1, <2>2
<1>3. HostKeyInv => FirstTrustOnce
  <2> SUFFICES ASSUME HostKeyInv PROVE FirstTrustOnce
    OBVIOUS
  <2>1. Cardinality(trustedFirst) <= 1 BY AtMostOne DEF HostKeyInv, FirstTrust
  <2>2. Cardinality(Trusted) <= 1 \/ crossed BY AtMostOne DEF HostKeyInv, TrustHasReason
  <2> QED BY <2>1, <2>2 DEF HostKeyInv, TrustHasReason, FirstTrustOnce, Connector,
                              MayMeet
<1> QED BY <1>1, <1>2, <1>3, PTL DEF Spec

-----------------------------------------------------------------------------
(* Recovery packages *)

PackageFiles == [there : BOOLEAN, written : Nat, intact : BOOLEAN]

PackageTypes ==
    /\ clock \in Nat
    /\ package \in [PackageJobs -> [at : {"none", "queued", "building", "written", "published",
                                          "ready", "failed"}, now : Nat, expires : Nat]]
    /\ temp \in [PackageJobs -> PackageFiles]
    /\ zip \in [PackageJobs -> PackageFiles]

\* The file of a package was written after its job began, from where the
\* lifetime counts; a package that is ready and not expired has its file.
PackageFilesLast ==
    \A j \in PackageJobs :
        /\ package[j].now <= clock
        /\ package[j].at = "written" /\ temp[j].there =>
              temp[j].intact /\ temp[j].written >= package[j].now
        /\ package[j].at = "published" /\ zip[j].there =>
              zip[j].intact /\ zip[j].written >= package[j].now
        /\ package[j].at = "ready" /\ package[j].expires > clock =>
              /\ zip[j].there /\ zip[j].intact
              /\ zip[j].written + Lifetime >= package[j].expires

\* The protection was off while an unprotected download was under way.
DownloadAsked ==
    /\ download \in [at : {"idle", "opened", "plain", "protected", "503"},
                     intact : BOOLEAN, wasOff : BOOLEAN]
    /\ download.at = "opened" /\ ~ zipSetting => download.wasOff
    /\ download.at = "plain" => download.wasOff

PackageInv == PackageTypes /\ PackageFilesLast

\* A sweep takes no file that is still promised: it was written no earlier than
\* its job began.
LEMMA SweepKeeps ==
    ASSUME PackageInv
    PROVE  /\ Swept(temp) \in [PackageJobs -> PackageFiles]
           /\ Swept(zip) \in [PackageJobs -> PackageFiles]
           /\ \A j \in PackageJobs :
                 /\ Swept(temp)[j].there => Swept(temp)[j] = temp[j]
                 /\ Swept(zip)[j].there => Swept(zip)[j] = zip[j]
                 /\ package[j].at = "ready" /\ package[j].expires > clock => Swept(zip)[j] = zip[j]
<1>1. NoFile \in PackageFiles /\ ~ NoFile.there BY DEF NoFile, PackageFiles
<1>2. \A j \in PackageJobs : package[j].at = "ready" /\ package[j].expires > clock => Fresh(zip[j])
  BY PackagesAssumption DEF PackageInv, PackageTypes, PackageFilesLast, Fresh, PackageFiles
<1> QED BY <1>1, <1>2 DEF Swept, PackageInv, PackageTypes

\* Every step of the jobs, of the sweeps and of the clock keeps the files.
LEMMA PackageStep == PackageInv /\ [RecoveryPackagesNext]_packageVars => PackageInv'
<1> SUFFICES ASSUME PackageInv, [RecoveryPackagesNext]_packageVars PROVE PackageInv'
  OBVIOUS
<1> USE PackagesAssumption DEF PackageInv
<1>1. NoFile \in PackageFiles /\ ~ NoFile.there BY DEF NoFile, PackageFiles
<1>2. ASSUME NEW j \in PackageJobs, PreparePackage(j) PROVE PackageInv'
  BY <1>2 DEF PreparePackage, PackageTypes, PackageFilesLast
<1>3. ASSUME NEW j \in PackageJobs, StartPackage(j) PROVE PackageInv'
  <2>1. PackageTypes'
    BY <1>3, SweepKeeps DEF StartPackage, PackageTypes, PackageFiles
  <2>2. \A i \in PackageJobs : i # j =>
           /\ package'[i] = package[i]
           /\ temp'[i] = Swept(temp)[i]
           /\ zip'[i] = Swept(zip)[i]
    BY <1>3, SweepKeeps DEF StartPackage, PackageTypes
  <2>3. package'[j].at = "building" /\ package'[j].now = clock /\ UNCHANGED clock
    BY <1>3 DEF StartPackage, PackageTypes
  <2>4. \A i \in PackageJobs :
           /\ temp'[i].there /\ i # j => temp'[i] = temp[i]
           /\ zip'[i].there /\ i # j => zip'[i] = zip[i]
           /\ package[i].at = "ready" /\ package[i].expires > clock /\ i # j => zip'[i] = zip[i]
    BY <2>2, SweepKeeps
  <2>5. clock \in Nat BY DEF PackageTypes
  <2>6. PackageFilesLast' BY <2>2, <2>3, <2>4, <2>5 DEF PackageFilesLast
  <2> QED BY <2>1, <2>6
<1>4. ASSUME NEW j \in PackageJobs, WritePackage(j) PROVE PackageInv'
  <2>1. PackageTypes'
    <3>1. package' \in [PackageJobs -> [at : {"none", "queued", "building", "written",
                          "published", "ready", "failed"}, now : Nat, expires : Nat]]
      BY <1>4 DEF WritePackage, PackageTypes
    <3>2. [there |-> TRUE, written |-> clock, intact |-> TRUE] \in PackageFiles
      BY DEF PackageFiles, PackageTypes
    <3>3. temp' \in [PackageJobs -> PackageFiles]
      BY <1>1, <1>4, <3>2 DEF WritePackage, PackageTypes
    <3> QED BY <1>4, <3>1, <3>3 DEF WritePackage, PackageTypes
  <2>2. /\ UNCHANGED <<clock, zip>>
        /\ \A i \in PackageJobs : i # j => package'[i] = package[i] /\ temp'[i] = temp[i]
        /\ package'[j].now = package[j].now
        /\ package'[j].at \in {"written", "failed"}
    BY <1>4 DEF WritePackage, PackageTypes
  <2>3. package'[j].at = "written" /\ temp'[j].there => temp'[j].intact /\ temp'[j].written = clock
    BY <1>4 DEF WritePackage, PackageTypes, PackageFiles
  <2> QED BY <2>1, <2>2, <2>3 DEF PackageFilesLast, PackageTypes
<1>5. ASSUME NEW j \in PackageJobs, PublishPackage(j) PROVE PackageInv'
  <2>1. PackageTypes'
    BY <1>1, <1>5 DEF PublishPackage, PackageTypes
  <2>2. /\ UNCHANGED clock
        /\ \A i \in PackageJobs : i # j => /\ package'[i] = package[i] /\ temp'[i] = temp[i]
                                          /\ zip'[i] = zip[i]
        /\ package[j].at = "written" /\ package'[j].now = package[j].now
        /\ package'[j].at \in {"published", "failed"}
        /\ zip'[j] = temp[j]
    BY <1>5 DEF PublishPackage, PackageTypes
  <2> QED BY <2>1, <2>2 DEF PackageFilesLast, PackageTypes
<1>6. ASSUME NEW j \in PackageJobs, FinishPackage(j) PROVE PackageInv'
  <2>1. PackageTypes'
    <3> DEFINE State == [at : {"none", "queued", "building", "written", "published", "ready",
                               "failed"}, now : Nat, expires : Nat]
               ready == [package[j] EXCEPT !.at = "ready", !.expires = package[j].now + Lifetime]
               failed == [package[j] EXCEPT !.at = "failed"]
    <3>1. package[j] \in State BY DEF PackageTypes
    <3>2. ready \in State
      <4>1. \A n \in Nat : [package[j] EXCEPT !.at = "ready", !.expires = n] \in State BY <3>1
      <4>2. package[j].now + Lifetime \in Nat BY <3>1
      <4> QED BY <4>1, <4>2
    <3>3. failed \in State BY <3>1
    <3>4. package' = [package EXCEPT ![j] = IF zip[j].there THEN ready ELSE failed]
      BY <1>6 DEF FinishPackage, ExpiresAt
    <3> HIDE DEF ready, failed
    <3>5. package' \in [PackageJobs -> State] BY <3>2, <3>3, <3>4 DEF PackageTypes
    <3> QED BY <1>6, <3>5 DEF FinishPackage, PackageTypes
  <2>2. /\ UNCHANGED <<clock, temp, zip>>
        /\ \A i \in PackageJobs : i # j => package'[i] = package[i]
        /\ package[j].at = "published" /\ package'[j].now = package[j].now
        /\ \/ package'[j].at = "failed"
           \/ /\ zip[j].there /\ package'[j].at = "ready"
              /\ package'[j].expires = package[j].now + Lifetime
    BY <1>6 DEF FinishPackage, ExpiresAt, PackageTypes
  <2> QED BY <2>1, <2>2 DEF PackageFilesLast, PackageTypes, PackageFiles
<1>7. ASSUME NEW j \in PackageJobs, PackageFails(j) \/ PackageJobDies(j) PROVE PackageInv'
  <2>1. PackageTypes'
    BY <1>1, <1>7 DEF PackageFails, PackageJobDies, PackageTypes
  <2>2. /\ UNCHANGED clock
        /\ \A i \in PackageJobs : i # j => /\ package'[i] = package[i] /\ temp'[i] = temp[i]
                                          /\ zip'[i] = zip[i]
        /\ package'[j].now = package[j].now /\ package'[j].at = "failed"
    BY <1>7 DEF PackageFails, PackageJobDies, PackageTypes
  <2> QED BY <2>1, <2>2 DEF PackageFilesLast
<1>8. CASE SweepPackages
  <2>1. UNCHANGED <<clock, package>> /\ temp' = Swept(temp) /\ zip' = Swept(zip)
    BY <1>8 DEF SweepPackages
  <2>2. PackageTypes' BY <2>1, SweepKeeps DEF PackageTypes
  <2> QED BY <2>1, <2>2, SweepKeeps DEF PackageFilesLast
<1>9. CASE Elapse
  BY <1>9 DEF Elapse, PackageTypes, PackageFilesLast
<1>10. CASE UNCHANGED <<clock, package, temp, zip>>
  BY <1>10 DEF PackageTypes, PackageFilesLast
<1>11. (\E j \in PackageJobs : OpenPackage(j)) \/ OpenArtifact \/ ResolvePassword \/ EndDownload
       \/ ChangeProtection \/ ReplicaChanges \/ UNCHANGED packageVars
       => UNCHANGED <<clock, package, temp, zip>>
  BY DEF OpenPackage, OpenArtifact, ResolvePassword, EndDownload, ChangeProtection,
         ReplicaChanges, packageVars
<1> QED BY <1>2, <1>3, <1>4, <1>5, <1>6, <1>7, <1>8, <1>9, <1>10, <1>11 DEF RecoveryPackagesNext

\* The protection that counts is that of the moment the password is resolved.
LEMMA DownloadStep == DownloadAsked /\ [RecoveryPackagesNext]_packageVars => DownloadAsked'
<1> SUFFICES ASSUME DownloadAsked, [RecoveryPackagesNext]_packageVars PROVE DownloadAsked'
  OBVIOUS
<1> USE DEF DownloadAsked
<1>1. ASSUME NEW j \in PackageJobs, OpenPackage(j) PROVE DownloadAsked'
  BY <1>1 DEF OpenPackage
<1>2. CASE OpenArtifact BY <1>2 DEF OpenArtifact
<1>3. CASE ResolvePassword BY <1>3 DEF ResolvePassword
<1>4. CASE EndDownload BY <1>4 DEF EndDownload, NoDownload
<1>5. CASE ChangeProtection BY <1>5 DEF ChangeProtection
<1>6. CASE UNCHANGED <<download, zipSetting>> BY <1>6
<1>7. (\E j \in PackageJobs :
         \/ PreparePackage(j) \/ StartPackage(j) \/ WritePackage(j) \/ PublishPackage(j)
         \/ FinishPackage(j) \/ PackageFails(j) \/ PackageJobDies(j))
       \/ SweepPackages \/ ReplicaChanges \/ Elapse \/ UNCHANGED packageVars
       => UNCHANGED <<download, zipSetting>>
  BY DEF PreparePackage, StartPackage, WritePackage, PublishPackage, FinishPackage, PackageFails,
         PackageJobDies, SweepPackages, ReplicaChanges, Elapse, DownloadFrame, packageVars
<1> QED BY <1>1, <1>2, <1>3, <1>4, <1>5, <1>6, <1>7 DEF RecoveryPackagesNext

\* No cleanup takes the file of a package that is still on offer, and no
\* download is unprotected that nobody asked for while the protection was off.
THEOREM OfferIsGoodHolds == Spec => []OfferIsGood
<1>1. Init => PackageInv /\ DownloadAsked
  <2> SUFFICES ASSUME RecoveryPackagesInit PROVE PackageInv /\ DownloadAsked
    BY DEF Init
  <2>1. PackageTypes BY DEF RecoveryPackagesInit, PackageTypes, PackageFiles, NoFile
  <2>2. PackageFilesLast BY DEF RecoveryPackagesInit, PackageFilesLast
  <2>3. DownloadAsked BY DEF RecoveryPackagesInit, DownloadAsked, NoDownload
  <2> QED BY <2>1, <2>2, <2>3 DEF PackageInv
<1>2. PackageInv /\ DownloadAsked /\ [Next]_vars => PackageInv' /\ DownloadAsked'
  BY PackageStep, DownloadStep, PartsRest DEF StepOfParts
<1>3. PackageInv /\ DownloadAsked => OfferIsGood
  BY DEF PackageInv, PackageFilesLast, DownloadAsked, OfferIsGood, Offered
<1> QED BY <1>1, <1>2, <1>3, PTL DEF Spec

-----------------------------------------------------------------------------
(* Integrity audits *)

AuditStatuses == {"", "failed", "problems", "healthy"}
AuditRows == [enabled : BOOLEAN, audits : BOOLEAN, next : {"none", "later", "due"},
              status : AuditStatuses]
AuditStates == [at : {"free", "queued", "reading", "read", "saved", "dead"},
                previous : AuditStatuses, result : AuditStatuses]

AuditTypes ==
    /\ auditRow \in AuditRows
    /\ auditForm.open => auditForm.row \in AuditRows
    /\ auditJob \in [AuditJobs -> AuditStates]

\* The one audit that is active found the status that the row still has, until
\* it has put its own there; the last event matches the status of before.
AuditFollows ==
    ~ mixedUp =>
        /\ \A i, j \in Audits : i = j
        /\ \A j \in AuditJobs : auditJob[j].at \in {"reading", "read"} =>
              auditJob[j].previous = auditRow.status
        /\ \A j \in AuditJobs : auditJob[j].at = "saved" =>
              /\ auditJob[j].result = auditRow.status
              /\ auditEvent = "failed" <=> Bad(auditJob[j].previous)
        /\ (\A j \in AuditJobs : auditJob[j].at # "saved") =>
              (auditEvent = "failed" <=> Bad(auditRow.status))

AuditInv == AuditTypes /\ AuditFollows

\* Dispatcher, requests, forms and the outside world keep it: what they change
\* beside is no status, or it is mixed up.
LEMMA AuditOutsideStep ==
    ASSUME AuditInv,
           \/ InitializeAuditSchedules \/ DispatchDueAudit \/ ReconcileLook \/ ReconcileEnqueue
           \/ LoadDestination \/ SaveAuditSchedule \/ SaveDestination
           \/ AuditTimeComes \/ CopiesChange
    PROVE  AuditInv'
<1> USE DEF AuditInv
<1>1. CASE InitializeAuditSchedules \/ AuditTimeComes
  <2>1. PICK next \in {"none", "later", "due"} : auditRow' = [auditRow EXCEPT !.next = next]
    BY <1>1 DEF InitializeAuditSchedules, AuditTimeComes, DestinationNextAudit, NextAudit
  <2>2. auditRow' \in AuditRows /\ auditRow'.status = auditRow.status
    BY <2>1 DEF AuditTypes, AuditRows
  <2>3. UNCHANGED <<auditForm, auditJob, auditEvent, mixedUp>>
    BY <1>1 DEF InitializeAuditSchedules, AuditTimeComes
  <2>4. AuditTypes' BY <2>2, <2>3 DEF AuditTypes
  <2>5. AuditFollows' BY <2>2, <2>3 DEF AuditFollows, Audits, AuditEnqueued
  <2> QED BY <2>4, <2>5
<1>2. CASE DispatchDueAudit \/ ReconcileEnqueue
  <2>1. auditRow' \in AuditRows /\ auditRow'.status = auditRow.status
    BY <1>2 DEF DispatchDueAudit, ReconcileEnqueue, NextAudit, AuditTypes, AuditRows
  <2>2. UNCHANGED <<auditForm, auditEvent>>
    BY <1>2 DEF DispatchDueAudit, ReconcileEnqueue
  <2>3. CASE UNCHANGED <<auditJob, mixedUp>>
    <3>1. AuditTypes' BY <2>1, <2>2, <2>3 DEF AuditTypes
    <3>2. AuditFollows' BY <2>1, <2>2, <2>3 DEF AuditFollows, Audits, AuditEnqueued
    <3> QED BY <3>1, <3>2
  <2>4. ASSUME NEW j \in AuditJobs, auditJob' = [auditJob EXCEPT ![j].at = "queued"],
               auditJob[j].at = "free", ~ mixedUp' => ~ mixedUp /\ Audits = {}
        PROVE  AuditInv'
    <3>1. AuditTypes' BY <2>1, <2>2, <2>4 DEF AuditTypes, AuditStates
    <3>2. /\ auditJob'[j].at = "queued"
          /\ \A i \in AuditJobs : i # j => auditJob'[i] = auditJob[i]
      BY <2>4 DEF AuditTypes, AuditStates
    <3>3. ~ mixedUp' => \A i \in AuditJobs : i # j => auditJob'[i].at = "free"
      BY <2>4, <3>2 DEF Audits, AuditEnqueued
    <3>4. ~ mixedUp' => ~ mixedUp /\ \A i \in AuditJobs : auditJob[i].at # "saved"
      BY <2>4, <3>2 DEF Audits, AuditEnqueued
    <3>5. AuditFollows' BY <2>1, <2>2, <3>2, <3>3, <3>4 DEF AuditFollows, Audits, AuditEnqueued
    <3> QED BY <3>1, <3>5
  <2>5. CASE DispatchDueAudit
    <3>1. CASE AuditActive BY <2>3, <2>5, <3>1 DEF DispatchDueAudit
    <3>2. CASE ~ AuditActive
      <4>1. UNCHANGED mixedUp /\ Audits = {} BY <2>5, <3>2 DEF DispatchDueAudit, AuditActive
      <4>2. PICK j \in AuditJobs : Enqueue(j) BY <2>5, <3>2 DEF DispatchDueAudit
      <4> QED BY <2>4, <4>1, <4>2 DEF Enqueue, AuditEnqueued
    <3> QED BY <3>1, <3>2
  <2>6. CASE ReconcileEnqueue
    <3>1. ~ mixedUp' => ~ mixedUp /\ Audits = {} BY <2>6 DEF ReconcileEnqueue, AuditActive
    <3>2. PICK j \in AuditJobs : Enqueue(j) BY <2>6 DEF ReconcileEnqueue
    <3> QED BY <2>4, <3>1, <3>2 DEF Enqueue, AuditEnqueued
  <2> QED BY <1>2, <2>5, <2>6
<1>3. CASE ReconcileLook \/ LoadDestination \/ CopiesChange
  <2>1. UNCHANGED <<auditRow, auditJob, auditEvent, mixedUp>>
        /\ (auditForm'.open => auditForm'.row \in AuditRows)
    <3>1. CASE LoadDestination
      <4>1. auditForm'.row = auditRow BY <3>1 DEF LoadDestination
      <4> QED BY <3>1, <4>1 DEF LoadDestination, AuditTypes
    <3>2. CASE ReconcileLook \/ CopiesChange
      BY <3>2 DEF ReconcileLook, CopiesChange, AuditTypes
    <3> QED BY <1>3, <3>1, <3>2
  <2>2. AuditTypes' BY <2>1 DEF AuditTypes
  <2>3. AuditFollows' BY <2>1 DEF AuditFollows, Audits, AuditEnqueued
  <2> QED BY <2>2, <2>3
<1>4. CASE SaveAuditSchedule \/ SaveDestination
  <2>1. PICK row \in AuditRows : SaveRow(row)
    <3>1. auditForm.row \in AuditRows BY <1>4 DEF SaveAuditSchedule, SaveDestination, AuditTypes
    <3>2. \A on \in BOOLEAN, next \in {"none", "later", "due"} :
             /\ [[auditForm.row EXCEPT !.audits = on] EXCEPT !.next = next] \in AuditRows
             /\ [[auditForm.row EXCEPT !.enabled = on] EXCEPT !.next = next] \in AuditRows
      BY <3>1 DEF AuditRows
    <3>3. \A on \in BOOLEAN :
             [auditForm.row EXCEPT !.enabled = on].next \in {"none", "later", "due"}
      BY <3>1 DEF AuditRows
    <3>4. \A row : DestinationNextAudit(row) \subseteq {"none", "later", "due"}
      BY DEF DestinationNextAudit, NextAudit
    <3>5. CASE SaveAuditSchedule BY <3>2, <3>4, <3>5 DEF SaveAuditSchedule
    <3>6. CASE SaveDestination BY <3>2, <3>3, <3>4, <3>6 DEF SaveDestination
    <3> QED BY <1>4, <3>5, <3>6
  <2>2. /\ auditRow' \in AuditRows /\ ~ auditForm'.open
        /\ UNCHANGED <<auditJob, auditEvent>>
        /\ ~ mixedUp' => ~ mixedUp /\ auditRow'.status = auditRow.status
    BY <2>1 DEF SaveRow, NoForm
  <2>3. AuditTypes' BY <2>2 DEF AuditTypes
  <2>4. AuditFollows' BY <2>2 DEF AuditFollows, Audits, AuditEnqueued
  <2> QED BY <2>3, <2>4
<1> QED BY <1>1, <1>2, <1>3, <1>4

\* So does the job: its result reaches the row first, then the event.
LEMMA AuditJobStep ==
    ASSUME AuditInv, NEW j \in AuditJobs,
           \/ StartAudit(j) \/ ReconcileDestination(j) \/ SaveAudit(j) \/ QueueAuditEvent(j)
           \/ DropAuditEvent(j) \/ AuditErrors(j) \/ AuditDies(j)
    PROVE  AuditInv'
<1> USE DEF AuditInv
<1>1. auditJob[j] \in AuditStates /\ auditRow \in AuditRows BY DEF AuditTypes
<1>2. ASSUME NEW state \in AuditStates, auditJob' = [auditJob EXCEPT ![j] = state]
      PROVE  /\ auditJob' \in [AuditJobs -> AuditStates] /\ auditJob'[j] = state
             /\ \A i \in AuditJobs : i # j => auditJob'[i] = auditJob[i]
  BY <1>2 DEF AuditTypes
<1>3. ~ mixedUp /\ auditJob[j].at # "free" =>
         \A i \in AuditJobs : i # j => auditJob[i].at = "free"
  BY DEF AuditFollows, Audits, AuditEnqueued
<1>4. CASE StartAudit(j)
  <2> DEFINE state == [auditJob[j] EXCEPT !.at = "reading", !.previous = auditRow.status]
  <2>1. state \in AuditStates /\ state.at = "reading" /\ state.previous = auditRow.status
    BY <1>1 DEF AuditStates, AuditRows
  <2>2. auditJob' = [auditJob EXCEPT ![j] = state] /\ auditJob[j].at = "queued"
        /\ UNCHANGED <<auditRow, auditForm, auditEvent, mixedUp>>
    BY <1>4 DEF StartAudit, AuditAt
  <2> HIDE DEF state
  <2>3. AuditTypes' BY <1>2, <2>1, <2>2 DEF AuditTypes
  <2>4. AuditFollows' BY <1>2, <1>3, <2>1, <2>2 DEF AuditFollows, Audits, AuditEnqueued
  <2> QED BY <2>3, <2>4
<1>5. CASE ReconcileDestination(j)
  <2>1. PICK result \in AuditStatuses :
           auditJob' = [auditJob EXCEPT ![j] =
                           [auditJob[j] EXCEPT !.at = "read", !.result = result]]
    BY <1>5 DEF ReconcileDestination, AuditStatuses
  <2> DEFINE state == [auditJob[j] EXCEPT !.at = "read", !.result = result]
  <2>2. state \in AuditStates /\ state.at = "read" /\ state.previous = auditJob[j].previous
    BY <1>1 DEF AuditStates
  <2>3. auditJob[j].at = "reading" /\ UNCHANGED <<auditRow, auditForm, auditEvent, mixedUp>>
    BY <1>5 DEF ReconcileDestination, AuditAt
  <2>4. auditJob' = [auditJob EXCEPT ![j] = state] BY <2>1
  <2> HIDE DEF state
  <2>5. AuditTypes' BY <1>2, <2>2, <2>3, <2>4 DEF AuditTypes
  <2>6. AuditFollows' BY <1>2, <1>3, <2>2, <2>3, <2>4 DEF AuditFollows, Audits, AuditEnqueued
  <2> QED BY <2>5, <2>6
<1>6. CASE SaveAudit(j)
  <2> DEFINE state == [auditJob[j] EXCEPT !.at = "saved"]
  <2>1. /\ state \in AuditStates /\ state.at = "saved" /\ state.previous = auditJob[j].previous
        /\ state.result = auditJob[j].result
    BY <1>1 DEF AuditStates
  <2>2. auditJob' = [auditJob EXCEPT ![j] = state] /\ auditJob[j].at = "read"
        /\ UNCHANGED <<auditForm, auditEvent, mixedUp>>
    BY <1>6 DEF SaveAudit, AuditAt
  <2>3. auditRow' \in AuditRows /\ auditRow'.status = auditJob[j].result
    BY <1>1, <1>6 DEF SaveAudit, AuditRows, AuditStates
  <2> HIDE DEF state
  <2>4. AuditTypes' BY <1>2, <2>1, <2>2, <2>3 DEF AuditTypes
  <2>5. AuditFollows' BY <1>2, <1>3, <2>1, <2>2, <2>3 DEF AuditFollows, Audits, AuditEnqueued
  <2> QED BY <2>4, <2>5
<1>7. NoAudit \in AuditStates /\ NoAudit.at = "free" BY DEF NoAudit, AuditStates, AuditStatuses
<1>8. CASE QueueAuditEvent(j)
  <2>1. auditJob' = [auditJob EXCEPT ![j] = NoAudit] /\ auditJob[j].at = "saved"
        /\ UNCHANGED <<auditRow, auditForm>>
    BY <1>8 DEF QueueAuditEvent, AuditAt
  <2>2. AuditTypes' BY <1>2, <1>7, <2>1 DEF AuditTypes
  <2>3. CASE ChangeDue(j)
    <3>1. /\ auditEvent' = IF Bad(auditJob[j].result) THEN "failed" ELSE "recovered"
          /\ mixedUp' = (mixedUp /\ (Audits # {j} \/ auditRow.status # auditJob[j].result))
      BY <1>8, <2>3 DEF QueueAuditEvent
    <3>2. ~ mixedUp' => /\ auditRow.status = auditJob[j].result
                       /\ \A i \in AuditJobs : i # j => auditJob[i].at = "free"
      BY <1>3, <2>1, <3>1 DEF AuditFollows, Audits, AuditEnqueued
    <3>3. ~ mixedUp' => (auditEvent' = "failed" <=> Bad(auditRow.status))
      BY <3>1, <3>2
    <3> QED BY <1>2, <1>7, <2>1, <2>2, <3>2, <3>3 DEF AuditFollows, Audits, AuditEnqueued
  <2>4. CASE ~ ChangeDue(j)
    <3>1. UNCHANGED <<auditEvent, mixedUp>> BY <1>8, <2>4 DEF QueueAuditEvent
    <3>2. ~ mixedUp => (auditEvent = "failed" <=> Bad(auditRow.status))
      BY <2>1, <2>4 DEF AuditFollows, ChangeDue, Bad
    <3> QED BY <1>2, <1>3, <1>7, <2>1, <2>2, <3>1, <3>2 DEF AuditFollows, Audits, AuditEnqueued
  <2> QED BY <2>3, <2>4
<1>d. CASE DropAuditEvent(j)
  <2>1. auditJob' = [auditJob EXCEPT ![j] = NoAudit] /\ mixedUp' = TRUE
        /\ UNCHANGED <<auditRow, auditForm>>
    BY <1>d DEF DropAuditEvent
  <2>2. AuditTypes' BY <1>2, <1>7, <2>1 DEF AuditTypes
  <2> QED BY <2>1, <2>2 DEF AuditFollows
<1>9. CASE AuditErrors(j)
  <2>1. auditJob' = [auditJob EXCEPT ![j] = NoAudit]
        /\ auditJob[j].at \in {"reading", "read", "saved"}
        /\ UNCHANGED <<auditRow, auditForm, auditEvent>>
    BY <1>9 DEF AuditErrors
  <2>2. ~ mixedUp' => ~ mixedUp /\ (auditJob[j].at = "saved" => ~ ChangeDue(j))
    BY <1>9 DEF AuditErrors, Unsaid, AuditAt
  <2>3. ~ mixedUp' => (auditEvent = "failed" <=> Bad(auditRow.status))
    BY <1>3, <2>1, <2>2 DEF AuditFollows, ChangeDue, Bad
  <2>4. AuditTypes' BY <1>2, <1>7, <2>1 DEF AuditTypes
  <2>5. AuditFollows' BY <1>2, <1>3, <1>7, <2>1, <2>2, <2>3 DEF AuditFollows, Audits, AuditEnqueued
  <2> QED BY <2>4, <2>5
<1>10. CASE AuditDies(j)
  <2> DEFINE state == [auditJob[j] EXCEPT !.at = "dead"]
  <2>1. state \in AuditStates /\ state.at = "dead" BY <1>1 DEF AuditStates
  <2>2. auditJob' = [auditJob EXCEPT ![j] = state] /\ auditJob[j].at # "free"
        /\ UNCHANGED <<auditRow, auditForm, auditEvent>>
    BY <1>10 DEF AuditDies
  <2>3. auditJob[j].at \in {"reading", "read", "saved"} BY <1>10 DEF AuditDies
  <2>4. ~ mixedUp' => ~ mixedUp /\ (auditJob[j].at = "saved" => ~ ChangeDue(j))
    BY <1>10 DEF AuditDies, Unsaid, AuditAt
  <2> HIDE DEF state
  <2>5. ~ mixedUp' => (auditEvent = "failed" <=> Bad(auditRow.status))
    BY <1>3, <2>3, <2>4 DEF AuditFollows, ChangeDue, Bad
  <2>6. AuditTypes' BY <1>2, <2>1, <2>2 DEF AuditTypes
  <2>7. AuditFollows'
    BY <1>2, <1>3, <2>1, <2>2, <2>4, <2>5 DEF AuditFollows, Audits, AuditEnqueued
  <2> QED BY <2>6, <2>7
<1> QED BY <1>4, <1>5, <1>6, <1>8, <1>d, <1>9, <1>10

\* At most one audit of a storage is active and the last event tells what the
\* row shows, unless one of the four excuses of mixedUp occurred and no
\* audit of its own has announced a change since.
THEOREM AuditToldHolds == Spec => []AuditTold
<1>1. Init => AuditInv
  <2> SUFFICES ASSUME IntegrityAuditInit PROVE AuditInv
    BY DEF Init
  <2>1. AuditTypes
    BY DEF IntegrityAuditInit, AuditTypes, AuditRows, AuditStates, AuditStatuses, NoForm, NoAudit
  <2>2. AuditFollows
    BY DEF IntegrityAuditInit, AuditFollows, Audits, AuditEnqueued, NoAudit, Bad
  <2> QED BY <2>1, <2>2 DEF AuditInv
<1>2. AuditInv /\ [Next]_vars => AuditInv'
  <2> SUFFICES ASSUME AuditInv, [IntegrityAuditNext]_auditVars PROVE AuditInv'
    BY PartsRest DEF StepOfParts
  <2>1. CASE IntegrityAuditNext BY <2>1, AuditOutsideStep, AuditJobStep DEF IntegrityAuditNext
  <2>2. CASE UNCHANGED auditVars
    BY <2>2 DEF auditVars, AuditInv, AuditTypes, AuditFollows, Audits, AuditEnqueued
  <2> QED BY <2>1, <2>2
<1>3. AuditInv => AuditTold
  <2> SUFFICES ASSUME AuditInv, ~ mixedUp PROVE AuditTold
    BY DEF AuditTold
  <2>1. Cardinality(Audits) <= 1 BY AtMostOne DEF AuditInv, AuditFollows
  <2> QED BY <2>1 DEF AuditInv, AuditFollows, AuditTold, AuditAt
<1> QED BY <1>1, <1>2, <1>3, PTL DEF Spec

-----------------------------------------------------------------------------
(* Setup and deletion of targets *)

ReplicaRows == [exists : BOOLEAN, path : BOOLEAN, available : BOOLEAN, active : BOOLEAN]

LifeTypes ==
    /\ fileAt \in [HistoryFiles -> {"none", "stored", "trash", "lost"}]
    /\ remoteRow \in [Storages -> ReplicaRows]
    /\ remoteCopy \in [Storages -> {"none", "part", "whole"}]
    /\ del \in [at : {"idle", "stage", "purge", "restore"}, staged : SUBSET HistoryFiles,
                copies : SUBSET Storages, held : SUBSET Storages]

\* The files of the history: with the target none yet, or all in place; without
\* it none left; but for those in the hands of a deletion and those astray.
FilesKept ==
    /\ \A f \in del.staged : fileAt[f] = "trash"
    /\ target =>
          \/ \A f \in HistoryFiles : fileAt[f] = "none"
          \/ \A f \in HistoryFiles : fileAt[f] = "stored" \/ f \in del.staged \/ f \in astray
    /\ ~ target =>
          \A f \in HistoryFiles : fileAt[f] = "none" \/ f \in del.staged \/ f \in astray
    /\ ~ target /\ del.at = "restore" => del.staged \subseteq astray

\* The phases of a deletion, and the profile it must leave to others.
DeletionPhases ==
    /\ busy => target /\ del.at = "idle"
    /\ del.at = "idle" => del = NoDeletion
    /\ del.at = "stage" => target
    /\ del.at = "purge" => ~ target
    /\ shared => quick

\* A copy on a server belongs to a recorded path, a path to a row.  While a
\* deletion works, the rows it saw are held, none of them is being uploaded, and
\* every copy they have is one it will remove; a row it did not see came late.
CopiesKnown ==
    /\ \A d \in Storages :
          /\ remoteRow[d].path => remoteRow[d].exists
          /\ remoteRow[d].exists => target
          /\ target /\ remoteRow[d].active => remoteRow[d].path
          /\ target /\ remoteCopy[d] # "none" => remoteRow[d].path
          /\ ~ target /\ ~ latecomer => ~ remoteRow[d].active /\ remoteCopy[d] = "none"
    /\ del.at = "stage" => \A d \in Storages :
          /\ remoteRow[d].exists /\ ~ latecomer => d \in del.held
          /\ d \in del.held => ~ remoteRow[d].active
          /\ d \in del.held /\ remoteCopy[d] # "none" => d \in del.copies

LifeInv == LifeTypes /\ DeletionPhases /\ FilesKept /\ CopiesKnown

\* Setup, sharing and backups keep it.
LEMMA SetupStep ==
    ASSUME LifeInv, QuickSetup \/ ShareProfile \/ BackupStarts \/ BackupStores
    PROVE  LifeInv'
<1> USE DEF LifeInv
<1>1. NoDeletion.at = "idle" /\ NoDeletion.staged = {} BY DEF NoDeletion
<1>2. CASE QuickSetup
  <2>1. LifeTypes' BY <1>2 DEF QuickSetup, LifeTypes
  <2>2. DeletionPhases' BY <1>1, <1>2 DEF QuickSetup, LifeTypes, DeletionPhases
  <2>3. CopiesKnown' BY <1>1, <1>2 DEF QuickSetup, CopiesKnown
  <2>4. FilesKept' BY <1>1, <1>2 DEF QuickSetup, FilesKept
  <2> QED BY <2>1, <2>2, <2>3, <2>4
<1>3. CASE ShareProfile \/ BackupStarts \/ BackupStores
  <2>1. UNCHANGED <<target, remoteRow, remoteCopy, latecomer, astray, del, quick>>
    BY <1>3 DEF ShareProfile, BackupStarts, BackupStores, LocalOnly
  <2>2. \/ UNCHANGED fileAt
        \/ /\ busy
           /\ fileAt' = [f \in HistoryFiles |->
                            IF fileAt[f] = "none" THEN "stored" ELSE fileAt[f]]
    BY <1>3 DEF ShareProfile, BackupStarts, BackupStores
  <2>3. LifeTypes' BY <2>1, <2>2 DEF LifeTypes
  <2>4. CopiesKnown' BY <2>1 DEF CopiesKnown
  <2>5. busy' => target' /\ del'.at = "idle"
    BY <1>1, <1>3, <2>1 DEF ShareProfile, BackupStarts, BackupStores, DeletionPhases
  <2>6. shared' => quick'
    BY <1>3, <2>1 DEF ShareProfile, BackupStarts, BackupStores, DeletionPhases
  <2>7. DeletionPhases' BY <2>1, <2>5, <2>6 DEF DeletionPhases
  <2>8. FilesKept'
    <3>1. CASE UNCHANGED fileAt BY <2>1, <3>1 DEF FilesKept
    <3>2. CASE /\ busy
               /\ fileAt' = [f \in HistoryFiles |->
                               IF fileAt[f] = "none" THEN "stored" ELSE fileAt[f]]
      <4>1. target /\ del.staged = {} BY <1>1, <3>2 DEF DeletionPhases
      <4>2. \A f \in HistoryFiles : fileAt[f] \in {"none", "stored"} => fileAt'[f] = "stored"
        BY <3>2
      <4>3. \A f \in HistoryFiles : fileAt'[f] = "stored" \/ f \in astray
        BY <4>1, <4>2 DEF FilesKept
      <4> QED BY <2>1, <4>1, <4>3 DEF FilesKept
    <3> QED BY <2>2, <3>1, <3>2
  <2> QED BY <2>3, <2>4, <2>7, <2>8
<1> QED BY <1>2, <1>3

\* Replicas and uploads: a row that a deletion did not see makes it a latecomer,
\* and an upload starts only where the deletion does not hold the storage.
LEMMA UploadStep ==
    ASSUME LifeInv, NEW d \in Storages,
           ReplicaCreated(d) \/ UploadStarts(d) \/ UploadEnds(d) \/ ToggleStorage(d)
    PROVE  LifeInv'
<1> USE DEF LifeInv
<1>1. UNCHANGED <<target, busy, fileAt, quick, shared, del, astray>>
  BY DEF ReplicaCreated, UploadStarts, UploadEnds, ToggleStorage
<1>2. DeletionPhases' /\ FilesKept' BY <1>1 DEF DeletionPhases, FilesKept
<1>3. remoteRow[d] \in ReplicaRows BY DEF LifeTypes
<1>4. NoDeletion.at = "idle" BY DEF NoDeletion
<1>5. CASE ToggleStorage(d)
  BY <1>1, <1>2, <1>5 DEF ToggleStorage, LifeTypes, CopiesKnown
<1>6. CASE ReplicaCreated(d)
  <2> DEFINE row == [remoteRow[d] EXCEPT !.exists = TRUE]
  <2>1. /\ remoteRow' = [remoteRow EXCEPT ![d] = row] /\ UNCHANGED remoteCopy /\ target
        /\ latecomer' = (latecomer \/ del # NoDeletion)
    BY <1>6 DEF ReplicaCreated
  <2>2. row \in ReplicaRows /\ row.exists /\ row.path = remoteRow[d].path
        /\ row.active = remoteRow[d].active
    BY <1>3 DEF ReplicaRows
  <2> HIDE DEF row
  <2>3. remoteRow'[d] = row /\ \A e \in Storages : e # d => remoteRow'[e] = remoteRow[e]
    BY <2>1 DEF LifeTypes
  <2>4. LifeTypes' BY <1>1, <2>1, <2>2 DEF LifeTypes
  <2>5. CopiesKnown' BY <1>1, <1>4, <2>1, <2>2, <2>3 DEF CopiesKnown
  <2> QED BY <1>2, <2>4, <2>5
<1>7. CASE UploadStarts(d)
  <2> DEFINE row == [exists |-> TRUE, path |-> TRUE, available |-> FALSE, active |-> TRUE]
  <2>1. /\ remoteRow' = [remoteRow EXCEPT ![d] = row] /\ UNCHANGED <<remoteCopy, latecomer>>
        /\ remoteRow[d].exists /\ d \notin del.held
    BY <1>7 DEF UploadStarts
  <2>2. row \in ReplicaRows /\ row.exists /\ row.path BY DEF ReplicaRows
  <2> HIDE DEF row
  <2>3. remoteRow'[d] = row /\ \A e \in Storages : e # d => remoteRow'[e] = remoteRow[e]
    BY <2>1 DEF LifeTypes
  <2>4. LifeTypes' BY <1>1, <2>1, <2>2 DEF LifeTypes
  <2>5. CopiesKnown' BY <1>1, <2>1, <2>2, <2>3 DEF CopiesKnown
  <2> QED BY <1>2, <2>4, <2>5
<1>8. CASE UploadEnds(d)
  <2>1. PICK copy \in {"part", "whole"} :
           /\ remoteCopy' = [remoteCopy EXCEPT ![d] = IF @ = "whole" THEN @ ELSE copy]
           /\ remoteRow' = [remoteRow EXCEPT ![d].active = FALSE,
                                ![d].available = @ \/ (copy = "whole" /\ remoteRow[d].exists)]
    BY <1>8 DEF UploadEnds
  <2> DEFINE row == [remoteRow[d] EXCEPT !.active = FALSE,
                        !.available = @ \/ (copy = "whole" /\ remoteRow[d].exists)]
  <2>2. remoteRow' = [remoteRow EXCEPT ![d] = row] BY <2>1, <1>3 DEF ReplicaRows, LifeTypes
  <2>3. row \in ReplicaRows /\ row.exists = remoteRow[d].exists /\ row.path = remoteRow[d].path
        /\ ~ row.active
    BY <1>3 DEF ReplicaRows
  <2> HIDE DEF row
  <2>4. remoteRow'[d] = row /\ \A e \in Storages : e # d => remoteRow'[e] = remoteRow[e]
    BY <2>2 DEF LifeTypes
  <2>5. /\ remoteCopy' \in [Storages -> {"none", "part", "whole"}]
        /\ \A e \in Storages : e # d => remoteCopy'[e] = remoteCopy[e]
    BY <2>1 DEF LifeTypes
  <2>6. remoteRow[d].active /\ UNCHANGED latecomer BY <1>8 DEF UploadEnds
  <2>7. LifeTypes' BY <1>1, <2>2, <2>3, <2>5 DEF LifeTypes
  <2>8. CopiesKnown' BY <1>1, <2>3, <2>4, <2>5, <2>6 DEF CopiesKnown
  <2> QED BY <1>2, <2>7, <2>8
<1> QED BY <1>5, <1>6, <1>7, <1>8

\* The transaction of a deletion: when it commits, every copy it saw is gone.
LEMMA DeletionStep ==
    ASSUME LifeInv,
           DeletionBegins \/ DeletionCommits \/ DeletionUnconfirmed \/ DeletionFails
    PROVE  LifeInv'
<1> USE DEF LifeInv
<1>1. NoDeletion.at = "idle" BY DEF NoDeletion
<1>2. CASE DeletionBegins
  <2> DEFINE held == {d \in Storages : remoteRow[d].exists}
             new == [at |-> "stage", staged |-> {}, copies |-> Recorded(held), held |-> held]
  <2>1. /\ CopiesRemovable(held) /\ del' = new /\ target /\ ~ busy /\ del = NoDeletion
        /\ UNCHANGED <<target, busy, fileAt, quick, shared, astray, remoteRow, remoteCopy,
                       latecomer>>
    BY <1>2 DEF DeletionBegins, LocalOnly
  <2>2. Recorded(held) = {d \in held : remoteRow[d].path} BY DEF Recorded
  <2>3. LifeTypes' BY <2>1, <2>2 DEF LifeTypes
  <2>4. FilesKept' BY <2>1 DEF FilesKept, NoDeletion
  <2>5. DeletionPhases' BY <2>1 DEF DeletionPhases
  <2>6. \A d \in held : ~ remoteRow[d].active BY <2>1 DEF CopiesRemovable
  <2>7. CopiesKnown' BY <2>1, <2>2, <2>6 DEF CopiesKnown
  <2> QED BY <2>3, <2>4, <2>5, <2>7
<1>3. CASE DeletionCommits \/ DeletionUnconfirmed
  <2> DEFINE row(d) == [NoReplica EXCEPT !.active = remoteRow[d].active]
  <2>1. /\ remoteRow' = [d \in Storages |-> row(d)] /\ target' = FALSE
        /\ del.at = "stage" /\ del.copies = {} /\ quick' = (quick /\ ~ ProfileUnshared)
        /\ \A f \in HistoryFiles : fileAt[f] # "stored"
        /\ UNCHANGED <<busy, fileAt, remoteCopy, shared, latecomer>>
    BY <1>3 DEF DeletionCommits, DeletionUnconfirmed, RowsDeleted
  <2>2. \A d \in Storages : /\ row(d) \in ReplicaRows /\ ~ row(d).exists /\ ~ row(d).path
                            /\ row(d).active = remoteRow[d].active
    BY DEF NoReplica, ReplicaRows, LifeTypes
  <2> HIDE DEF row
  <2>p. /\ del'.at \in {"purge", "restore"} /\ del'.staged = del.staged
        /\ del' \in [at : {"idle", "stage", "purge", "restore"}, staged : SUBSET HistoryFiles,
                     copies : SUBSET Storages, held : SUBSET Storages]
        /\ astray \subseteq astray'
        /\ del'.at = "restore" => del.staged \subseteq astray'
    <3>1. CASE DeletionCommits BY <3>1 DEF DeletionCommits, LifeTypes
    <3>2. CASE DeletionUnconfirmed BY <3>2 DEF DeletionUnconfirmed, Rollback, LifeTypes
    <3> QED BY <1>3, <3>1, <3>2
  <2>3. LifeTypes' BY <2>1, <2>2, <2>p DEF LifeTypes
  <2>4. target /\ ~ target' BY <2>1 DEF DeletionPhases
  <2>5. shared' => quick' BY <2>1 DEF ProfileUnshared, DeletionPhases
  <2>6. ~ busy BY <2>1 DEF DeletionPhases
  <2>7. DeletionPhases' BY <2>1, <2>5, <2>6, <2>p DEF DeletionPhases
  <2>f. FilesKept'
    <3>1. \A f \in HistoryFiles : fileAt'[f] = "none" \/ f \in del'.staged \/ f \in astray'
      BY <2>1, <2>4, <2>p DEF FilesKept
    <3> QED BY <2>1, <2>p, <3>1 DEF FilesKept
  <2>8. ~ latecomer => \A d \in Storages : ~ remoteRow[d].active /\ remoteCopy[d] = "none"
    BY <2>1 DEF DeletionPhases, CopiesKnown
  <2>9. CopiesKnown' BY <2>1, <2>2, <2>p, <2>8 DEF CopiesKnown
  <2> QED BY <2>3, <2>7, <2>9, <2>f
<1>4. CASE DeletionFails
  <2>1. /\ del.at = "stage"
        /\ del' = [del EXCEPT !.at = "restore", !.held = {}, !.copies = {}]
        /\ UNCHANGED <<target, busy, fileAt, remoteRow, quick, shared, astray, latecomer>>
    BY <1>4 DEF DeletionFails, Rollback
  <2>2. /\ remoteCopy' \in [Storages -> {"none", "part", "whole"}]
        /\ \A d \in Storages : remoteCopy'[d] # "none" => remoteCopy[d] # "none"
    BY <1>4 DEF DeletionFails, LifeTypes
  <2>3. del'.at = "restore" /\ del'.staged = del.staged BY <2>1 DEF LifeTypes
  <2>4. LifeTypes' BY <2>1, <2>2 DEF LifeTypes
  <2>5. DeletionPhases' BY <2>1, <2>3 DEF DeletionPhases
  <2>6. CopiesKnown' BY <2>1, <2>2, <2>3 DEF DeletionPhases, CopiesKnown
  <2>7. FilesKept' BY <2>1, <2>3 DEF DeletionPhases, FilesKept
  <2> QED BY <2>4, <2>5, <2>6, <2>7
<1> QED BY <1>2, <1>3, <1>4

\* Its effects outside the database, one file or one copy at a time.
LEMMA DeletionEffectStep ==
    ASSUME LifeInv,
           \/ DeletionReturns \/ DeletionDies
           \/ \E d \in Storages : DeleteCopy(d)
           \/ \E f \in HistoryFiles : \/ StageHistoryFile(f) \/ StageUnanswered(f)
                                      \/ RestoreHistoryFile(f) \/ PurgeHistoryFile(f)
    PROVE  LifeInv'
<1> USE DEF LifeInv
<1>1. NoDeletion.at = "idle" /\ NoDeletion.staged = {} /\ NoDeletion.copies = {}
      /\ NoDeletion.held = {}
  BY DEF NoDeletion
<1>2. CASE DeletionReturns \/ DeletionDies
  <2>1. /\ del' = NoDeletion
        /\ UNCHANGED <<target, busy, fileAt, quick, shared, remoteRow, remoteCopy, latecomer>>
    BY <1>2 DEF DeletionReturns, DeletionDies, LocalOnly
  <2>2. astray \subseteq astray' /\ del.staged \subseteq astray'
    BY <1>2 DEF DeletionReturns, DeletionDies
  <2>3. LifeTypes' BY <1>1, <2>1 DEF LifeTypes, NoDeletion
  <2>4. DeletionPhases' BY <1>1, <2>1 DEF DeletionPhases
  <2>5. CopiesKnown' BY <1>1, <2>1 DEF CopiesKnown
  <2>6. FilesKept' BY <1>1, <2>1, <2>2 DEF FilesKept
  <2> QED BY <2>3, <2>4, <2>5, <2>6
<1>3. ASSUME NEW d \in Storages, DeleteCopy(d) PROVE LifeInv'
  <2>1. /\ del.at = "stage" /\ del' = [del EXCEPT !.copies = @ \ {d}]
        /\ remoteCopy' = [remoteCopy EXCEPT ![d] = "none"]
        /\ UNCHANGED <<target, busy, fileAt, remoteRow, quick, shared, astray, latecomer>>
    BY <1>3 DEF DeleteCopy
  <2>2. /\ del'.at = "stage" /\ del'.staged = del.staged /\ del'.held = del.held
        /\ del'.copies = del.copies \ {d}
    BY <2>1 DEF LifeTypes
  <2>3. LifeTypes' BY <2>1 DEF LifeTypes
  <2>4. remoteCopy'[d] = "none" /\ \A e \in Storages : e # d => remoteCopy'[e] = remoteCopy[e]
    BY <2>1 DEF LifeTypes
  <2>5. DeletionPhases' BY <2>1, <2>2 DEF DeletionPhases
  <2>6. CopiesKnown' BY <2>1, <2>2, <2>4 DEF CopiesKnown
  <2>7. FilesKept' BY <2>1, <2>2 DEF FilesKept
  <2> QED BY <2>3, <2>5, <2>6, <2>7
<1>4. ASSUME NEW f \in HistoryFiles,
             StageHistoryFile(f) \/ RestoreHistoryFile(f) \/ PurgeHistoryFile(f)
      PROVE  LifeInv'
  <2>1. /\ UNCHANGED <<target, busy, quick, shared, remoteRow, remoteCopy, latecomer>>
        /\ del.at \in {"stage", "restore", "purge"}
        /\ del' = [del EXCEPT !.staged = @ \cup {f}] \/ del' = [del EXCEPT !.staged = @ \ {f}]
    BY <1>4 DEF StageHistoryFile, RestoreHistoryFile, PurgeHistoryFile, LocalOnly
  <2>2. \E p \in {"none", "stored", "trash", "lost"} : fileAt' = [fileAt EXCEPT ![f] = p]
    BY <1>4 DEF StageHistoryFile, RestoreHistoryFile, PurgeHistoryFile, LifeTypes
  <2>3. LifeTypes' BY <2>1, <2>2 DEF LifeTypes
  <2>4. del'.at = del.at /\ del'.copies = del.copies /\ del'.held = del.held
    BY <2>1 DEF LifeTypes
  <2>5. \A g \in HistoryFiles : g # f =>
           fileAt'[g] = fileAt[g] /\ (g \in del.staged <=> g \in del'.staged)
    BY <2>1, <2>2 DEF LifeTypes
  <2>6. FilesKept'
    <3>1. CASE StageHistoryFile(f)
      <4>1. /\ del.at = "stage" /\ fileAt[f] = "stored" /\ fileAt'[f] = "trash"
            /\ f \in del'.staged /\ del'.staged \subseteq HistoryFiles /\ UNCHANGED astray
        BY <3>1 DEF StageHistoryFile, LifeTypes
      <4>2. target BY <4>1 DEF DeletionPhases
      <4> QED BY <2>1, <2>4, <2>5, <4>1, <4>2 DEF FilesKept
    <3>2. CASE RestoreHistoryFile(f)
      <4>1. /\ del.at = "restore" /\ f \in del.staged /\ fileAt[f] = "trash"
            /\ f \notin del'.staged /\ del'.staged \subseteq HistoryFiles
            /\ astray \subseteq astray' /\ (fileAt'[f] = "stored" \/ f \in astray')
        BY <3>2 DEF RestoreHistoryFile, LifeTypes, FilesKept
      <4>2. CASE target BY <2>1, <2>4, <2>5, <4>1, <4>2 DEF FilesKept
      <4>3. CASE ~ target BY <2>1, <2>4, <2>5, <4>1, <4>3 DEF FilesKept
      <4> QED BY <4>2, <4>3
    <3>3. CASE PurgeHistoryFile(f)
      <4>1. /\ del.at = "purge" /\ f \notin del'.staged /\ del'.staged \subseteq HistoryFiles
            /\ astray \subseteq astray' /\ (fileAt'[f] = "none" \/ f \in astray')
        BY <3>3 DEF PurgeHistoryFile, LifeTypes
      <4>2. ~ target BY <4>1 DEF DeletionPhases
      <4> QED BY <2>1, <2>4, <2>5, <4>1, <4>2 DEF FilesKept
    <3> QED BY <1>4, <3>1, <3>2, <3>3
  <2>7. DeletionPhases' BY <2>1, <2>4 DEF DeletionPhases
  <2>8. CopiesKnown' BY <2>1, <2>4 DEF CopiesKnown
  <2> QED BY <2>3, <2>6, <2>7, <2>8
<1>5. ASSUME NEW f \in HistoryFiles, StageUnanswered(f) PROVE LifeInv'
  <2>1. /\ del.at = "stage" /\ f \notin del.staged /\ fileAt[f] = "stored"
        /\ astray' = astray \cup {f}
        /\ del' = [del EXCEPT !.at = "restore", !.held = {}, !.copies = {}]
        /\ UNCHANGED <<target, busy, quick, shared, remoteRow, remoteCopy, latecomer>>
    BY <1>5 DEF StageUnanswered, Rollback, LocalOnly
  <2>2. PICK at \in {"lost", "trash"} : fileAt' = [fileAt EXCEPT ![f] = at]
    BY <1>5 DEF StageUnanswered
  <2>3. LifeTypes' BY <2>1, <2>2 DEF LifeTypes
  <2>4. del'.at = "restore" /\ del'.staged = del.staged /\ target
    BY <2>1 DEF LifeTypes, DeletionPhases
  <2>5. \A g \in HistoryFiles : g # f => fileAt'[g] = fileAt[g] BY <2>2 DEF LifeTypes
  <2>6. del.staged \subseteq HistoryFiles BY DEF LifeTypes
  <2>7. FilesKept' BY <2>1, <2>4, <2>5, <2>6 DEF FilesKept
  <2>8. DeletionPhases' BY <2>1, <2>4 DEF DeletionPhases
  <2>9. CopiesKnown' BY <2>1, <2>4 DEF CopiesKnown
  <2> QED BY <2>3, <2>7, <2>8, <2>9
<1> QED BY <1>2, <1>3, <1>4, <1>5

\* A deletion that committed left no copy nobody knows of and no local file, one
\* that did not put every file back, and a profile that others use stays; the
\* excuses are latecomer and, file by file, astray.
THEOREM DeletionIsWholeHolds == Spec => []DeletionIsWhole
<1>1. Init => LifeInv
  <2> SUFFICES ASSUME TargetLifecycleInit PROVE LifeInv
    BY DEF Init
  <2>1. LifeTypes BY DEF TargetLifecycleInit, LifeTypes, ReplicaRows, NoReplica, NoDeletion
  <2>2. DeletionPhases BY DEF TargetLifecycleInit, DeletionPhases, NoDeletion
  <2>3. CopiesKnown BY DEF TargetLifecycleInit, CopiesKnown, NoReplica, NoDeletion
  <2>4. FilesKept BY DEF TargetLifecycleInit, FilesKept, NoDeletion
  <2> QED BY <2>1, <2>2, <2>3, <2>4 DEF LifeInv
<1>2. LifeInv /\ [Next]_vars => LifeInv'
  <2> SUFFICES ASSUME LifeInv, [TargetLifecycleNext]_lifeVars PROVE LifeInv'
    BY PartsRest DEF StepOfParts
  <2>1. CASE TargetLifecycleNext
    BY <2>1, SetupStep, UploadStep, DeletionStep, DeletionEffectStep DEF TargetLifecycleNext
  <2>2. CASE UNCHANGED lifeVars
    BY <2>2 DEF lifeVars, LifeInv, LifeTypes, DeletionPhases, FilesKept, CopiesKnown
  <2> QED BY <2>1, <2>2
<1>3. LifeInv => DeletionIsWhole
  <2> SUFFICES ASSUME LifeInv PROVE DeletionIsWhole
    OBVIOUS
  <2>1. del = NoDeletion => del.staged = {} BY DEF NoDeletion
  <2> QED BY <2>1 DEF LifeInv, DeletionPhases, FilesKept, CopiesKnown, DeletionIsWhole
<1> QED BY <1>1, <1>2, <1>3, PTL DEF Spec

-----------------------------------------------------------------------------
(* Backups that a device uploads *)

Uploads == [there : BOOLEAN, size : Nat, by : 0..MaxExports]
Devices == [setting : {"own", "receiver"}, session : BOOLEAN,
            export : {"none", "sending", "done", "stopped"},
            file : 0..MaxExports, by : 0..MaxExports, sent : Nat]
Collectors == [at : {"idle", "login", "read", "set", "start", "wait", "abort", "restore", "logout",
                     "unlink"},
               original : {"unknown", "own", "receiver"}, set : BOOLEAN, logged : BOOLEAN,
               started : BOOLEAN, completed : BOOLEAN, seen : Nat, stable : Nat, content : Uploads]

ExportTypes ==
    /\ exportKind \in {"alfoplus", "ceraos"}
    /\ device \in Devices
    /\ inbox \in [Exports -> Uploads]
    /\ exportNo \in 0..MaxExports
    /\ collector \in Collectors
    /\ collector.at # "idle" => exportNo \in Exports

\* The setting differs from the device's own only while collect() knows it and
\* has yet to put it back; a session belongs to a login that is known.
SettingKnown ==
    ~ excused =>
        /\ collector.original # "receiver"
        /\ collector.original = "unknown" => device.setting = "own"
        /\ collector.at \in {"idle", "login", "read", "set", "logout", "unlink"} =>
              device.setting = "own"
        /\ exportKind = "alfoplus" /\ collector.at = "set" => collector.original # "unknown"
        /\ device.session => collector.logged
        /\ collector.at \in {"idle", "login", "unlink"} => ~ device.session

\* Every file was written by the backup whose name it has.  The upload of the
\* backup under way begins with its export, and while an ALFOplus is waited for
\* the file has the parts it sent.
UploadIsOwn ==
    /\ \A n \in Exports : inbox[n].there => inbox[n].by = n
    /\ device.by = device.file /\ device.file <= exportNo
    /\ device.export = "sending" => device.file \in Exports /\ device.sent < FullSize
    /\ collector.at \in {"login", "read", "set", "start"} =>
          device.file < exportNo /\ ~ inbox[exportNo].there /\ ~ collector.completed
    /\ exportKind = "alfoplus" /\ collector.at = "wait" =>
          /\ device.file = exportNo
          /\ device.export = "sending" /\ device.sent # 0 =>
                inbox[exportNo].there /\ inbox[exportNo].size = device.sent
          /\ device.export = "done" /\ inbox[exportNo].there => inbox[exportNo].size = FullSize
          /\ collector.completed => device.export = "done"

\* What was read is a file of this backup, a whole one where no check follows.
ReadIsOwn ==
    /\ collector.content.there =>
          /\ collector.content.by = exportNo
          /\ exportKind = "alfoplus" => collector.content.size = FullSize
    /\ CollectedWhole

ExportInv == ExportTypes /\ SettingKnown /\ UploadIsOwn /\ ReadIsOwn

\* A step of collect() that raises loses nothing of what collect() knows.
LEMMA RaiseFacts ==
    ASSUME ExportTypes, Raise
    PROVE  /\ collector' \in Collectors
           /\ collector'.at \in {"abort", "restore"}
           /\ collector'.original = collector.original
           /\ collector'.logged = collector.logged
           /\ collector'.content = collector.content
           /\ collector'.completed = collector.completed
<1> DEFINE step == IF exportKind = "alfoplus" THEN "abort" ELSE "restore"
<1>1. step \in {"abort", "restore"} OBVIOUS
<1>2. collector' = [collector EXCEPT !.at = step] BY DEF Raise
<1> HIDE DEF step
<1> QED BY <1>1, <1>2 DEF ExportTypes, Collectors

\* What a step of collect() before the wait leaves: the files, the number of the
\* backup, what it returned, and the export of the device.
Unsent ==
    /\ UNCHANGED <<exportKind, exportNo, inbox, accepted>>
    /\ device'.export = device.export /\ device'.file = device.file
    /\ device'.by = device.by /\ device'.sent = device.sent
    /\ collector'.content = collector.content /\ collector'.completed = collector.completed

\* Such a step moves to another one before the wait, or to the finally block.
LEMMA UnsentStep ==
    ASSUME ExportInv, Unsent,
           device' \in Devices, collector' \in Collectors,
           collector.at \in {"login", "read", "set"},
           collector'.at \in {"read", "set", "start", "abort", "restore"}
    PROVE  ExportTypes' /\ UploadIsOwn' /\ ReadIsOwn'
<1>1. ExportTypes' BY DEF ExportInv, ExportTypes, Unsent
<1>2. UploadIsOwn'
  BY <1>1 DEF ExportInv, ExportTypes, UploadIsOwn, Unsent
<1>3. ReadIsOwn' BY DEF ExportInv, ReadIsOwn, CollectedWhole, Unsent
<1> QED BY <1>1, <1>2, <1>3

\* A session of an ALFOplus is known, or the lost answer is the excuse.
LEMMA WebLoginStep == ExportInv /\ WebLogin => ExportInv'
<1> SUFFICES ASSUME ExportInv, WebLogin PROVE ExportInv'
  OBVIOUS
<1> DEFINE next == [collector EXCEPT !.at = "read", !.logged = TRUE]
           changed == [device EXCEPT !.session = TRUE]
<1>1. ExportTypes /\ collector.at = "login" BY DEF WebLogin, At, ExportInv
<1>2. /\ changed \in Devices /\ changed.session = TRUE /\ changed.setting = device.setting
      /\ changed.export = device.export /\ changed.file = device.file
      /\ changed.by = device.by /\ changed.sent = device.sent
  BY <1>1 DEF ExportTypes, Devices
<1>3. /\ next \in Collectors /\ next.at = "read" /\ next.logged = TRUE
      /\ next.original = collector.original /\ next.content = collector.content
      /\ next.completed = collector.completed
  BY <1>1 DEF ExportTypes, Collectors
<1>4. (device' = changed \/ device' = device) /\ ((collector' = next /\ device' = changed) \/ Raise)
  BY DEF WebLogin, Request
<1> HIDE DEF next, changed
<1>5. UNCHANGED <<exportKind, exportNo, inbox, accepted>> BY DEF WebLogin, Kept
<1>6. ~ excused' => ~ excused /\ (device'.session => collector'.logged)
  BY DEF WebLogin
<1>7. device' \in Devices /\ collector' \in Collectors
  BY <1>1, <1>2, <1>3, <1>4, RaiseFacts DEF ExportTypes
<1>8. Unsent BY <1>1, <1>2, <1>3, <1>4, <1>5, RaiseFacts DEF Unsent
<1>9. collector'.at \in {"read", "abort", "restore"} /\ collector'.original = collector.original
      /\ device'.setting = device.setting
  BY <1>1, <1>2, <1>3, <1>4, RaiseFacts
<1>10. SettingKnown'
  BY <1>1, <1>6, <1>9, <1>5 DEF ExportInv, SettingKnown
<1> QED BY <1>1, <1>7, <1>8, <1>9, <1>10, UnsentStep DEF ExportInv

\* A session of a CeraOS is known.
LEMMA SshConnectStep == ExportInv /\ SshConnect => ExportInv'
<1> SUFFICES ASSUME ExportInv, SshConnect PROVE ExportInv'
  OBVIOUS
<1> DEFINE next == [collector EXCEPT !.at = "read", !.logged = TRUE]
           changed == [device EXCEPT !.session = TRUE]
<1>1. ExportTypes /\ collector.at = "login" BY DEF SshConnect, At, ExportInv
<1>2. /\ changed \in Devices /\ changed.setting = device.setting
      /\ changed.export = device.export /\ changed.file = device.file
      /\ changed.by = device.by /\ changed.sent = device.sent
  BY <1>1 DEF ExportTypes, Devices
<1>3. /\ next \in Collectors /\ next.at = "read" /\ next.logged = TRUE
      /\ next.original = collector.original /\ next.content = collector.content
      /\ next.completed = collector.completed
  BY <1>1 DEF ExportTypes, Collectors
<1>4. (collector' = next /\ device' = changed) \/ (Raise /\ device' = device)
  BY DEF SshConnect
<1> HIDE DEF next, changed
<1>5. UNCHANGED <<exportKind, exportNo, inbox, accepted, excused>> BY DEF SshConnect, Kept
<1>6. device' = device \/ collector'.logged BY <1>3, <1>4
<1>7. device' \in Devices /\ collector' \in Collectors
  BY <1>1, <1>2, <1>3, <1>4, RaiseFacts DEF ExportTypes
<1>8. Unsent BY <1>1, <1>2, <1>3, <1>4, <1>5, RaiseFacts DEF Unsent
<1>9. collector'.at \in {"read", "abort", "restore"} /\ collector'.original = collector.original
      /\ device'.setting = device.setting
  BY <1>1, <1>2, <1>3, <1>4, RaiseFacts
<1>10. SettingKnown'
  BY <1>1, <1>6, <1>9, <1>5 DEF ExportInv, SettingKnown
<1> QED BY <1>1, <1>7, <1>8, <1>9, <1>10, UnsentStep DEF ExportInv

\* The setting is read before it is changed.
LEMMA ReadSettingStep == ExportInv /\ (ReadFtpMode \/ ReadSftpPort) => ExportInv'
<1> SUFFICES ASSUME ExportInv, ReadFtpMode \/ ReadSftpPort PROVE ExportInv'
  OBVIOUS
<1>1. ExportTypes /\ collector.at = "read"
  BY DEF ReadFtpMode, ReadSftpPort, At, ExportInv
<1>2. PICK original \in {device.setting, "unknown"} :
         /\ Query([collector EXCEPT !.at = "set", !.original = original])
         /\ exportKind = "alfoplus" => original = device.setting
  BY DEF ReadFtpMode, ReadSftpPort, At
<1> DEFINE next == [collector EXCEPT !.at = "set", !.original = original]
<1>3. (collector' = next \/ Raise) /\ device' = device BY <1>2 DEF Query
<1>4. /\ next \in Collectors /\ next.at = "set" /\ next.logged = collector.logged
      /\ next.original = original /\ next.content = collector.content
      /\ next.completed = collector.completed
  BY <1>1 DEF ExportTypes, Collectors, Devices
<1> HIDE DEF next
<1>5. UNCHANGED <<exportKind, exportNo, inbox, accepted, excused>>
  BY DEF ReadFtpMode, ReadSftpPort, Kept
<1>6. device' \in Devices /\ collector' \in Collectors
  BY <1>1, <1>3, <1>4, RaiseFacts DEF ExportTypes
<1>7. Unsent BY <1>1, <1>3, <1>4, <1>5, RaiseFacts DEF Unsent
<1>8. /\ collector'.at \in {"set", "abort", "restore"} /\ collector'.logged = collector.logged
      /\ \/ collector'.original = original
         \/ collector'.at # "set" /\ collector'.original = collector.original
  BY <1>1, <1>3, <1>4, RaiseFacts
<1>9. SettingKnown'
  BY <1>1, <1>2, <1>3, <1>5, <1>8 DEF ExportInv, SettingKnown
<1> QED BY <1>1, <1>6, <1>7, <1>8, <1>9, UnsentStep DEF ExportInv

\* The device may have been changed whatever was answered: what was read before
\* is still known, or its absence is the excuse.
LEMMA SetSettingStep == ExportInv /\ (SetFtpMode \/ SetSftpPort) => ExportInv'
<1> SUFFICES ASSUME ExportInv, SetFtpMode \/ SetSftpPort PROVE ExportInv'
  OBVIOUS
<1> DEFINE next == [collector EXCEPT !.at = "start"]
           after == [collector EXCEPT !.at = "start", !.set = TRUE]
<1>1. ExportTypes /\ collector.at = "set" BY DEF SetFtpMode, SetSftpPort, At, ExportInv
<1>2. device' = device \/ device' = ToReceiver
  BY DEF SetFtpMode, SetSftpPort, Query, Command, Request
<1>3. collector' = next \/ collector' = after \/ Raise
  BY DEF SetFtpMode, SetSftpPort, Query, Command, Request
<1>4. /\ next \in Collectors /\ next.at = "start" /\ next.logged = collector.logged
      /\ next.original = collector.original /\ next.content = collector.content
      /\ next.completed = collector.completed
  BY <1>1 DEF ExportTypes, Collectors
<1>5. /\ after \in Collectors /\ after.at = "start" /\ after.logged = collector.logged
      /\ after.original = collector.original /\ after.content = collector.content
      /\ after.completed = collector.completed
  BY <1>1 DEF ExportTypes, Collectors
<1> HIDE DEF next, after
<1>6. /\ ToReceiver \in Devices /\ ToReceiver.session = device.session
      /\ ToReceiver.export = device.export /\ ToReceiver.file = device.file
      /\ ToReceiver.by = device.by /\ ToReceiver.sent = device.sent
  BY <1>1 DEF ToReceiver, ExportTypes, Devices
<1>7. UNCHANGED <<exportKind, exportNo, inbox, accepted>>
  BY DEF SetFtpMode, SetSftpPort, Kept
<1>8. ~ excused' => ~ excused /\ (collector.original = "unknown" => device' = device)
  <2>1. CASE SetSftpPort
    BY <2>1, <1>2 DEF SetSftpPort
  <2>2. CASE SetFtpMode
    <3>1. excused' = excused /\ exportKind = "alfoplus" BY <2>2 DEF SetFtpMode, At
    <3> QED BY <1>1, <3>1 DEF ExportInv, SettingKnown
  <2> QED BY <2>1, <2>2
<1>9. device' \in Devices /\ collector' \in Collectors
  BY <1>1, <1>2, <1>3, <1>4, <1>5, <1>6, RaiseFacts DEF ExportTypes
<1>10. Unsent BY <1>1, <1>2, <1>3, <1>4, <1>5, <1>6, <1>7, RaiseFacts DEF Unsent
<1>11. /\ collector'.at \in {"start", "abort", "restore"} /\ collector'.logged = collector.logged
       /\ collector'.original = collector.original /\ device'.session = device.session
  BY <1>1, <1>2, <1>3, <1>4, <1>5, <1>6, RaiseFacts
<1>12. SettingKnown'
  BY <1>1, <1>7, <1>8, <1>11 DEF ExportInv, SettingKnown
<1> QED BY <1>1, <1>9, <1>10, <1>11, <1>12, UnsentStep DEF ExportInv

\* The device begins with the file of this backup, which nobody has written to.
LEMMA StartExportStep == ExportInv /\ (StartWebBackup \/ StartCliExport) => ExportInv'
<1> SUFFICES ASSUME ExportInv, StartWebBackup \/ StartCliExport PROVE ExportInv'
  OBVIOUS
<1> DEFINE next == [collector EXCEPT !.at = "wait", !.started = TRUE]
<1>1. ExportTypes /\ collector.at = "start"
  BY DEF StartWebBackup, StartCliExport, At, ExportInv
<1>2. device' = device \/ device' = Sending
  BY DEF StartWebBackup, StartCliExport, Command, Request
<1>3. (collector' = next /\ device' = Sending) \/ Raise
  BY DEF StartWebBackup, StartCliExport, Command, Request
<1>4. /\ next \in Collectors /\ next.at = "wait" /\ next.logged = collector.logged
      /\ next.original = collector.original /\ next.content = collector.content
      /\ next.completed = collector.completed
  BY <1>1 DEF ExportTypes, Collectors
<1> HIDE DEF next
<1>5. /\ Sending \in Devices /\ Sending.setting = device.setting
      /\ Sending.session = device.session /\ Sending.export = "sending"
      /\ Sending.file = exportNo /\ Sending.by = exportNo /\ Sending.sent = 0
  BY <1>1, ExportAssumption DEF Sending, FileName, ExportTypes, Devices
<1>6. UNCHANGED <<exportKind, exportNo, inbox, accepted, excused>>
  BY DEF StartWebBackup, StartCliExport, Kept
<1>7. /\ collector' \in Collectors
      /\ collector'.at \in {"wait", "abort", "restore"} /\ collector'.logged = collector.logged
      /\ collector'.original = collector.original /\ collector'.content = collector.content
  BY <1>1, <1>3, <1>4, RaiseFacts
<1>8. collector'.at = "wait" => device' = Sending /\ collector'.completed = collector.completed
  BY <1>1, <1>3, <1>4, RaiseFacts
<1>9. ExportTypes' BY <1>1, <1>2, <1>5, <1>6, <1>7 DEF ExportTypes
<1>10. SettingKnown' BY <1>1, <1>2, <1>5, <1>6, <1>7 DEF ExportInv, SettingKnown
<1>11. UploadIsOwn'
  BY <1>1, <1>2, <1>5, <1>6, <1>7, <1>8, ExportAssumption DEF ExportInv, ExportTypes, Exports,
                                                              UploadIsOwn
<1>12. ReadIsOwn' BY <1>6, <1>7 DEF ExportInv, ReadIsOwn, CollectedWhole
<1> QED BY <1>9, <1>10, <1>11, <1>12 DEF ExportInv

\* A file of an ALFOplus is read when the device has finished and the file is the
\* whole one; a wait that ends otherwise reads nothing.
LEMMA WaitStep ==
    ExportInv /\ (WaitForBackup \/ WaitAndRead \/ WaitFails \/ TunnelFails) => ExportInv'
<1> SUFFICES ASSUME ExportInv, WaitForBackup \/ WaitAndRead \/ WaitFails \/ TunnelFails
    PROVE  ExportInv'
  OBVIOUS
<1> USE ExportAssumption DEF ExportInv, At, Kept, FileName, Exports, Idle, NoUpload
<1>1. CASE WaitForBackup
  <2>1. ExportTypes'
    BY <1>1 DEF WaitForBackup, Look, Upload, MaySettle, ExportTypes, Uploads, Devices, Collectors
  <2>2. SettingKnown'
    BY <1>1 DEF WaitForBackup, Look, Upload, MaySettle, ExportTypes, Uploads, Devices, Collectors,
                SettingKnown
  <2>3. UploadIsOwn'
    BY <1>1 DEF WaitForBackup, Look, Upload, MaySettle, ExportTypes, Uploads, Devices, Collectors,
                UploadIsOwn
  <2>4. ReadIsOwn'
    BY <1>1 DEF WaitForBackup, Look, Upload, MaySettle, ExportTypes, Uploads, Devices, Collectors,
                UploadIsOwn, ReadIsOwn, CollectedWhole
  <2> QED BY <2>1, <2>2, <2>3, <2>4
<1>2. CASE WaitAndRead
  <2>1. ExportTypes'
    BY <1>2 DEF WaitAndRead, Look, Upload, ExportTypes, Uploads, Devices, Collectors
  <2>2. SettingKnown'
    BY <1>2 DEF WaitAndRead, Look, Upload, ExportTypes, Uploads, Devices, Collectors, SettingKnown
  <2>3. UploadIsOwn'
    BY <1>2 DEF WaitAndRead, Look, Upload, ExportTypes, Uploads, Devices, Collectors, UploadIsOwn
  <2>4. ReadIsOwn'
    BY <1>2 DEF WaitAndRead, Look, Upload, ExportTypes, Uploads, Devices, Collectors, UploadIsOwn,
                ReadIsOwn, CollectedWhole
  <2> QED BY <2>1, <2>2, <2>3, <2>4
<1>3. CASE WaitFails
  <2>1. ExportTypes'
    BY <1>3 DEF WaitFails, Raise, ExportTypes, Uploads, Devices, Collectors
  <2>2. SettingKnown'
    BY <1>3 DEF WaitFails, Raise, ExportTypes, Uploads, Devices, Collectors, SettingKnown
  <2>3. UploadIsOwn'
    BY <1>3 DEF WaitFails, Raise, ExportTypes, Uploads, Devices, Collectors, UploadIsOwn
  <2>4. ReadIsOwn'
    BY <1>3 DEF WaitFails, Raise, ExportTypes, Uploads, Devices, Collectors, UploadIsOwn,
                ReadIsOwn, CollectedWhole
  <2> QED BY <2>1, <2>2, <2>3, <2>4
<1>4. CASE TunnelFails
  <2>1. ExportTypes'
    BY <1>4 DEF TunnelFails, Raise, ExportTypes, Devices, Collectors
  <2>2. SettingKnown'
    BY <1>4 DEF TunnelFails, Raise, ExportTypes, Devices, Collectors, SettingKnown
  <2>3. UploadIsOwn'
    BY <1>4 DEF TunnelFails, Raise, ExportTypes, Devices, Collectors, UploadIsOwn
  <2>4. ReadIsOwn'
    BY <1>4 DEF TunnelFails, Raise, ExportTypes, Devices, Collectors, UploadIsOwn, ReadIsOwn,
                CollectedWhole
  <2> QED BY <2>1, <2>2, <2>3, <2>4
<1> QED BY <1>1, <1>2, <1>3, <1>4

\* The finally block puts back what is known, and the driver checks what was read.
LEMMA FinallyStep ==
    ExportInv /\ (AbortBackup \/ RestoreSetting \/ WebLogout \/ SshClose) => ExportInv'
<1> SUFFICES ASSUME ExportInv, AbortBackup \/ RestoreSetting \/ WebLogout \/ SshClose
    PROVE  ExportInv'
  OBVIOUS
<1> USE ExportAssumption DEF ExportInv, At, Kept, FileName, Exports, Idle, NoUpload
<1>1. CASE AbortBackup
  <2>1. ExportTypes'
    BY <1>1 DEF AbortBackup, Upload, ExportTypes, Devices, Collectors
  <2>2. SettingKnown'
    BY <1>1 DEF AbortBackup, Upload, ExportTypes, Devices, Collectors, SettingKnown
  <2>3. UploadIsOwn'
    BY <1>1 DEF AbortBackup, Upload, ExportTypes, Devices, Collectors, UploadIsOwn
  <2>4. ReadIsOwn'
    BY <1>1 DEF AbortBackup, Upload, ExportTypes, Devices, Collectors, UploadIsOwn, ReadIsOwn,
                CollectedWhole
  <2> QED BY <2>1, <2>2, <2>3, <2>4
<1>2. CASE RestoreSetting
  <2>1. /\ collector.at = "restore" /\ collector' = [collector EXCEPT !.at = "logout"]
        /\ UNCHANGED <<exportKind, exportNo, inbox, accepted>>
    BY <1>2 DEF RestoreSetting
  <2>2. /\ collector' \in Collectors /\ collector'.at = "logout"
        /\ collector'.original = collector.original /\ collector'.logged = collector.logged
        /\ collector'.content = collector.content
    BY <2>1 DEF ExportTypes, Collectors
  <2>3. \/ device' = device
        \/ /\ device' = [device EXCEPT !.setting = collector.original]
           /\ collector.original = "own"
    BY <1>2 DEF RestoreSetting, Restores, ExportTypes, Collectors
  <2>4. /\ device' \in Devices /\ device'.session = device.session
        /\ device'.export = device.export /\ device'.file = device.file
        /\ device'.by = device.by /\ device'.sent = device.sent
    BY <2>3 DEF ExportTypes, Devices
  <2>5. ~ excused' => ~ excused /\ (collector.original = "own" => device'.setting = "own")
    BY <1>2 DEF RestoreSetting, Restores, ExportTypes, Devices
  <2>6. device'.setting = device.setting \/ device'.setting = "own"
    BY <2>3 DEF ExportTypes, Devices
  <2>7. ExportTypes' BY <2>1, <2>2, <2>4 DEF ExportTypes
  <2>8. SettingKnown'
    BY <2>1, <2>2, <2>4, <2>5, <2>6 DEF SettingKnown, ExportTypes, Collectors
  <2>9. UploadIsOwn' BY <2>1, <2>2, <2>4 DEF UploadIsOwn
  <2>10. ReadIsOwn' BY <2>1, <2>2 DEF ReadIsOwn, CollectedWhole
  <2> QED BY <2>7, <2>8, <2>9, <2>10
<1>3. CASE WebLogout
  <2>1. ExportTypes'
    BY <1>3 DEF WebLogout, ExportTypes, Devices, Collectors
  <2>2. SettingKnown'
    BY <1>3 DEF WebLogout, ExportTypes, Devices, Collectors, SettingKnown
  <2>3. UploadIsOwn'
    BY <1>3 DEF WebLogout, ExportTypes, Devices, Collectors, UploadIsOwn
  <2>4. ReadIsOwn'
    BY <1>3 DEF WebLogout, ExportTypes, Devices, Collectors, UploadIsOwn, ReadIsOwn, CollectedWhole
  <2> QED BY <2>1, <2>2, <2>3, <2>4
<1>4. CASE SshClose
  <2>1. ExportTypes'
    BY <1>4 DEF SshClose, ExportTypes, Devices, Collectors
  <2>2. SettingKnown'
    BY <1>4 DEF SshClose, ExportTypes, Devices, Collectors, SettingKnown
  <2>3. UploadIsOwn'
    BY <1>4 DEF SshClose, ExportTypes, Devices, Collectors, UploadIsOwn
  <2>4. ReadIsOwn'
    BY <1>4 DEF SshClose, ExportTypes, Devices, Collectors, UploadIsOwn, ReadIsOwn, CollectedWhole
  <2> QED BY <2>1, <2>2, <2>3, <2>4
<1> QED BY <1>1, <1>2, <1>3, <1>4

\* A backup begins with no file of its name and ends idle, or the worker died.
LEMMA BoundaryStep == ExportInv /\ (BeginExport \/ EndExport \/ ExportDies) => ExportInv'
<1> SUFFICES ASSUME ExportInv, BeginExport \/ EndExport \/ ExportDies PROVE ExportInv'
  OBVIOUS
<1> USE ExportAssumption DEF ExportInv, At, Kept, FileName, Exports, Idle, NoUpload
<1>1. CASE BeginExport
  <2>1. /\ exportNo' = exportNo + 1 /\ exportNo' \in Exports
        /\ collector' = [Idle EXCEPT !.at = "login"] /\ accepted' = NoUpload
        /\ UNCHANGED <<exportKind, device, excused>>
    BY <1>1 DEF BeginExport, ExportTypes
  <2>2. inbox' = [inbox EXCEPT ![exportNo'] = NoUpload]
    BY <1>1 DEF BeginExport
  <2> NoUpload \in Uploads BY DEF Uploads
  <2>3. collector' \in Collectors /\ collector'.at = "login" /\ collector'.original = "unknown"
        /\ collector'.content = NoUpload /\ collector'.completed = FALSE
    BY <2>1 DEF Collectors
  <2>4. inbox' \in [Exports -> Uploads] BY <2>2 DEF ExportTypes
  <2>5. ExportTypes' BY <2>1, <2>3, <2>4 DEF ExportTypes
  <2>6. SettingKnown'
    BY <2>1, <2>3, <1>1 DEF SettingKnown, BeginExport
  <2>7. UploadIsOwn'
    BY <2>1, <2>2, <2>3, <2>4 DEF UploadIsOwn, ExportTypes, Devices
  <2>8. ReadIsOwn' BY <2>1, <2>3 DEF ReadIsOwn, CollectedWhole
  <2> QED BY <2>5, <2>6, <2>7, <2>8
<1>2. CASE EndExport
  <2>1. ExportTypes'
    BY <1>2 DEF EndExport, ValidContent, ExportTypes, Uploads, Devices, Collectors
  <2>2. SettingKnown'
    BY <1>2 DEF EndExport, ValidContent, ExportTypes, Uploads, Devices, Collectors, SettingKnown
  <2>3. UploadIsOwn'
    BY <1>2 DEF EndExport, ValidContent, ExportTypes, Uploads, Devices, Collectors, UploadIsOwn
  <2>4. ReadIsOwn'
    BY <1>2 DEF EndExport, ValidContent, ExportTypes, Uploads, Devices, Collectors, UploadIsOwn,
                ReadIsOwn, CollectedWhole
  <2> QED BY <2>1, <2>2, <2>3, <2>4
<1>3. CASE ExportDies
  <2>1. /\ collector' = Idle /\ excused' = TRUE
        /\ UNCHANGED <<exportKind, exportNo, inbox, accepted>>
    BY <1>3 DEF ExportDies
  <2>2. /\ collector' \in Collectors /\ collector'.at = "idle" /\ collector'.content = NoUpload
    BY <2>1 DEF Collectors, Uploads
  <2> DEFINE session == device.session /\ exportKind = "alfoplus"
  <2>3. session \in BOOLEAN BY DEF ExportTypes, Devices
  <2>4. device' = [device EXCEPT !.session = session] BY <1>3 DEF ExportDies
  <2> HIDE DEF session
  <2>5. /\ device' \in Devices
        /\ device'.export = device.export /\ device'.file = device.file
        /\ device'.by = device.by /\ device'.sent = device.sent
    BY <2>3, <2>4 DEF ExportTypes, Devices
  <2>6. ExportTypes' BY <2>1, <2>2, <2>5 DEF ExportTypes
  <2>7. SettingKnown' BY <2>1 DEF SettingKnown
  <2>8. UploadIsOwn' BY <2>1, <2>2, <2>5 DEF UploadIsOwn
  <2>9. ReadIsOwn' BY <2>1, <2>2 DEF ReadIsOwn, CollectedWhole
  <2> QED BY <2>6, <2>7, <2>8, <2>9
<1> QED BY <1>1, <1>2, <1>3

\* The device goes on writing to the file it began with, which has its number.
LEMMA SendStep == ExportInv /\ (SendPart \/ SendFails \/ SendRestarts) => ExportInv'
<1> SUFFICES ASSUME ExportInv, SendPart \/ SendFails \/ SendRestarts PROVE ExportInv'
  OBVIOUS
<1> USE ExportAssumption DEF ExportInv, At, Kept, FileName, Exports, Idle, NoUpload
<1>1. CASE SendPart
  <2>1. UNCHANGED <<exportKind, exportNo, collector, accepted, excused>>
        /\ device.export = "sending"
    BY <1>1 DEF SendPart
  <2> DEFINE sent == device.sent + 1
             state == IF sent = FullSize THEN "done" ELSE "sending"
             part1 == [there |-> TRUE, size |-> sent, by |-> device.by]
  <2>2. /\ device.file \in Exports /\ device.by = device.file /\ sent \in Nat /\ sent # 0
        /\ sent <= FullSize /\ part1 \in Uploads
    BY <2>1 DEF UploadIsOwn, ExportTypes, Devices, Uploads
  <2>3. CASE Refused
    <3>1. device' = [device EXCEPT !.export = "stopped"] /\ inbox' = inbox
      BY <1>1, <2>3 DEF SendPart
    <3>2. /\ device' \in Devices /\ device'.setting = device.setting
          /\ device'.session = device.session /\ device'.export = "stopped"
          /\ device'.file = device.file /\ device'.by = device.by /\ device'.sent = device.sent
      BY <3>1 DEF ExportTypes, Devices
    <3>3. ExportTypes' BY <2>1, <3>1, <3>2 DEF ExportTypes
    <3>4. SettingKnown' BY <2>1, <3>2 DEF SettingKnown
    <3>5. UploadIsOwn' BY <2>1, <3>1, <3>2 DEF UploadIsOwn
    <3>6. ReadIsOwn' BY <2>1 DEF ReadIsOwn, CollectedWhole
    <3> QED BY <3>3, <3>4, <3>5, <3>6
  <2>4. CASE ~ Refused
    <3>1. /\ device' = [device EXCEPT !.sent = sent, !.export = state]
          /\ inbox' = IF device.sent = 0 \/ inbox[device.file].by = device.by
                      THEN [inbox EXCEPT ![device.file] = part1] ELSE inbox
      BY <1>1, <2>4, <2>1 DEF SendPart
    <3>2. state \in {"sending", "done"} /\ (state = "sending" => sent < FullSize)
          /\ (state = "done" => sent = FullSize)
      BY <2>2
    <3>3. part1.there = TRUE /\ part1.size = sent /\ part1.by = device.file
      BY <2>2
    <3> HIDE DEF sent, state, part1
    <3>4. /\ device' \in Devices /\ device'.setting = device.setting
          /\ device'.session = device.session /\ device'.export = state
          /\ device'.file = device.file /\ device'.by = device.by /\ device'.sent = sent
      BY <2>2, <3>1, <3>2 DEF ExportTypes, Devices
    <3>5. inbox' \in [Exports -> Uploads] BY <2>2, <3>1 DEF ExportTypes
    <3>6. \A n \in Exports : n # device.file => inbox'[n] = inbox[n]
      BY <2>2, <3>1 DEF ExportTypes
    <3>7. inbox'[device.file] = inbox[device.file] \/ inbox'[device.file] = part1
      BY <2>2, <3>1 DEF ExportTypes
    <3>8. device.sent = 0 \/ inbox[device.file].there => inbox'[device.file] = part1
      BY <2>2, <3>1 DEF ExportTypes, UploadIsOwn
    <3>9. ExportTypes' BY <2>1, <3>4, <3>5 DEF ExportTypes
    <3>10. SettingKnown' BY <2>1, <3>4 DEF SettingKnown
    <3>11. UploadIsOwn'
      BY <2>1, <2>2, <3>2, <3>3, <3>4, <3>5, <3>6, <3>7, <3>8 DEF UploadIsOwn, ExportTypes, Devices
    <3>12. ReadIsOwn' BY <2>1 DEF ReadIsOwn, CollectedWhole
    <3> QED BY <3>9, <3>10, <3>11, <3>12
  <2> QED BY <2>3, <2>4
<1>2. CASE SendFails
  <2>1. ExportTypes'
    BY <1>2 DEF SendFails, ExportTypes, Devices
  <2>2. SettingKnown'
    BY <1>2 DEF SendFails, ExportTypes, Devices, SettingKnown
  <2>3. UploadIsOwn'
    BY <1>2 DEF SendFails, ExportTypes, Devices, UploadIsOwn
  <2>4. ReadIsOwn'
    BY <1>2 DEF SendFails, ExportTypes, Devices, UploadIsOwn, ReadIsOwn, CollectedWhole
  <2> QED BY <2>1, <2>2, <2>3, <2>4
<1>3. CASE SendRestarts
  <2>1. ExportTypes'
    BY <1>3 DEF SendRestarts, ExportTypes, Devices
  <2>2. SettingKnown'
    BY <1>3 DEF SendRestarts, ExportTypes, Devices, SettingKnown
  <2>3. UploadIsOwn'
    BY <1>3 DEF SendRestarts, ExportTypes, Devices, UploadIsOwn
  <2>4. ReadIsOwn'
    BY <1>3 DEF SendRestarts, ExportTypes, Devices, UploadIsOwn, ReadIsOwn, CollectedWhole
  <2> QED BY <2>1, <2>2, <2>3, <2>4
<1> QED BY <1>1, <1>2, <1>3

\* Every step of collect(), of the device and of the receiver.
LEMMA ExportStep == ExportInv /\ [DeviceExportNext]_exportVars => ExportInv'
<1> SUFFICES ASSUME ExportInv, [DeviceExportNext]_exportVars PROVE ExportInv'
  OBVIOUS
<1>1. CASE DeviceExportNext
  BY <1>1, WebLoginStep, SshConnectStep, ReadSettingStep, SetSettingStep, StartExportStep, WaitStep,
     FinallyStep, BoundaryStep, SendStep DEF DeviceExportNext
<1>2. CASE UNCHANGED exportVars
  BY <1>2 DEF exportVars, ExportInv, ExportTypes, SettingKnown, UploadIsOwn, ReadIsOwn,
              CollectedWhole
<1> QED BY <1>1, <1>2

\* The invariant of the exports holds throughout.
LEMMA ExportInvariant == Spec => []ExportInv
<1>1. Init => ExportInv
  <2> SUFFICES ASSUME DeviceExportInit PROVE ExportInv
    BY DEF Init
  <2> USE ExportAssumption DEF DeviceExportInit, Idle, NoUpload, Exports
  <2>1. ExportTypes BY DEF ExportTypes, Devices, Collectors, Uploads
  <2>2. SettingKnown BY DEF SettingKnown
  <2>3. UploadIsOwn BY DEF UploadIsOwn
  <2>4. ReadIsOwn BY DEF ReadIsOwn, CollectedWhole
  <2> QED BY <2>1, <2>2, <2>3, <2>4 DEF ExportInv
<1>2. ExportInv /\ [Next]_vars => ExportInv'
  BY ExportStep, PartsRest DEF StepOfParts
<1> QED BY <1>1, <1>2, PTL DEF Spec

\* Whichever requests of collect() are lost, the device has its own setting and
\* no session afterwards, but for the excuses that excused names.
THEOREM LeftAsFoundHolds == Spec => []LeftAsFound
<1>1. ExportInv => LeftAsFound BY DEF ExportInv, SettingKnown, LeftAsFound
<1> QED BY <1>1, ExportInvariant, PTL

\* A backup returns the whole file of its own export, for any number of backups
\* of any size, whatever uploads of earlier ones still arrive.
THEOREM CollectedWholeHolds == Spec => []CollectedWhole
<1>1. ExportInv => CollectedWhole BY DEF ExportInv, ReadIsOwn
<1> QED BY <1>1, ExportInvariant, PTL

=============================================================================
