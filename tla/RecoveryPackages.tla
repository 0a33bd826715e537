--------------------------- MODULE RecoveryPackages ---------------------------
(***************************************************************************)
(* Recovery packages: a job copies a verified FTP replica into a temporary *)
(* ZIP, which operators download until it expires, and an hourly job that  *)
(* removes what is older than the lifetime.  A download is protected with  *)
(* a password when the settings say so.                                    *)
(*                                                                         *)
(* The cleanup goes by the modification time of a file, the offer by the   *)
(* expires_at that the job recorded.                                       *)
(***************************************************************************)
EXTENDS Naturals

CONSTANTS
    PackageJobs,  \* jobs, each with a token of its own
    Lifetime,     \* recovery_package_ttl_minutes
    MaxClock      \* bound: the clock

ASSUME PackagesAssumption == Lifetime \in Nat /\ MaxClock \in Nat

NoFile == [there |-> FALSE, written |-> 0, intact |-> FALSE]

VARIABLES
    clock,        \* timezone.now()
    package,      \* state of each job, and expires_at of its data
    temp,         \* the temporary file of each job
    zip,          \* the published file of each job
    replicaGood,  \* the replica: "good", "damaged" or "gone"
    zipSetting,   \* download_zip_encryption_enabled
    zipSecret,    \* the password can be decrypted
    download      \* the request of an operator

packageVars == <<clock, package, temp, zip, replicaGood, zipSetting, zipSecret, download>>

NoDownload == [at |-> "idle", intact |-> FALSE, wasOff |-> FALSE]

RecoveryPackagesInit ==
    /\ clock = 0
    /\ package = [j \in PackageJobs |-> [at |-> "none", now |-> 0, expires |-> 0]]
    /\ temp = [j \in PackageJobs |-> NoFile]
    /\ zip = [j \in PackageJobs |-> NoFile]
    /\ replicaGood = "good"
    /\ zipSetting \in BOOLEAN /\ zipSecret \in BOOLEAN
    /\ download = NoDownload

DownloadFrame == UNCHANGED <<replicaGood, zipSetting, zipSecret, download>>

-----------------------------------------------------------------------------
(* The job *)

\* ConfigRevisionFtpRecoveryPrepareView.post
PreparePackage(j) ==
    /\ package[j].at = "none"
    /\ replicaGood # "gone"
    /\ package' = [package EXCEPT ![j].at = "queued"]
    /\ UNCHANGED <<clock, temp, zip>>
    /\ DownloadFrame

\* st_mtime >= cutoff
Fresh(f) == f.written + Lifetime >= clock
Swept(files) == [j \in PackageJobs |-> IF Fresh(files[j]) THEN files[j] ELSE NoFile]

\* build_ftp_recovery_package removes what is too old and opens its file.
StartPackage(j) ==
    /\ package[j].at = "queued"
    /\ package' = [package EXCEPT ![j] = [at |-> "building", now |-> clock, expires |-> 0]]
    /\ temp' = [Swept(temp) EXCEPT ![j] = [there |-> TRUE, written |-> clock, intact |-> FALSE]]
    /\ zip' = Swept(zip)
    /\ UNCHANGED clock
    /\ DownloadFrame

\* write_verified_ftp_replica_to_archive: a file that differs ends the job.
WritePackage(j) ==
    /\ package[j].at = "building"
    /\ IF replicaGood = "good"
       THEN /\ package' = [package EXCEPT ![j].at = "written"]
            /\ temp' = [temp EXCEPT ![j] = IF @.there THEN [there |-> TRUE, written |-> clock,
                                                            intact |-> TRUE] ELSE @]
       ELSE /\ package' = [package EXCEPT ![j].at = "failed"]
            /\ temp' = [temp EXCEPT ![j] = NoFile]
    /\ UNCHANGED <<clock, zip>>
    /\ DownloadFrame

\* os.replace keeps the time of the last write.
PublishPackage(j) ==
    /\ package[j].at = "written"
    /\ package' = [package EXCEPT ![j].at = IF temp[j].there THEN "published" ELSE "failed"]
    /\ zip' = [zip EXCEPT ![j] = temp[j]]
    /\ temp' = [temp EXCEPT ![j] = NoFile]
    /\ UNCHANGED clock
    /\ DownloadFrame

\* Mutant: the lifetime begins when the package is complete.
ExpiresLate(j) == clock + Lifetime

\* expires_at: the lifetime begins when the job does.
ExpiresAt(j) == package[j].now + Lifetime

\* _file_integrity, and the result is saved with the job.
FinishPackage(j) ==
    /\ package[j].at = "published"
    /\ package' = [package EXCEPT ![j] =
          IF zip[j].there THEN [@ EXCEPT !.at = "ready", !.expires = ExpiresAt(j)]
          ELSE [@ EXCEPT !.at = "failed"]]
    /\ UNCHANGED <<clock, temp, zip>>
    /\ DownloadFrame

\* An OSError: the except and finally branches remove what was written.
PackageFails(j) ==
    /\ package[j].at \in {"building", "written", "published"}
    /\ package' = [package EXCEPT ![j].at = "failed"]
    /\ temp' = [temp EXCEPT ![j] = NoFile]
    /\ zip' = [zip EXCEPT ![j] = NoFile]
    /\ UNCHANGED clock
    /\ DownloadFrame

\* The worker is killed: what was written stays behind.
PackageJobDies(j) ==
    /\ package[j].at \in {"building", "written", "published"}
    /\ package' = [package EXCEPT ![j].at = "failed"]
    /\ UNCHANGED <<clock, temp, zip>>
    /\ DownloadFrame

\* ScheduledRecoveryPackageCleanupJob
SweepPackages ==
    /\ temp' = Swept(temp)
    /\ zip' = Swept(zip)
    /\ UNCHANGED <<clock, package>>
    /\ DownloadFrame

-----------------------------------------------------------------------------
(* The download *)

Offered(j) == package[j].at = "ready" /\ package[j].expires > clock

\* validate_recovery_package compares the file with the recorded hash and
\* opens it; an open file outlives a cleanup.
OpenPackage(j) ==
    /\ download = NoDownload
    /\ Offered(j) /\ replicaGood # "gone"
    /\ zip[j].there /\ zip[j].intact
    /\ download' = [at |-> "opened", intact |-> zip[j].intact, wasOff |-> ~ zipSetting]
    /\ UNCHANGED <<clock, package, temp, zip, replicaGood, zipSetting, zipSecret>>

\* ConfigRevisionArtifactDownloadView: load_artifact_content verifies the local file.
OpenArtifact ==
    /\ download = NoDownload
    /\ download' = [at |-> "opened", intact |-> TRUE, wasOff |-> ~ zipSetting]
    /\ UNCHANGED <<clock, package, temp, zip, replicaGood, zipSetting, zipSecret>>

\* resolve_download_zip_password: None, a password, or DownloadEncryptionError.
ResolvePassword ==
    /\ download.at = "opened"
    /\ download' = [download EXCEPT !.at = IF ~ zipSetting THEN "plain"
                                          ELSE IF zipSecret THEN "protected" ELSE "503"]
    /\ UNCHANGED <<clock, package, temp, zip, replicaGood, zipSetting, zipSecret>>

\* The response is sent.
EndDownload ==
    /\ download.at \in {"plain", "protected", "503"}
    /\ download' = NoDownload
    /\ UNCHANGED <<clock, package, temp, zip, replicaGood, zipSetting, zipSecret>>

\* AdvancedSettingsView, and a master key that comes and goes.
ChangeProtection ==
    /\ zipSetting' \in BOOLEAN /\ zipSecret' \in BOOLEAN
    /\ download' = [download EXCEPT !.wasOff = @ \/ (download.at = "opened" /\ ~ zipSetting')]
    /\ UNCHANGED <<clock, package, temp, zip, replicaGood>>

\* The copy on the server is damaged, or retention removes it.
ReplicaChanges ==
    /\ replicaGood' \in {"damaged", "gone"}
    /\ replicaGood # "gone"
    /\ UNCHANGED <<clock, package, temp, zip, zipSetting, zipSecret, download>>

Elapse ==
    /\ clock < MaxClock
    /\ clock' = clock + 1
    /\ UNCHANGED <<package, temp, zip>>
    /\ DownloadFrame

RecoveryPackagesNext ==
    \/ \E j \in PackageJobs :
          \/ PreparePackage(j) \/ StartPackage(j) \/ WritePackage(j) \/ PublishPackage(j)
          \/ FinishPackage(j) \/ PackageFails(j) \/ PackageJobDies(j) \/ OpenPackage(j)
    \/ SweepPackages \/ OpenArtifact \/ ResolvePassword \/ EndDownload
    \/ ChangeProtection \/ ReplicaChanges \/ Elapse

-----------------------------------------------------------------------------
\* A package is on offer only while its verified file exists: no cleanup, by
\* the hourly job or by another package, takes it before the time that the
\* operator was told.  And an unprotected download was asked for while the
\* protection was off.
OfferIsGood ==
    /\ \A j \in PackageJobs : Offered(j) => zip[j].there /\ zip[j].intact
    /\ download.at = "plain" => download.wasOff
=============================================================================
