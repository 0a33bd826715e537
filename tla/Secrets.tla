-------------------------------- MODULE Secrets --------------------------------
(***************************************************************************)
(* Encrypted secrets (device passwords, the password of protected          *)
(* downloads) and the rotation of the master key that encrypts them,       *)
(* config_backup_rotate_master_key, along docs/MASTER_KEY_ROTATION.md,     *)
(* while web requests save secrets.  A ciphertext is the version of its    *)
(* key; a process knows the keys of the environment it was started with.   *)
(***************************************************************************)
EXTENDS Naturals

CONSTANTS
    Processes,   \* web and worker processes
    Passwords,   \* the device passwords: rows of StoredCredential
    DownloadKey  \* the row of DownloadEncryptionSecret

\* Device passwords and the download password are rows of different tables.
ASSUME SecretsAssumption == DownloadKey \notin Passwords

SecretRows == Passwords \cup {DownloadKey}

VARIABLES
    keyEnv,      \* environment of each process: "old" {1}, "both" {1, 2}, "new" {2}
    secretKey,   \* key version of each row, 0 without a row
    saving,      \* the form each process is saving
    rotating,    \* rows the command has locked
    stage,       \* how far the operator is with the procedure
    zipProtected \* OperationalSettings.download_zip_encryption_enabled

secretVars == <<keyEnv, secretKey, saving, rotating, stage, zipProtected>>

\* active_key
ActiveVersion(p) == IF keyEnv[p] = "old" THEN 1 ELSE 2

\* keyring
Keyring(p) == IF keyEnv[p] = "both" THEN {1, 2} ELSE {ActiveVersion(p)}

\* decrypt succeeds: the version is configured.
Decrypts(p, s) == secretKey[s] # 0 => secretKey[s] \in Keyring(p)

\* Rows on another key than the active one, as _verify counts them.
PendingRotation == {s \in SecretRows : secretKey[s] = 1}

NotSaving == [row |-> DownloadKey, part |-> "nothing", key |-> 0]

SecretsInit ==
    /\ keyEnv = [p \in Processes |-> "old"]
    /\ secretKey \in [SecretRows -> {0, 1}]
    /\ saving = [p \in Processes |-> NotSaving]
    /\ rotating = {}
    /\ stage = "before"
    /\ zipProtected \in {FALSE, secretKey[DownloadKey] # 0}

-----------------------------------------------------------------------------
(* Forms *)

\* CredentialProfileForm.save, create_quick_setup: a new password is encrypted
\* with the active key of the process; without one only the name changes.
LoadCredential(p, s) ==
    /\ saving[p] = NotSaving
    /\ \E part \in {"password", "username"} :
          /\ part = "username" => secretKey[s] # 0
          /\ saving' = [saving EXCEPT ![p] =
                [row |-> s, part |-> part,
                 key |-> IF part = "password" THEN ActiveVersion(p) ELSE secretKey[s]]]
    /\ UNCHANGED <<keyEnv, secretKey, rotating, stage, zipProtected>>

\* Mutant: the name is saved with every other column as it was loaded.
StoredRow(f) == f.key

\* existing.save(update_fields=("username",)) leaves the ciphertext alone.
SavedRow(f) == IF f.part = "password" THEN f.key ELSE secretKey[f.row]

\* A row the command has locked makes the request wait.
StoreCredential(p) ==
    /\ saving[p] # NotSaving
    /\ saving[p].row \notin rotating
    /\ secretKey' = [secretKey EXCEPT ![saving[p].row] = SavedRow(saving[p])]
    /\ saving' = [saving EXCEPT ![p] = NotSaving]
    /\ UNCHANGED <<keyEnv, rotating, stage, zipProtected>>

\* Another provider is chosen: the stored password goes.
DeleteCredential(s) ==
    /\ s \notin rotating
    /\ secretKey[s] # 0
    /\ secretKey' = [secretKey EXCEPT ![s] = 0]
    /\ UNCHANGED <<keyEnv, saving, rotating, stage, zipProtected>>

\* DownloadEncryptionSettingsForm.clean
WillHavePassword(remove, set) == (secretKey[DownloadKey] # 0 /\ ~ remove) \/ set

\* AdvancedSettingsView.post holds the settings row from the form's look at
\* the password to the commit.
SaveDownloadEncryption(p) ==
    /\ DownloadKey \notin rotating
    /\ \E remove, set, enable \in BOOLEAN :
          /\ ~ (remove /\ set)
          /\ enable => WillHavePassword(remove, set)
          /\ zipProtected' = enable
          /\ secretKey' = [secretKey EXCEPT ![DownloadKey] =
                IF remove THEN 0 ELSE IF set THEN ActiveVersion(p) ELSE @]
    /\ UNCHANGED <<keyEnv, saving, rotating, stage>>

-----------------------------------------------------------------------------
(* The rotation *)

Restart(p, env) ==
    /\ keyEnv' = [keyEnv EXCEPT ![p] = env]
    /\ saving' = [saving EXCEPT ![p] = NotSaving]
    /\ UNCHANGED <<secretKey, rotating, stage, zipProtected>>

\* Step 3: the new key becomes active, the old one stays readable.
RestartWithBoth(p) == stage = "before" /\ keyEnv[p] = "old" /\ Restart(p, "both")

\* Steps 4 and 5: --apply locks the rows and decrypts them.
RotateBegin(p) ==
    /\ stage = "before"
    /\ \A q \in Processes : keyEnv[q] = "both"
    /\ \A s \in SecretRows : Decrypts(p, s)
    /\ rotating' = {s \in SecretRows : secretKey[s] # 0}
    /\ stage' = "applying"
    /\ UNCHANGED <<keyEnv, secretKey, saving, zipProtected>>

\* The rows are re-encrypted; a row that appeared meanwhile on the old key, or
\* an error, rolls everything back.
RotateCommit ==
    /\ stage = "applying"
    /\ \/ /\ PendingRotation \subseteq rotating
          /\ secretKey' = [s \in SecretRows |-> IF s \in rotating THEN 2 ELSE secretKey[s]]
          /\ stage' = "applied"
       \/ /\ stage' = "before"
          /\ UNCHANGED secretKey
    /\ rotating' = {}
    /\ UNCHANGED <<keyEnv, saving, zipProtected>>

\* Step 6: the dry run must report pending_rotation=0.
DryRun(p) ==
    /\ stage = "applied"
    /\ \A s \in SecretRows : Decrypts(p, s)
    /\ stage' = IF PendingRotation = {} THEN "verified" ELSE "before"
    /\ UNCHANGED <<keyEnv, secretKey, saving, rotating, zipProtected>>

\* Step 8: the old key is removed.
RestartWithNew(p) == stage = "verified" /\ keyEnv[p] = "both" /\ Restart(p, "new")

SecretsNext ==
    \/ \E p \in Processes :
          \/ \E s \in Passwords : LoadCredential(p, s)
          \/ StoreCredential(p) \/ SaveDownloadEncryption(p)
          \/ RestartWithBoth(p) \/ RotateBegin(p) \/ DryRun(p) \/ RestartWithNew(p)
    \/ \E s \in Passwords : DeleteCredential(s)
    \/ RotateCommit

-----------------------------------------------------------------------------
\* Every process that was restarted for the rotation can read every secret, to
\* the end of the procedure and after it, whatever forms were under way: no
\* request brings back a ciphertext of the old key once the command has found
\* none.  Protected downloads always have a password.
SecretsReadable ==
    /\ \A p \in Processes : keyEnv[p] # "old" => \A s \in SecretRows : Decrypts(p, s)
    /\ zipProtected => secretKey[DownloadKey] # 0
=============================================================================
