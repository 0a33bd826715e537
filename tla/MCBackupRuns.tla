---------------------------- MODULE MCBackupRuns ----------------------------
(* Small instances of BackupRuns for TLC. *)
EXTENDS BackupRuns, TLC

\* Runs, contents and artifacts are interchangeable.
Symmetry == Permutations(Runs) \cup Permutations(Contents)
            \cup Permutations(Artifacts)
=============================================================================
