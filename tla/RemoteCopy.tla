------------------------------ MODULE RemoteCopy ------------------------------
(***************************************************************************)
(* What a remote storage promises about the copy of one revision, however  *)
(* the copy is made: the plugin says that the copy is stored only when it  *)
(* is complete, and that it is gone only when nothing is left of it.       *)
(* Replication (the database row and its jobs) and RemoteTransfer (the     *)
(* files on the server) both implement this specification.                 *)
(***************************************************************************)
VARIABLES
    copy,    \* what is on the server: nothing, some of it, all of it
    intact,  \* nobody removed or altered files since the upload
    claim    \* what the database says: nothing, "stored" or "gone"

vars == <<copy, intact, claim>>

Init == copy = "none" /\ intact = TRUE /\ claim = "none"

\* An upload begins, or is given up: nothing is claimed any more.
Withdraw == claim' = "none" /\ intact' \in {intact, TRUE} /\ UNCHANGED copy

\* An upload adds files; it never removes one.
Upload ==
    /\ copy' \in IF copy = "whole" THEN {"whole"} ELSE {"part", "whole"}
    /\ intact' = intact \/ (copy' = "whole" /\ intact' = TRUE)
    /\ UNCHANGED claim

Confirm ==
    /\ copy = "whole" \/ ~ intact
    /\ claim' = "stored"
    /\ UNCHANGED <<copy, intact>>

\* Retention or a deletion at work, or a loss of the server.
Erase ==
    /\ copy # "none"
    /\ copy' \in {"part", "none"}
    /\ intact' = FALSE
    /\ UNCHANGED claim

Bury == copy = "none" /\ claim' = "gone" /\ UNCHANGED <<copy, intact>>

Next == Withdraw \/ Upload \/ Confirm \/ Erase \/ Bury

Spec == Init /\ [][Next]_vars
=============================================================================
