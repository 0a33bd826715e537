--------------------------- MODULE MCLocalCleanup ---------------------------
(* Instances of LocalCleanup for TLC. *)
EXTENDS LocalCleanup, TLC

\* Calls are interchangeable.
Symmetry == Permutations(Ops)
=============================================================================
