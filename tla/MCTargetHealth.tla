--------------------------- MODULE MCTargetHealth ---------------------------
(* Instances of TargetHealth for TLC. *)
EXTENDS TargetHealth
=============================================================================
