---------------------------- MODULE MCScheduling ----------------------------
(* Scheduling for TLC in a zone that falls back, four units a day. *)
EXTENDS Scheduling

MCBackoff == <<1, 2>>
MCIntervals == {2, 3}
=============================================================================
