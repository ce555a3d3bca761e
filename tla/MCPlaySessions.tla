---------------------------- MODULE MCPlaySessions ----------------------------
(* PlaySessions for TLC. *)
EXTENDS PlaySessions
==============================================================================
