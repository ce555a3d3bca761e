---------------------------- MODULE MCInputBroker ----------------------------
(* InputBroker for TLC: two connections compete for the roles and for capture. *)
EXTENDS InputBroker, TLC
==============================================================================
