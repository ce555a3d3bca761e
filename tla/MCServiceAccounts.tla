-------------------------- MODULE MCServiceAccounts --------------------------
(* ServiceAccounts for TLC. *)
EXTENDS ServiceAccounts
==============================================================================
