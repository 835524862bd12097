---------------------------- MODULE MCMiAccount ----------------------------
(***************************************************************************)
(* TLC instance of MiAccount: two operations at once.                      *)
(***************************************************************************)
EXTENDS MiAccount
CONSTANTS o1, o2
=============================================================================
