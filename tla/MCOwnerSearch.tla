---------------------------- MODULE MCOwnerSearch ----------------------------
(***************************************************************************)
(* Small instances of OwnerSearch for TLC.                                 *)
(***************************************************************************)
EXTENDS OwnerSearch
==============================================================================
