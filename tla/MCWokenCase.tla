---------------------------- MODULE MCWokenCase ----------------------------
(***************************************************************************)
(* Small instances of WokenCase for TLC.                                   *)
(***************************************************************************)
EXTENDS WokenCase, TLC
=============================================================================
