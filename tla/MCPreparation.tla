---------------------------- MODULE MCPreparation ---------------------------
(***************************************************************************)
(* Small instances of Preparation for TLC.                                 *)
(***************************************************************************)
EXTENDS Preparation
=============================================================================
