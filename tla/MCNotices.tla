----------------------------- MODULE MCNotices ------------------------------
(***************************************************************************)
(* Small instances of Notices for TLC.                                     *)
(***************************************************************************)
EXTENDS Notices
=============================================================================
