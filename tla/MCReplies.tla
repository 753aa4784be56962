----------------------------- MODULE MCReplies ------------------------------
(***************************************************************************)
(* Small instances of Replies for TLC.                                     *)
(***************************************************************************)
EXTENDS Replies
=============================================================================
