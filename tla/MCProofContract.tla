-------------------------- MODULE MCProofContract ---------------------------
(***************************************************************************)
(* Small instances of ProofContract for TLC.                               *)
(***************************************************************************)
EXTENDS ProofContract
=============================================================================
