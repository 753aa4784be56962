---------------------------- MODULE MCActivation ----------------------------
(***************************************************************************)
(* Small instances of Activation for TLC.                                  *)
(***************************************************************************)
EXTENDS Activation, TLC

\* Requests are interchangeable, and so are keys.
Interchangeable == Permutations(Requests) \cup Permutations(Keys)
=============================================================================
