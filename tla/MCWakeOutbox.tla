---------------------------- MODULE MCWakeOutbox ----------------------------
(***************************************************************************)
(* Small instances of WakeOutbox for TLC.                                  *)
(***************************************************************************)
EXTENDS WakeOutbox, TLC

\* Invocations are interchangeable.  Used for the safety runs only.
Interchangeable == Permutations(Invocations)
=============================================================================
