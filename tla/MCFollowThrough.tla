--------------------------- MODULE MCFollowThrough ---------------------------
(***************************************************************************)
(* Small instances of FollowThrough for TLC.                               *)
(***************************************************************************)
EXTENDS FollowThrough, TLC

\* Invocations are interchangeable, and so are evidence identities.  Used for the
\* safety runs only.
Interchangeable ==
    Permutations(Workers) \cup Permutations(Handlers) \cup Permutations(EvidenceIds)
=============================================================================
