---------------------------- MODULE CaseLifecycle ----------------------------
(***************************************************************************)
(* What DueBack promises about one approved case, without workers,         *)
(* versions, tasks or documents.                                           *)
(*                                                                         *)
(* A live case has the owner's authority and works through a bounded       *)
(* number of logical actions, one at a time.  The counterparty may have    *)
(* acted on the action under way before the case counts it, also when the  *)
(* case is no longer live by then: a request in flight cannot be called    *)
(* back.  But the case never counts what was not done, and withdrawn       *)
(* authority never comes back.                                             *)
(***************************************************************************)
EXTENDS Integers

CONSTANT MaxActions  \* logical actions the approved plan allows

VARIABLES
    phase,      \* where the case stands
    performed,  \* how many logical actions the case has counted
    acted,      \* which logical actions the counterparty has acted on
    authority   \* the owner's approval has not been withdrawn

vars == <<phase, performed, acted, authority>>

Phases == {"Live", "Attention", "Done", "Cancelled", "Expired", "Failed", "Gone"}

LifecycleTypeOK ==
    /\ phase \in Phases
    /\ performed \in 0..MaxActions
    /\ acted \subseteq 1..MaxActions
    /\ authority \in BOOLEAN

Init ==
    /\ phase = "Live"
    /\ performed = 0
    /\ acted = {}
    /\ authority = TRUE

\* The counterparty acts, at most one action ahead of what the case has counted.
Act(k) ==
    /\ k \in 1..MaxActions
    /\ k <= performed + 1
    /\ acted' = acted \cup {k}
    /\ UNCHANGED <<phase, performed, authority>>

\* The case counts the action under way.
Count ==
    /\ phase = "Live"
    /\ performed + 1 \in acted
    /\ performed' = performed + 1
    /\ UNCHANGED <<phase, acted, authority>>

MoveTo(p) ==
    /\ phase' = p
    /\ UNCHANGED <<performed, acted, authority>>

\* Only a live case that has contacted the counterparty can be completed.
Complete == phase = "Live" /\ performed > 0 /\ MoveTo("Done")

Fail == phase = "Live" /\ MoveTo("Failed")

\* The owner is asked.  A failed contact route also does this to a case that
\* expired or failed.
Ask == phase \in {"Live", "Expired", "Failed"} /\ MoveTo("Attention")

Reopen == phase = "Done" /\ MoveTo("Attention")

Resume == phase = "Attention" /\ authority /\ MoveTo("Live")

Withdraw ==
    /\ phase \notin {"Done", "Gone"}
    /\ phase' \in {"Cancelled", "Expired"}
    /\ authority' = FALSE
    /\ UNCHANGED <<performed, acted>>

Erase == phase # "Gone" /\ MoveTo("Gone")

Next ==
    \/ \E k \in 1..MaxActions : Act(k)
    \/ Count
    \/ Complete
    \/ Fail
    \/ Ask
    \/ Reopen
    \/ Resume
    \/ Withdraw
    \/ Erase

Spec == Init /\ [][Next]_vars

-----------------------------------------------------------------------------

\* A live case acts for the owner only under the approval that was given, and what
\* was done is what was counted plus at most the action under way.
LiveUnderAuthority ==
    /\ phase = "Live" => authority
    /\ 1..performed \subseteq acted
    /\ acted \subseteq 1..(performed + 1)
=============================================================================
