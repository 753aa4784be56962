---------------------------- MODULE CaseDocument ----------------------------
(***************************************************************************)
(* The run document as it would be if a writer read it, decided and wrote  *)
(* in one step.                                                            *)
(*                                                                         *)
(* In the program every writer reads the document, lets awaits pass (a     *)
(* provider's call, a language model, checks) and writes what it made of   *)
(* the reading, unless the version has moved.  This module is what that    *)
(* comes to: each version follows from the one before it by a rewrite that *)
(* its writer is allowed to make of that very version.                     *)
(***************************************************************************)
EXTENDS CaseRuns

VARIABLES
    doc,      \* the document of the case, the last there was
    gone,     \* it has been deleted
    expired,  \* the approval has run out
    permitted \* the approved plan lets be shared what its follow-ups share

vars == <<doc, gone, expired, permitted>>

Init ==
    /\ doc = ActivatedRun
    /\ gone = FALSE
    /\ expired = FALSE
    /\ permitted \in BOOLEAN

Becomes(next) ==
    /\ ~gone
    /\ doc' = next
    /\ UNCHANGED <<gone, expired, permitted>>

\* The runner, on an action of the plan or past the last one.
Attempt ==
    /\ doc.state \in Dispatchable
    /\ doc.ordinal <= MaxLogicalSends
    /\ \/ permitted /\ Becomes(Sent(doc))
       \/ permitted /\ doc.attempts + 1 < MaxAttempts /\ Becomes(Retried(doc))
       \/ permitted /\ doc.attempts + 1 >= MaxAttempts /\ Becomes(RecoveryExhausted(doc))
       \/ (expired \/ ~permitted) /\ Becomes(Denied(doc))

Exhaust ==
    /\ doc.state \in Dispatchable
    /\ doc.ordinal > MaxLogicalSends
    /\ Becomes(BudgetExhausted(doc))

\* The evidence service.
Answer(verdict) ==
    /\ doc.state = "WAITING_EXTERNAL"
    /\ Becomes(Evidenced(doc, verdict))

\* A bounce, complaint or suppression.
LoseRoute ==
    /\ doc.state \notin {"DONE", "CANCELLED"}
    /\ Becomes(Bounced(doc))

\* The owner.
Command(command) ==
    /\ CommandAllowed(doc, expired, command)
    /\ Becomes(Controlled(doc, command))

Erase == ~gone /\ gone' = TRUE /\ UNCHANGED <<doc, expired, permitted>>

\* The clock.
Expire == ~expired /\ expired' = TRUE /\ UNCHANGED <<doc, gone, permitted>>

Next ==
    \/ Attempt
    \/ Exhaust
    \/ \E verdict \in Verdicts : Answer(verdict)
    \/ LoseRoute
    \/ \E command \in Commands : Command(command)
    \/ Erase
    \/ Expire

Spec == Init /\ [][Next]_vars

-----------------------------------------------------------------------------
\* Work and completion stand under the approval, and only a case that has sent something
\* waits for an answer or is closed by one.  A plan whose follow-ups the policy refuses
\* never sends any.
Sound ==
    /\ doc \in Run
    /\ doc.state \in Dispatchable \cup {"DONE"} => ~doc.revoked
    /\ doc.state \in {"WAITING_EXTERNAL", "DONE"} => doc.ordinal > 1
    /\ doc.ordinal > 1 => permitted

\* One version at a time, actions counted in their order, and no way back from a withdrawal.
Forward ==
    [][/\ doc' # doc => doc'.version = doc.version + 1
       /\ doc'.ordinal \in {doc.ordinal, doc.ordinal + 1}
       /\ doc'.state = "DONE" => doc.state \in {"DONE", "WAITING_EXTERNAL"}
       /\ doc.revoked => /\ doc'.revoked
                         /\ doc'.ordinal = doc.ordinal
                         /\ doc'.state \notin Dispatchable \cup {"DONE"}]_vars
=============================================================================
