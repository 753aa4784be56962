------------------------------ MODULE CaseRuns ------------------------------
(***************************************************************************)
(* The caseRuns document of one approved case and every rewrite of it.     *)
(*                                                                         *)
(* A run document is the only authority on what a case does next.  It is   *)
(* rewritten by the case runner, by the evidence service, by the owner's   *)
(* control commands and by transport events.  This module gives the        *)
(* document and, for each writer, the document it writes; FollowThrough    *)
(* says when each of them is written.                                      *)
(*                                                                         *)
(* Fields kept: state, version, ordinal (actionOrdinal), attempts          *)
(* (attemptCount), wake (nextWakeAt is present) and revoked                *)
(* (approval.revokedAt is present).                                        *)
(*                                                                         *)
(* A definition marked "Mutant" is a plausible mistake in the definition   *)
(* it precedes; it is used only to see that a run notices the mistake.     *)
(***************************************************************************)
EXTENDS Integers

CONSTANTS
    MaxLogicalSends,  \* plan.maxLogicalSends, 3 in the product
    MaxAttempts       \* CaseRunner.maxAttempts, 5 in the product

ASSUME LimitsAssumption ==
    /\ MaxLogicalSends \in Nat \ {0}
    /\ MaxAttempts \in Nat \ {0}

-----------------------------------------------------------------------------

\* States a run document can hold.  RUNNING and the states of a draft exist in
\* the CaseState type, but nothing writes them to a run.
RunStates == {"READY", "WAITING_RETRY", "WAITING_EXTERNAL", "NEEDS_ATTENTION",
              "DONE", "CANCELLED", "EXPIRED", "FAILED"}

\* The states in which the runner executes a due wake.
Dispatchable == {"READY", "WAITING_RETRY", "WAITING_EXTERNAL"}

Run == [state : RunStates, version : Nat, ordinal : 1..(MaxLogicalSends + 1),
        attempts : Nat, wake : BOOLEAN, revoked : BOOLEAN]

\* The document that plan approval creates.  It carries dueAt but no nextWakeAt.
ActivatedRun ==
    [state |-> "READY", version |-> 1, ordinal |-> 1, attempts |-> 0,
     wake |-> FALSE, revoked |-> FALSE]

\* The next version of the document, in state s, with or without nextWakeAt.
Moved(r, s, wake) ==
    [state |-> s, version |-> r.version + 1, ordinal |-> r.ordinal,
     attempts |-> r.attempts, wake |-> wake, revoked |-> r.revoked]

-----------------------------------------------------------------------------
\* What the case runner writes.

\* After a receipt: next ordinal, follow-up wake.  The document is rebuilt, so
\* attemptCount and lastError do not survive.
Sent(r) ==
    [state |-> "WAITING_EXTERNAL", version |-> r.version + 1,
     ordinal |-> r.ordinal + 1, attempts |-> 0, wake |-> TRUE, revoked |-> r.revoked]

\* The catch block counts the failed attempt.
Attempted(r, s, wake) == [Moved(r, s, wake) EXCEPT !.attempts = r.attempts + 1]

\* Mutant: a state the type has and the runner never dispatches.
RetriedAsRunning(r) == Attempted(r, "RUNNING", TRUE)

\* After a failed attempt with allowance left: same ordinal, retry wake.
Retried(r) == Attempted(r, "WAITING_RETRY", TRUE)

\* After the failed attempt that reaches maxAttempts.
RecoveryExhausted(r) == Attempted(r, "NEEDS_ATTENTION", r.wake)

\* When every logical action of the plan has been used.
BudgetExhausted(r) == Moved(r, "NEEDS_ATTENTION", FALSE)

\* When authorizeAction denies the proposal.
Denied(r) == Moved(r, "FAILED", r.wake)

-----------------------------------------------------------------------------
\* What the evidence service writes for a verified candidate.

Verdicts == {"ACCEPTED", "INSUFFICIENT", "CONFLICT"}

\* Mutant: any candidate without a contradiction closes the case.
StateForLenient(verdict) == IF verdict = "CONFLICT" THEN "NEEDS_ATTENTION" ELSE "DONE"

StateFor(verdict) ==
    CASE verdict = "ACCEPTED"     -> "DONE"
      [] verdict = "INSUFFICIENT" -> "WAITING_EXTERNAL"
      [] verdict = "CONFLICT"     -> "NEEDS_ATTENTION"

Evidenced(r, verdict) == Moved(r, StateFor(verdict), verdict = "INSUFFICIENT")

-----------------------------------------------------------------------------
\* What a bounce, complaint or suppression of a sent message writes.

\* Mutant: the update leaves the version alone.
BouncedInPlace(r) == [r EXCEPT !.state = "NEEDS_ATTENTION"]

Bounced(r) == Moved(r, "NEEDS_ATTENTION", r.wake)

-----------------------------------------------------------------------------
\* What the owner's commands write.  DELETE removes the document instead.

Commands == {"STOP", "REVOKE", "EXPIRE", "REVISE", "REOPEN", "RESUME"}

\* Mutant: RESUME forgets to ask whether the approval was revoked.
CommandAllowedOnRevoked(r, expired, command) ==
    CASE command \in {"STOP", "REVOKE", "EXPIRE"} -> r.state # "DONE"
      [] command = "REVISE" -> r.state \notin {"DONE", "CANCELLED", "EXPIRED"}
      [] command = "REOPEN" -> r.state = "DONE"
      [] command = "RESUME" -> r.state = "NEEDS_ATTENTION" /\ ~expired

\* The checks CaseControlService.command makes before it opens a transaction.
CommandAllowed(r, expired, command) ==
    CASE command \in {"STOP", "REVOKE", "EXPIRE"} -> r.state # "DONE"
      [] command = "REVISE" -> r.state \notin {"DONE", "CANCELLED", "EXPIRED"}
      [] command = "REOPEN" -> r.state = "DONE"
      [] command = "RESUME" -> /\ r.state = "NEEDS_ATTENTION"
                               /\ ~r.revoked
                               /\ ~expired

\* The approval carries revokedAt from now on.
Withdrawn(r, s) == [Moved(r, s, r.wake) EXCEPT !.revoked = TRUE]

Controlled(r, command) ==
    CASE command = "REOPEN" -> Moved(r, "NEEDS_ATTENTION", r.wake)
      [] command = "RESUME" -> Moved(r, "READY", TRUE)
      [] command = "EXPIRE" -> Withdrawn(r, "EXPIRED")
      [] command \in {"STOP", "REVOKE", "REVISE"} -> Withdrawn(r, "CANCELLED")
=============================================================================
