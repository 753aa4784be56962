--------------------------- MODULE CaseRunsProofs ---------------------------
(***************************************************************************)
(* What each rewrite of CaseRuns keeps and changes of the run document.    *)
(***************************************************************************)
EXTENDS CaseRuns, TLAPS

LEMMA RunFields ==
    ASSUME NEW r \in Run
    PROVE  /\ r.wake \in BOOLEAN
           /\ r.revoked \in BOOLEAN
           /\ r.version \in Nat
           /\ r.attempts \in Nat
           /\ r.state \in RunStates
           /\ r.ordinal \in 1..(MaxLogicalSends + 1)
BY DEF Run

LEMMA ActivatedRunType == ActivatedRun \in Run
BY LimitsAssumption DEF ActivatedRun, Run, RunStates

\* Every rewrite moves the version by one; most keep the ordinal and the approval.
LEMMA MovedFields ==
    ASSUME NEW r \in Run, NEW s \in RunStates, NEW wake \in BOOLEAN
    PROVE  /\ Moved(r, s, wake) \in Run
           /\ Moved(r, s, wake).version = r.version + 1
           /\ Moved(r, s, wake).state = s
           /\ Moved(r, s, wake).ordinal = r.ordinal
           /\ Moved(r, s, wake).revoked = r.revoked
BY DEF Run, Moved

LEMMA AttemptedFields ==
    ASSUME NEW r \in Run, NEW s \in RunStates, NEW wake \in BOOLEAN
    PROVE  /\ Attempted(r, s, wake) \in Run
           /\ Attempted(r, s, wake).version = r.version + 1
           /\ Attempted(r, s, wake).state = s
           /\ Attempted(r, s, wake).ordinal = r.ordinal
           /\ Attempted(r, s, wake).revoked = r.revoked
<1> DEFINE m == Moved(r, s, wake)
<1>1. /\ m \in Run
      /\ m.version = r.version + 1
      /\ m.state = s
      /\ m.ordinal = r.ordinal
      /\ m.revoked = r.revoked
  BY MovedFields
<1>2. Attempted(r, s, wake) = [m EXCEPT !.attempts = r.attempts + 1]
  BY DEF Attempted
<1> HIDE DEF m
<1> QED
  BY <1>1, <1>2, RunFields DEF Run

LEMMA WithdrawnFields ==
    ASSUME NEW r \in Run, NEW s \in RunStates
    PROVE  /\ Withdrawn(r, s) \in Run
           /\ Withdrawn(r, s).version = r.version + 1
           /\ Withdrawn(r, s).state = s
           /\ Withdrawn(r, s).ordinal = r.ordinal
           /\ Withdrawn(r, s).revoked
<1> DEFINE m == Moved(r, s, r.wake)
<1>1. /\ m \in Run
      /\ m.version = r.version + 1
      /\ m.state = s
      /\ m.ordinal = r.ordinal
  BY MovedFields, RunFields
<1>2. Withdrawn(r, s) = [m EXCEPT !.revoked = TRUE]
  BY DEF Withdrawn
<1> HIDE DEF m
<1> QED
  BY <1>1, <1>2 DEF Run

\* The runner's rewrites other than Sent keep the ordinal and the approval.
LEMMA RunnerRewrites ==
    ASSUME NEW r \in Run,
           NEW next \in {Retried(r), RecoveryExhausted(r), BudgetExhausted(r), Denied(r)}
    PROVE  /\ next \in Run
           /\ next.version = r.version + 1
           /\ next.state \in {"WAITING_RETRY", "NEEDS_ATTENTION", "FAILED"}
           /\ next.ordinal = r.ordinal
           /\ next.revoked = r.revoked
<1>0. /\ r.wake \in BOOLEAN /\ TRUE \in BOOLEAN /\ FALSE \in BOOLEAN
      /\ {"WAITING_RETRY", "NEEDS_ATTENTION", "FAILED"} \subseteq RunStates
  BY RunFields DEF RunStates
<1>1. CASE next = Retried(r)
  BY <1>0, <1>1, AttemptedFields DEF Retried
<1>2. CASE next = RecoveryExhausted(r)
  BY <1>0, <1>2, AttemptedFields DEF RecoveryExhausted
<1>3. CASE next = BudgetExhausted(r)
  BY <1>0, <1>3, MovedFields DEF BudgetExhausted
<1>4. CASE next = Denied(r)
  BY <1>0, <1>4, MovedFields DEF Denied
<1> QED
  BY <1>1, <1>2, <1>3, <1>4

LEMMA RunnerStates ==
    ASSUME NEW r \in Run
    PROVE  /\ Retried(r).state = "WAITING_RETRY"
           /\ RecoveryExhausted(r).state = "NEEDS_ATTENTION"
           /\ BudgetExhausted(r).state = "NEEDS_ATTENTION"
           /\ Denied(r).state = "FAILED"
<1>1. /\ r.wake \in BOOLEAN /\ TRUE \in BOOLEAN /\ FALSE \in BOOLEAN
      /\ {"WAITING_RETRY", "NEEDS_ATTENTION", "FAILED"} \subseteq RunStates
  BY RunFields DEF RunStates
<1>2. Retried(r).state = "WAITING_RETRY" /\ RecoveryExhausted(r).state = "NEEDS_ATTENTION"
  BY <1>1, AttemptedFields DEF Retried, RecoveryExhausted
<1>3. BudgetExhausted(r).state = "NEEDS_ATTENTION" /\ Denied(r).state = "FAILED"
  BY <1>1, MovedFields DEF BudgetExhausted, Denied
<1> QED
  BY <1>2, <1>3

\* The rewrites of evidence and transport events keep ordinal and approval.
LEMMA EventRewrites ==
    ASSUME NEW r \in Run, NEW verdict \in Verdicts
    PROVE  /\ Evidenced(r, verdict) \in Run
           /\ Evidenced(r, verdict).version = r.version + 1
           /\ Evidenced(r, verdict).state = StateFor(verdict)
           /\ Evidenced(r, verdict).ordinal = r.ordinal
           /\ Evidenced(r, verdict).revoked = r.revoked
           /\ Bounced(r) \in Run
           /\ Bounced(r).version = r.version + 1
           /\ Bounced(r).state = "NEEDS_ATTENTION"
           /\ Bounced(r).ordinal = r.ordinal
           /\ Bounced(r).revoked = r.revoked
<1>1. StateFor(verdict) \in RunStates
  BY DEF StateFor, Verdicts, RunStates
<1>2. "NEEDS_ATTENTION" \in RunStates
  BY DEF RunStates
<1>3. (verdict = "INSUFFICIENT") \in BOOLEAN /\ r.wake \in BOOLEAN
  BY RunFields
<1>4. /\ Evidenced(r, verdict) \in Run
      /\ Evidenced(r, verdict).version = r.version + 1
      /\ Evidenced(r, verdict).state = StateFor(verdict)
      /\ Evidenced(r, verdict).ordinal = r.ordinal
      /\ Evidenced(r, verdict).revoked = r.revoked
  BY <1>1, <1>3, MovedFields, Zenon DEF Evidenced
<1> QED
  BY <1>2, <1>3, <1>4, MovedFields, Zenon DEF Bounced

\* The owner's commands keep the ordinal; they only ever withdraw the approval, and
\* only RESUME makes the case dispatchable.
LEMMA ControlRewrites ==
    ASSUME NEW r \in Run, NEW command \in Commands
    PROVE  /\ Controlled(r, command) \in Run
           /\ Controlled(r, command).version = r.version + 1
           /\ Controlled(r, command).ordinal = r.ordinal
           /\ command = "REOPEN" => /\ Controlled(r, command).state = "NEEDS_ATTENTION"
                                    /\ Controlled(r, command).revoked = r.revoked
           /\ command = "RESUME" => /\ Controlled(r, command).state = "READY"
                                    /\ Controlled(r, command).revoked = r.revoked
           /\ command \notin {"REOPEN", "RESUME"} =>
                /\ Controlled(r, command).state \in {"CANCELLED", "EXPIRED"}
                /\ Controlled(r, command).revoked
<1>0. /\ r.wake \in BOOLEAN /\ TRUE \in BOOLEAN
      /\ {"NEEDS_ATTENTION", "READY", "CANCELLED", "EXPIRED"} \subseteq RunStates
  BY RunFields DEF RunStates
<1>1. CASE command = "REOPEN"
  <2> DEFINE next == Moved(r, "NEEDS_ATTENTION", r.wake)
  <2>1. Controlled(r, command) = next
    BY <1>1 DEF Controlled
  <2>2. /\ next \in Run
        /\ next.version = r.version + 1
        /\ next.ordinal = r.ordinal
        /\ next.state = "NEEDS_ATTENTION"
        /\ next.revoked = r.revoked
    BY <1>0, MovedFields
  <2> QED
    BY <1>1, <2>1, <2>2, Zenon
<1>2. CASE command = "RESUME"
  <2> DEFINE next == Moved(r, "READY", TRUE)
  <2>1. Controlled(r, command) = next
    BY <1>2 DEF Controlled
  <2>2. /\ next \in Run
        /\ next.version = r.version + 1
        /\ next.ordinal = r.ordinal
        /\ next.state = "READY"
        /\ next.revoked = r.revoked
    BY <1>0, MovedFields
  <2> QED
    BY <1>2, <2>1, <2>2, Zenon
<1>3. CASE command = "EXPIRE"
  <2> DEFINE next == Withdrawn(r, "EXPIRED")
  <2>1. Controlled(r, command) = next
    BY <1>3 DEF Controlled
  <2>2. /\ next \in Run
        /\ next.version = r.version + 1
        /\ next.ordinal = r.ordinal
        /\ next.state = "EXPIRED"
        /\ next.revoked 
    BY <1>0, WithdrawnFields
  <2> QED
    BY <1>3, <2>1, <2>2, Zenon
<1>4. CASE command \in {"STOP", "REVOKE", "REVISE"}
  <2> DEFINE next == Withdrawn(r, "CANCELLED")
  <2>1. Controlled(r, command) = next
    BY <1>4 DEF Controlled
  <2>2. /\ next \in Run
        /\ next.version = r.version + 1
        /\ next.ordinal = r.ordinal
        /\ next.state = "CANCELLED"
        /\ next.revoked 
    BY <1>0, WithdrawnFields
  <2> QED
    BY <1>4, <2>1, <2>2, Zenon
<1> QED
  BY <1>1, <1>2, <1>3, <1>4 DEF Commands
=============================================================================
