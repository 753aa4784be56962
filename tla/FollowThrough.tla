---------------------------- MODULE FollowThrough ----------------------------
(***************************************************************************)
(* One approved case followed through to its end: the workers that run     *)
(* CaseRunner and ActionBroker, the handlers that run EvidenceService, the *)
(* owner's control commands, transport events, and the Firestore documents *)
(* they share.                                                             *)
(*                                                                         *)
(* Every Firestore transaction is one step and everything between two      *)
(* awaits is local, so a worker is a small program whose steps interleave  *)
(* with those of every other actor.  What it read it keeps in snap, and    *)
(* acts on it however old it has become.                                   *)
(*                                                                         *)
(* Cloud Tasks delivers at least once, late, and in any order: here a task *)
(* for a version may be delivered any number of times once the version has *)
(* a wake intent.  (WakeOutbox has the queue itself, WokenCase the wakes   *)
(* that a delivery answers without serving them.)                          *)
(***************************************************************************)
EXTENDS CaseRuns, FiniteSets

CONSTANTS
    Workers,      \* Cloud Run invocations of the run-case task
    Handlers,     \* Cloud Run invocations that reconcile evidence
    EvidenceIds,  \* identities of the candidates the counterparty sends
    FaultKinds,   \* which faults happen: subset of {"crash", "storage", "unknown"}
    MaxFaults,    \* bound: how many faults happen
    MaxControls,  \* bound: how many control commands the owner gets through
    MaxBounces    \* bound: how many negative transport events arrive

ASSUME BoundsAssumption ==
    /\ FaultKinds \subseteq {"crash", "storage", "unknown"}
    /\ MaxFaults \in Nat
    /\ MaxControls \in Nat
    /\ MaxBounces \in Nat

VARIABLES
    run,           \* caseRuns/{caseId}
    deleted,       \* the document is gone, a deletion tombstone stands for it
    expired,       \* approval.expiresAt has passed
    permitted,     \* the approved plan lets be shared what its follow-ups share
    record,        \* actionRecords: status of the record of each ordinal's key
    reached,       \* keys whose request the provider acted on
    pc, snap,      \* each worker's next step and the document it read
    hpc, hver,     \* each handler's next step and the version it read
    evidence,      \* caseRuns/{caseId}/evidence: verdict stored per identity
    events,        \* versions that caseRuns/{caseId}/events tells of
    intents,       \* wakeIntents: versions that have one
    interventions, \* kinds of intervention opened for the owner
    faults, controls, bounces \* how much of each bound is used

storeVars   == <<run, deleted, events, intents>>
approvalVars == <<expired, permitted>>
actionVars  == <<record, reached>>
workerVars  == <<pc, snap>>
handlerVars == <<hpc, hver>>
boundVars   == <<faults, controls, bounces>>
vars == <<storeVars, approvalVars, actionVars, workerVars, handlerVars, evidence,
          interventions, boundVars>>

-----------------------------------------------------------------------------

Ordinals == 1..MaxLogicalSends

WorkerSteps == {"idle", "reserve", "call", "settle", "unknown", "release",
                "publish", "recover", "exhaust", "deny", "raise"}
HandlerSteps == {"idle", "record", "raise"}

InterventionKinds == {"ACTION_BUDGET_EXHAUSTED", "RECOVERY_EXHAUSTED",
                      "EVIDENCE_CONFLICT", "EMAIL_ROUTE_UNAVAILABLE"}

NoVerdict == "NONE"

TypeOK ==
    /\ run \in Run
    /\ deleted \in BOOLEAN
    /\ expired \in BOOLEAN
    /\ permitted \in BOOLEAN
    /\ record \in [Ordinals -> {"ABSENT", "RESERVED", "UNKNOWN", "SUCCEEDED"}]
    /\ reached \subseteq Ordinals
    /\ pc \in [Workers -> WorkerSteps]
    /\ snap \in [Workers -> Run]
    /\ hpc \in [Handlers -> HandlerSteps]
    /\ hver \in [Handlers -> Nat]
    /\ evidence \in [EvidenceIds -> Verdicts \cup {NoVerdict}]
    /\ events \subseteq Nat
    /\ intents \subseteq Nat
    /\ interventions \subseteq InterventionKinds
    /\ faults \in 0..MaxFaults
    /\ controls \in 0..MaxControls
    /\ bounces \in 0..MaxBounces

Init ==
    /\ run = ActivatedRun
    /\ deleted = FALSE
    /\ expired = FALSE
    /\ permitted \in BOOLEAN
    /\ record = [k \in Ordinals |-> "ABSENT"]
    /\ reached = {}
    /\ pc = [w \in Workers |-> "idle"]
    /\ snap = [w \in Workers |-> ActivatedRun]
    /\ hpc = [h \in Handlers |-> "idle"]
    /\ hver = [h \in Handlers |-> 0]
    /\ evidence = [e \in EvidenceIds |-> NoVerdict]
    /\ events = {1}
    /\ intents = {1}
    /\ interventions = {}
    /\ faults = 0
    /\ controls = 0
    /\ bounces = 0

-----------------------------------------------------------------------------
(***************************************************************************)
(* Transactions on the run document.                                       *)
(***************************************************************************)

\* Mutant: transactions that do not compare versions.
CurrentUnchecked(version) == ~deleted

\* compareAndSet, record, transition and beginReapproval all abort with
\* VERSION_CONFLICT (or CASE_NOT_FOUND) unless the version is the one they read.
Current(version) == ~deleted /\ run.version = version

\* Mutant: the wake is left to be scheduled after the transaction.
CommitForgettingWake(next, wake) ==
    /\ run' = next
    /\ events' = events \cup {next.version}
    /\ UNCHANGED <<deleted, intents>>

\* Mutant: the event is written only for versions with a wake.
CommitForgettingEvent(next, wake) ==
    /\ run' = next
    /\ events' = IF wake THEN events \cup {next.version} ELSE events
    /\ intents' = IF wake THEN intents \cup {next.version} ELSE intents
    /\ UNCHANGED deleted

\* The document, the event that tells of it and, if it has one, its wake intent
\* are written together.
Commit(next, wake) ==
    /\ run' = next
    /\ events' = events \cup {next.version}
    /\ intents' = IF wake THEN intents \cup {next.version} ELSE intents
    /\ UNCHANGED deleted

-----------------------------------------------------------------------------
(***************************************************************************)
(* A worker: CaseRunner.run around ActionBroker.execute.                   *)
(***************************************************************************)

Goto(w, step) ==
    /\ pc' = [pc EXCEPT ![w] = step]
    /\ UNCHANGED snap

\* The invocation ends; what it read goes with it.
Finish(w) ==
    /\ pc' = [pc EXCEPT ![w] = "idle"]
    /\ snap' = [snap EXCEPT ![w] = ActivatedRun]

Key(w) == snap[w].ordinal

\* authorizeAction.  The proposal is built from the plan that was approved, so of its
\* reasons two can arise: APPROVAL_EXPIRED (expired or revoked), and FIELD_NOT_ALLOWED,
\* when a revision before the approval asked to prove a fact that the list of fields
\* to share does not have (ProofContract has how).  Plan and run share nothing else
\* that could disagree, and the plan of a run does not change.
Authorized(r) == permitted /\ ~expired /\ ~r.revoked

\* A task for version v is delivered and its worker reads the case.  A task that
\* is stale or not due ends without touching this state.
Start(w, v) ==
    /\ pc[w] = "idle"
    /\ v \in intents
    /\ Current(v)
    /\ run.state \in Dispatchable
    /\ snap' = [snap EXCEPT ![w] = run]
    /\ \/ /\ run.ordinal > MaxLogicalSends
          /\ pc' = [pc EXCEPT ![w] = "exhaust"]
       \/ /\ run.ordinal \in Ordinals
          /\ Authorized(run)
          /\ pc' = [pc EXCEPT ![w] = "reserve"]
       \/ /\ run.ordinal \in Ordinals
          /\ ~Authorized(run)
          /\ pc' = [pc EXCEPT ![w] = "deny"]
    /\ UNCHANGED <<storeVars, approvalVars, actionVars, handlerVars, evidence,
                   interventions, boundVars>>

\* Mutants: a lookup that takes any record for a receipt, or none for a hindrance.
HasReceiptIfAny(k) == record[k] # "ABSENT"
FreeUnlessReceipt(k) == record[k] # "SUCCEEDED"

HasReceipt(k) == record[k] = "SUCCEEDED"

Free(k) == record[k] = "ABSENT"

\* store.reserve: a key that succeeded yields its receipt, one that is held by
\* anyone (or was left RESERVED or UNKNOWN) ends the run as ACTION_IN_FLIGHT.
Reserve(w) ==
    /\ pc[w] = "reserve"
    /\ \/ /\ HasReceipt(Key(w))
          /\ Goto(w, "publish")
          /\ UNCHANGED record
       \/ /\ ~HasReceipt(Key(w)) /\ ~Free(Key(w))
          /\ Finish(w)
          /\ UNCHANGED record
       \/ /\ Free(Key(w))
          /\ Goto(w, "call")
          /\ record' = [record EXCEPT ![Key(w)] = "RESERVED"]
    /\ UNCHANGED <<storeVars, approvalVars, reached, handlerVars, evidence,
                   interventions, boundVars>>

\* Every adapter sends the key along (Idempotency-Key), and a provider that has acted
\* on a key answers a repetition with the message it already has.
Reaches(k) == reached' = reached \cup {k}

\* The provider acts on the request and the adapter gets a receipt.
CallAccepted(w) ==
    /\ pc[w] = "call"
    /\ Reaches(Key(w))
    /\ Goto(w, "settle")
    /\ UNCHANGED <<storeVars, approvalVars, record, handlerVars, evidence,
                   interventions, boundVars>>

\* The send budget or the provider refuses: a plain error, nothing was done.
CallRefused(w) ==
    /\ pc[w] = "call"
    /\ Goto(w, "release")
    /\ UNCHANGED <<storeVars, approvalVars, actionVars, handlerVars, evidence,
                   interventions, boundVars>>

Fault(kind) ==
    /\ kind \in FaultKinds
    /\ faults < MaxFaults
    /\ faults' = faults + 1
    /\ UNCHANGED <<controls, bounces>>

\* The connection breaks, the provider answers 5xx or its receipt is malformed.
\* It may have acted; the adapter throws either ActionOutcomeUnknownError or, for
\* a body that does not parse and in the sandbox and partner adapters, a plain error.
CallOutcomeUnknown(w) ==
    /\ pc[w] = "call"
    /\ Fault("unknown")
    /\ Reaches(Key(w)) \/ UNCHANGED reached
    /\ Goto(w, "unknown") \/ Goto(w, "release")
    /\ UNCHANGED <<storeVars, approvalVars, record, handlerVars, evidence,
                   interventions>>

\* store.succeed: the receipt is stored over the reservation.
Settle(w) ==
    /\ pc[w] = "settle"
    /\ record' = [record EXCEPT ![Key(w)] = "SUCCEEDED"]
    /\ Goto(w, "publish")
    /\ UNCHANGED <<storeVars, approvalVars, reached, handlerVars, evidence,
                   interventions, boundVars>>

\* store.markUnknown, after which the error reaches the runner.
MarkUnknown(w) ==
    /\ pc[w] = "unknown"
    /\ record' = [record EXCEPT ![Key(w)] = "UNKNOWN"]
    /\ Goto(w, "recover")
    /\ UNCHANGED <<storeVars, approvalVars, reached, handlerVars, evidence,
                   interventions, boundVars>>

\* Mutant: a failed attempt leaves its reservation behind.
ReleaseKeepingRecord(w) ==
    /\ pc[w] = "release"
    /\ Goto(w, "recover")
    /\ UNCHANGED <<storeVars, approvalVars, actionVars, handlerVars, evidence,
                   interventions, boundVars>>

\* store.fail: the record is deleted, whatever it says by now.
Release(w) ==
    /\ pc[w] = "release"
    /\ record' = [record EXCEPT ![Key(w)] = "ABSENT"]
    /\ Goto(w, "recover")
    /\ UNCHANGED <<storeVars, approvalVars, reached, handlerVars, evidence,
                   interventions, boundVars>>

\* compareAndSet to WAITING_EXTERNAL with the follow-up wake.  A version conflict
\* is thrown inside the try block, so it is handled like a failed attempt.
Publish(w) ==
    /\ pc[w] = "publish"
    /\ \/ /\ Current(snap[w].version)
          /\ Commit(Sent(snap[w]), TRUE)
          /\ Finish(w)
       \/ /\ ~Current(snap[w].version)
          /\ Goto(w, "recover")
          /\ UNCHANGED storeVars
    /\ UNCHANGED <<approvalVars, actionVars, handlerVars, evidence, interventions,
                   boundVars>>

\* The catch block: one more attempt used, then either a retry wake or, at
\* maxAttempts, the owner is asked.  A conflict here ends the run with an error.
Recover(w) ==
    /\ pc[w] = "recover"
    /\ \/ /\ Current(snap[w].version)
          /\ snap[w].attempts + 1 < MaxAttempts
          /\ Commit(Retried(snap[w]), TRUE)
          /\ Finish(w)
       \/ /\ Current(snap[w].version)
          /\ snap[w].attempts + 1 >= MaxAttempts
          /\ Commit(RecoveryExhausted(snap[w]), FALSE)
          /\ Goto(w, "raise")
       \/ /\ ~Current(snap[w].version)
          /\ Finish(w)
          /\ UNCHANGED storeVars
    /\ UNCHANGED <<approvalVars, actionVars, handlerVars, evidence, interventions,
                   boundVars>>

\* actionOrdinal > maxLogicalSends.
Exhaust(w) ==
    /\ pc[w] = "exhaust"
    /\ \/ /\ Current(snap[w].version)
          /\ Commit(BudgetExhausted(snap[w]), FALSE)
          /\ Goto(w, "raise")
       \/ /\ ~Current(snap[w].version)
          /\ Finish(w)
          /\ UNCHANGED storeVars
    /\ UNCHANGED <<approvalVars, actionVars, handlerVars, evidence, interventions,
                   boundVars>>

\* ACTION_DENIED.
Deny(w) ==
    /\ pc[w] = "deny"
    /\ \/ /\ Current(snap[w].version)
          /\ Commit(Denied(snap[w]), FALSE)
       \/ /\ ~Current(snap[w].version)
          /\ UNCHANGED storeVars
    /\ Finish(w)
    /\ UNCHANGED <<approvalVars, actionVars, handlerVars, evidence, interventions,
                   boundVars>>

\* interventions.raise, which keeps one intervention per case and kind.
Raise(w) ==
    /\ pc[w] = "raise"
    /\ interventions' = interventions \cup
            {IF snap[w].ordinal > MaxLogicalSends
             THEN "ACTION_BUDGET_EXHAUSTED" ELSE "RECOVERY_EXHAUSTED"}
    /\ Finish(w)
    /\ UNCHANGED <<storeVars, approvalVars, actionVars, handlerVars, evidence,
                   boundVars>>

-----------------------------------------------------------------------------
(***************************************************************************)
(* Faults of a worker.                                                     *)
(***************************************************************************)

\* The instance dies; Cloud Tasks delivers the task again.
Crash(w) ==
    /\ pc[w] # "idle"
    /\ Fault("crash")
    /\ Finish(w)
    /\ UNCHANGED <<storeVars, approvalVars, actionVars, handlerVars, evidence,
                   interventions>>

\* The store call of the next step throws and has had no effect.
StoreFails(w) ==
    /\ Fault("storage")
    /\ \/ /\ pc[w] = "settle"
          /\ Goto(w, "release")
       \/ /\ pc[w] \in {"reserve", "unknown", "release", "publish"}
          /\ Goto(w, "recover")
       \/ /\ pc[w] \in {"recover", "exhaust", "deny", "raise"}
          /\ Finish(w)
    /\ UNCHANGED <<storeVars, approvalVars, actionVars, handlerVars, evidence,
                   interventions>>

\* The store call takes effect and throws all the same: the acknowledgement of
\* the commit is lost.  (A transaction the client library then runs again finds
\* its own reservation and reports it in flight.)  For the other calls this is
\* the same as success, or as success followed by a crash.
StoreAckLost(w) ==
    /\ Fault("storage")
    /\ \/ /\ pc[w] = "reserve"
          /\ record[Key(w)] = "ABSENT"
          /\ record' = [record EXCEPT ![Key(w)] = "RESERVED"]
          /\ Goto(w, "recover") \/ Finish(w)
          /\ UNCHANGED storeVars
       \/ /\ pc[w] = "settle"
          /\ record' = [record EXCEPT ![Key(w)] = "SUCCEEDED"]
          /\ Goto(w, "release")
          /\ UNCHANGED storeVars
       \/ /\ pc[w] = "publish"
          /\ Current(snap[w].version)
          /\ Commit(Sent(snap[w]), TRUE)
          /\ Goto(w, "recover")
          /\ UNCHANGED record
    /\ UNCHANGED <<approvalVars, reached, handlerVars, evidence, interventions>>

-----------------------------------------------------------------------------
(***************************************************************************)
(* An evidence handler: EvidenceService.reconcile.                         *)
(***************************************************************************)

HandlerGoto(h, step) ==
    /\ hpc' = [hpc EXCEPT ![h] = step]
    /\ hver' = [hver EXCEPT ![h] = IF step = "idle" THEN 0 ELSE @]

\* A candidate arrives and the handler reads the case; any other state answers
\* EVIDENCE_NOT_ACCEPTED_IN_STATE.
Receive(h) ==
    /\ hpc[h] = "idle"
    /\ ~deleted
    /\ run.state = "WAITING_EXTERNAL"
    /\ hpc' = [hpc EXCEPT ![h] = "record"]
    /\ hver' = [hver EXCEPT ![h] = run.version]
    /\ UNCHANGED <<storeVars, approvalVars, actionVars, workerVars, evidence,
                   interventions, boundVars>>

\* The record transaction.  An identity already stored is a duplicate and changes
\* nothing, yet a conflicting candidate still opens its intervention.
RecordEvidence(h, e, verdict) ==
    /\ hpc[h] = "record"
    /\ \/ /\ evidence[e] = NoVerdict
          /\ Current(hver[h])
          /\ Commit(Evidenced(run, verdict), verdict = "INSUFFICIENT")
          /\ evidence' = [evidence EXCEPT ![e] = verdict]
          /\ HandlerGoto(h, IF verdict = "CONFLICT" THEN "raise" ELSE "idle")
       \/ /\ evidence[e] # NoVerdict
          /\ ~deleted
          /\ HandlerGoto(h, IF verdict = "CONFLICT" THEN "raise" ELSE "idle")
          /\ UNCHANGED <<storeVars, evidence>>
       \/ /\ deleted \/ (evidence[e] = NoVerdict /\ ~Current(hver[h]))
          /\ HandlerGoto(h, "idle")
          /\ UNCHANGED <<storeVars, evidence>>
    /\ UNCHANGED <<approvalVars, actionVars, workerVars, interventions, boundVars>>

\* createInterventionIfAbsent, unless the notice that is stored first exceeds the
\* notification budget of the case.
RaiseConflict(h) ==
    /\ hpc[h] = "raise"
    /\ interventions' \in {interventions, interventions \cup {"EVIDENCE_CONFLICT"}}
    /\ HandlerGoto(h, "idle")
    /\ UNCHANGED <<storeVars, approvalVars, actionVars, workerVars, evidence,
                   boundVars>>

\* The instance dies or its store call throws; the counterparty may send again.
HandlerFails(h) ==
    /\ hpc[h] # "idle"
    /\ Fault("crash") \/ Fault("storage")
    /\ HandlerGoto(h, "idle")
    /\ UNCHANGED <<storeVars, approvalVars, actionVars, workerVars, evidence,
                   interventions>>

-----------------------------------------------------------------------------
(***************************************************************************)
(* The owner, the mail provider and the clock.                             *)
(***************************************************************************)

\* CaseControlService.command.  Its reads and its transaction are one step: the
\* transaction aborts unless the version, and so the whole document, is the one
\* the checks were made on.
Control(command) ==
    /\ controls < MaxControls
    /\ controls' = controls + 1
    /\ ~deleted
    /\ CommandAllowed(run, expired, command)
    /\ Commit(Controlled(run, command), command = "RESUME")
    /\ UNCHANGED <<approvalVars, actionVars, workerVars, handlerVars, evidence,
                   interventions, faults, bounces>>

\* requestDeletion, allowed in every state.
Delete ==
    /\ controls < MaxControls
    /\ controls' = controls + 1
    /\ ~deleted
    /\ deleted' = TRUE
    /\ UNCHANGED <<run, events, intents, approvalVars, actionVars, workerVars,
                   handlerVars, evidence, interventions, faults, bounces>>

\* recordTransportEvent with BOUNCED, COMPLAINED or SUPPRESSED for a message whose
\* receipt is stored.  It checks no version and writes no event.
Bounce ==
    /\ bounces < MaxBounces
    /\ bounces' = bounces + 1
    /\ \E k \in Ordinals : record[k] = "SUCCEEDED"
    /\ ~deleted
    /\ run.state \notin {"DONE", "CANCELLED"}
    /\ run' = Bounced(run)
    /\ interventions' = interventions \cup {"EMAIL_ROUTE_UNAVAILABLE"}
    /\ UNCHANGED <<deleted, events, intents, approvalVars, actionVars, workerVars,
                   handlerVars, evidence, faults, controls>>

\* The clock passes approval.expiresAt.
ApprovalExpires ==
    /\ ~expired
    /\ expired' = TRUE
    /\ UNCHANGED <<permitted, storeVars, actionVars, workerVars, handlerVars, evidence,
                   interventions, boundVars>>

-----------------------------------------------------------------------------

WorkerStep(w) ==
    \/ Reserve(w)
    \/ CallAccepted(w)
    \/ CallRefused(w)
    \/ Settle(w)
    \/ MarkUnknown(w)
    \/ Release(w)
    \/ Publish(w)
    \/ Recover(w)
    \/ Exhaust(w)
    \/ Deny(w)
    \/ Raise(w)

WorkerFault(w) ==
    \/ CallOutcomeUnknown(w)
    \/ Crash(w)
    \/ StoreFails(w)
    \/ StoreAckLost(w)

HandlerStep(h) ==
    \/ \E e \in EvidenceIds, verdict \in Verdicts : RecordEvidence(h, e, verdict)
    \/ RaiseConflict(h)

Next ==
    \/ \E w \in Workers, v \in intents : Start(w, v)
    \/ \E w \in Workers : WorkerStep(w) \/ WorkerFault(w)
    \/ \E h \in Handlers : Receive(h) \/ HandlerStep(h) \/ HandlerFails(h)
    \/ \E command \in Commands : Control(command)
    \/ Delete
    \/ Bounce
    \/ ApprovalExpires

Spec == Init /\ [][Next]_vars

-----------------------------------------------------------------------------
(***************************************************************************)
(* Safety.                                                                 *)
(***************************************************************************)

Owns(w) == pc[w] \in {"call", "settle"}

\* Optimistic concurrency is sound: what an invocation read is the document of
\* that version, so a transaction that finds its version unchanged rewrites the
\* document it decided on.  Every writer has to move the version for this.
SnapshotsAgree ==
    /\ \A w \in Workers : pc[w] # "idle" =>
            /\ snap[w].version <= run.version
            /\ snap[w].version = run.version => snap[w] = run
            /\ snap[w].state \in Dispatchable
    /\ \A h \in Handlers : hpc[h] = "record" =>
            /\ hver[h] <= run.version
            /\ hver[h] = run.version => run.state = "WAITING_EXTERNAL"

\* No two invocations of duplicate or redelivered tasks carry out the same
\* logical action at the same time.
OneOwner ==
    \A w1, w2 \in Workers :
        /\ w1 # w2
        /\ Owns(w1)
        /\ Owns(w2)
        => Key(w1) # Key(w2)

\* The case never counts a logical action that the provider did not act on, not
\* even when a duplicate worker publishes a receipt that another one obtained.
CountedMeansPerformed ==
    \A k \in Ordinals : k < run.ordinal => k \in reached

\* A case that expects to be woken has a wake intent for the version it is in,
\* whoever wrote that version last.
WakeRetained ==
    run.state \in Dispatchable => run.version \in intents

\* A case is closed only on an accepted candidate, and never before the
\* counterparty was contacted once.
DoneMeansProven ==
    run.state = "DONE" =>
        /\ \E e \in EvidenceIds : evidence[e] = "ACCEPTED"
        /\ 1 \in reached

\* Once the owner withdrew authority, no late worker, handler or event makes the
\* case count another action or waits for one again.
WithdrawnIsFinal ==
    [][run.revoked =>
        /\ run'.revoked
        /\ run'.ordinal = run.ordinal
        /\ run'.state \notin Dispatchable \cup {"DONE"}]_vars

\* Versions missing from the history are those that transport events wrote; every
\* other transition is told exactly once.
HistoryAccountsForVersions ==
    /\ events \subseteq 1..run.version
    /\ Cardinality((1..run.version) \ events) = bounces

-----------------------------------------------------------------------------
(***************************************************************************)
(* The inductive invariant.                                                *)
(***************************************************************************)

Attempting(w) ==
    pc[w] \in {"reserve", "call", "settle", "unknown", "release", "publish", "recover"}

\* The invocations that still have to settle a record they reserved.
Holds(w) == pc[w] \in {"call", "settle", "unknown", "release"}

\* The key of an attempt is a key of the plan, and never ahead of the case.
AttemptsInPlan ==
    \A w \in Workers :
        /\ pc[w] # "idle" => snap[w].ordinal <= run.ordinal
        /\ Attempting(w) => Key(w) \in Ordinals

\* Records change hands only through "ABSENT".
RecordsHeld ==
    /\ \A w \in Workers : Holds(w) => record[Key(w)] # "ABSENT"
    /\ \A w \in Workers : pc[w] \in {"call", "settle", "unknown"} => record[Key(w)] = "RESERVED"
    /\ \A w1, w2 \in Workers : w1 # w2 /\ Holds(w1) /\ Holds(w2) => Key(w1) # Key(w2)

\* A stored receipt, and a worker about to publish one, stand for a done action.
ReceiptsTrue ==
    /\ \A k \in Ordinals : record[k] = "SUCCEEDED" => k \in reached
    /\ \A w \in Workers : pc[w] \in {"settle", "publish"} => Key(w) \in reached

\* The provider acts at most one action ahead of the case.
ReachedInOrder == \A k \in Ordinals : k \in reached => k <= run.ordinal

\* Work and completion need the approval to stand, and an answer a question.
DispatchableIsAuthorized ==
    /\ run.state \in Dispatchable \cup {"DONE"} => ~run.revoked
    /\ run.state \in {"WAITING_EXTERNAL", "DONE"} => run.ordinal > 1
    /\ run.state = "DONE" => \E e \in EvidenceIds : evidence[e] = "ACCEPTED"

EventsKnown == events \subseteq 1..run.version

IInv ==
    /\ TypeOK
    /\ SnapshotsAgree
    /\ AttemptsInPlan
    /\ RecordsHeld
    /\ ReceiptsTrue
    /\ ReachedInOrder
    /\ CountedMeansPerformed
    /\ DispatchableIsAuthorized
    /\ WakeRetained
    /\ EventsKnown

-----------------------------------------------------------------------------
(***************************************************************************)
(* Refinement of CaseLifecycle.                                            *)
(***************************************************************************)

PhaseOf(state) ==
    CASE state \in Dispatchable      -> "Live"
      [] state = "NEEDS_ATTENTION"   -> "Attention"
      [] state = "DONE"              -> "Done"
      [] state = "CANCELLED"         -> "Cancelled"
      [] state = "EXPIRED"           -> "Expired"
      [] state = "FAILED"            -> "Failed"

Lifecycle == INSTANCE CaseLifecycle WITH
    MaxActions <- MaxLogicalSends,
    phase      <- IF deleted THEN "Gone" ELSE PhaseOf(run.state),
    performed  <- run.ordinal - 1,
    acted      <- reached,
    authority  <- ~run.revoked

\* The workers, handlers and documents together keep the promise of CaseLifecycle,
\* however their steps interleave and whatever fails.
KeepsLifecycle == Lifecycle!Spec

Document == INSTANCE CaseDocument WITH doc <- run, gone <- deleted

\* Comparing versions is enough: whatever workers and handlers read and however late they
\* write it, the document evolves as if each had decided on the version it rewrites.
KeepsDocument == Document!Spec

-----------------------------------------------------------------------------
(***************************************************************************)
(* What the repository's documents say and the program does not do.        *)
(***************************************************************************)

\* "No action occurs after proof, stop or action-budget exhaustion."
NoActionAfterProofOrStop ==
    [][reached' # reached => run.state \notin {"DONE", "CANCELLED", "EXPIRED"} /\ ~deleted]_vars
=============================================================================
