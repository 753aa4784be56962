----------------------------- MODULE WakeOutbox -----------------------------
(***************************************************************************)
(* How a case is woken: wake intents, the invocations that turn them into  *)
(* Cloud Tasks, the queue, and the reconciler that runs every minute.      *)
(*                                                                         *)
(* Every writer of a case that wants it woken again stores the intent with *)
(* the new version, in one transaction, and creates the task afterwards.   *)
(* Of the case itself this module keeps what waking depends on: its state  *)
(* and version, and the action record of its next logical action.          *)
(*                                                                         *)
(* A task is named by a hash of what the scheduler was called with.  The   *)
(* writers that dispatch their own intent pass all of it; the reconciler,  *)
(* RESUME and the repair by a stale delivery pass only case, version, time *)
(* and correlation.  So a wake has up to two names, "direct" and "clean".  *)
(* Cloud Tasks refuses a name again as long as it remembers it.            *)
(***************************************************************************)
EXTENDS Integers, FiniteSets

CONSTANTS
    Invocations,  \* Cloud Run invocations, of whichever route
    MaxTries,     \* retryConfig.maxAttempts of the queue, 5 in the product
    Limit,        \* intents one reconciliation handles, 25 in the product
    OtherWriters, \* subset of {"EVIDENCE", "BOUNCE", "CONTROL", "RESUME"}: who else
                  \* moves the case
    FaultKinds,   \* subset of {"enqueue", "storage", "early", "crash", "unknown"}
    MaxVersion,   \* bound: versions of the case
    MaxFaults     \* bound: faults

ASSUME WakeAssumption ==
    /\ MaxTries \in Nat \ {0}
    /\ Limit \in Nat \ {0}
    /\ MaxVersion \in Nat \ {0, 1}
    /\ MaxFaults \in Nat

Versions == 1..MaxVersion
Names == {"direct", "clean"}
Tasks == Versions \X Names

\* What an invocation answers for, when it is not the delivery of a task.
Request == <<0, "request">>  \* approval, evidence or a control command
Sweep == <<0, "sweep">>      \* the reconciler

\* The action record when no invocation holds it: absent, with a receipt, or RESERVED
\* by a dead invocation or UNKNOWN.
RecordStates == {"NONE", "RECEIPT", "LOST"}

ASSUME RecordsAssumption == RecordStates \cap Invocations = {}

VARIABLES
    version, state,  \* caseRuns/{caseId}
    since,           \* the first version whose next logical action is the present one
    record,          \* the record of that action
    intent,          \* wakeIntents: status of the intent of each version
    task, tries,     \* Cloud Tasks: each task and its failed deliveries
    resumed,         \* versions written by RESUME, whose command can be replayed
    pc,              \* each invocation's next step
    from,            \* what it answers for
    read,            \* the version it read, as a delivery
    wake,            \* the wake it dispatches: a version and a name
    todo,            \* the intents it still has to handle, as the reconciler
    faults           \* how much of the bound is used

caseVars  == <<version, state, since, record, intent, resumed>>
queueVars == <<task, tries>>
localVars == <<pc, from, read, wake, todo>>
vars == <<caseVars, queueVars, localVars, faults>>

-----------------------------------------------------------------------------

Steps == {"idle", "work", "act", "sent", "failed", "create", "mark", "fail", "list"}

Dispatchable == {"READY", "WAITING_RETRY", "WAITING_EXTERNAL"}
States == Dispatchable \cup {"NEEDS_ATTENTION", "FAILED", "CANCELLED", "EXPIRED", "DONE"}

wants == state \in Dispatchable

\* DONE: answered with success.  SWALLOWED: answered with success because the action
\* was in flight (kept apart from DONE for the properties only).  DROPPED: failed
\* as often as the queue tries.
TaskStates == {"NONE", "QUEUED", "RUNNING", "DONE", "SWALLOWED", "DROPPED"}

FirstWake == <<1, "direct">>

TypeOK ==
    /\ version \in Versions
    /\ state \in States
    /\ since \in Versions
    /\ record \in Invocations \cup RecordStates
    /\ intent \in [Versions -> {"ABSENT", "PENDING", "DISPATCHED"}]
    /\ task \in [Tasks -> TaskStates]
    /\ tries \in [Tasks -> 0..MaxTries]
    /\ resumed \subseteq Versions
    /\ pc \in [Invocations -> Steps]
    /\ from \in [Invocations -> Tasks \cup {Request, Sweep}]
    /\ read \in [Invocations -> Versions]
    /\ wake \in [Invocations -> Tasks]
    /\ todo \in [Invocations -> SUBSET Versions]
    /\ faults \in 0..MaxFaults

\* Approval has stored the run and the intent of its first wake; the invocation that
\* approved is about to dispatch it.
Init ==
    /\ version = 1
    /\ state = "READY"
    /\ since = 1
    /\ record = "NONE"
    /\ intent = [v \in Versions |-> IF v = 1 THEN "PENDING" ELSE "ABSENT"]
    /\ task = [t \in Tasks |-> "NONE"]
    /\ tries = [t \in Tasks |-> 0]
    /\ resumed = {}
    /\ \E i \in Invocations :
            pc = [j \in Invocations |-> IF j = i THEN "create" ELSE "idle"]
    /\ from = [i \in Invocations |-> Request]
    /\ read = [i \in Invocations |-> 1]
    /\ wake = [i \in Invocations |-> FirstWake]
    /\ todo = [i \in Invocations |-> {}]
    /\ faults = 0

-----------------------------------------------------------------------------
(***************************************************************************)
(* Helpers.                                                                *)
(***************************************************************************)

Fault(kind) ==
    /\ kind \in FaultKinds
    /\ faults < MaxFaults
    /\ faults' = faults + 1

\* Mutant: the intent is left to whoever dispatches it.
MoveForgettingIntent(next) ==
    /\ version' = version + 1
    /\ state' = next
    /\ UNCHANGED intent

\* A transaction on the run document.  The version that wants a wake comes with it.
Move(next) ==
    /\ version' = version + 1
    /\ state' = next
    /\ intent' = IF next \in Dispatchable
                 THEN [intent EXCEPT ![version + 1] = "PENDING"] ELSE intent

\* The bound on versions leaves room for a last one that wants nothing.  A run that
\* could not write its next version within the bound is not begun.
MayMove(next) ==
    IF next \in Dispatchable THEN version + 1 < MaxVersion ELSE version < MaxVersion

\* What Cloud Tasks does with a task that was answered: its failures count no longer.
Answered(t, outcome) ==
    /\ task' = [task EXCEPT ![t] = outcome]
    /\ tries' = [tries EXCEPT ![t] = 0]

FailedDelivery(t) ==
    /\ tries' = [tries EXCEPT ![t] = @ + 1]
    /\ task' = [task EXCEPT ![t] = IF tries[t] + 1 < MaxTries THEN "QUEUED" ELSE "DROPPED"]

\* The invocation ends, and its locals with it: with status 200, or with an error.
Ends(i) ==
    /\ pc' = [pc EXCEPT ![i] = "idle"]
    /\ from' = [from EXCEPT ![i] = Request]
    /\ read' = [read EXCEPT ![i] = 1]
    /\ wake' = [wake EXCEPT ![i] = FirstWake]
    /\ todo' = [todo EXCEPT ![i] = {}]

Succeed(i, outcome) ==
    /\ Ends(i)
    /\ IF from[i] \in Tasks THEN Answered(from[i], outcome) ELSE UNCHANGED queueVars

Fail(i) ==
    /\ Ends(i)
    /\ IF from[i] \in Tasks THEN FailedDelivery(from[i]) ELSE UNCHANGED queueVars

\* The invocation goes on to dispatch wake t.
Dispatch(i, t) ==
    /\ pc' = [pc EXCEPT ![i] = "create"]
    /\ wake' = [wake EXCEPT ![i] = t]

-----------------------------------------------------------------------------
(***************************************************************************)
(* DurableWakeScheduler.scheduleCase.                                      *)
(***************************************************************************)


\* createTask.  A name in use, or remembered, counts as dispatched.
Create(i) ==
    /\ pc[i] = "create"
    /\ \/ /\ task[wake[i]] = "NONE"
          /\ task' = [task EXCEPT ![wake[i]] = "QUEUED"]
          /\ pc' = [pc EXCEPT ![i] = "mark"]
          /\ UNCHANGED faults
       \/ /\ task[wake[i]] # "NONE"
          /\ pc' = [pc EXCEPT ![i] = "mark"]
          /\ UNCHANGED <<task, faults>>
       \/ \* It throws, and the task exists or not.
          /\ Fault("enqueue")
          /\ \/ UNCHANGED task
             \/ /\ task[wake[i]] = "NONE"
                /\ task' = [task EXCEPT ![wake[i]] = "QUEUED"]
          /\ pc' = [pc EXCEPT ![i] = "fail"]
    /\ UNCHANGED <<caseVars, tries, from, read, wake, todo>>

\* The reconciler goes on with its list; anyone else answers.
Dispatched(i) ==
    IF from[i] = Sweep
    THEN /\ pc' = [pc EXCEPT ![i] = "list"]
         /\ UNCHANGED <<queueVars, from, read, wake, todo>>
    ELSE Succeed(i, "DONE")

NotDispatched(i) ==
    IF from[i] = Sweep
    THEN /\ pc' = [pc EXCEPT ![i] = "list"]
         /\ UNCHANGED <<queueVars, from, read, wake, todo>>
    ELSE Fail(i)

\* markDispatched.  Its failure is caught like one of createTask.
MarkDispatched(i) ==
    /\ pc[i] = "mark"
    /\ \/ /\ intent' = [intent EXCEPT ![wake[i][1]] = "DISPATCHED"]
          /\ Dispatched(i)
          /\ UNCHANGED faults
       \/ /\ Fault("storage")
          /\ pc' = [pc EXCEPT ![i] = "fail"]
          /\ UNCHANGED <<intent, queueVars, from, read, wake, todo>>
    /\ UNCHANGED <<version, state, since, record, resumed>>

\* Mutant: a failed dispatch is recorded like a successful one.
MarkFailedAsDispatched(i) ==
    /\ pc[i] = "fail"
    /\ intent' = [intent EXCEPT ![wake[i][1]] = "DISPATCHED"]
    /\ UNCHANGED faults
    /\ NotDispatched(i)
    /\ UNCHANGED <<version, state, since, record, resumed>>

\* markFailed, whatever another dispatcher has written meanwhile.
MarkFailed(i) ==
    /\ pc[i] = "fail"
    /\ \/ /\ intent' = [intent EXCEPT ![wake[i][1]] = "PENDING"]
          /\ UNCHANGED faults
       \/ /\ Fault("storage")
          /\ UNCHANGED intent
    /\ NotDispatched(i)
    /\ UNCHANGED <<version, state, since, record, resumed>>

-----------------------------------------------------------------------------
(***************************************************************************)
(* A delivery of a task: handleRunCaseTask around CaseRunner.run.          *)
(***************************************************************************)

\* The runner reads the case.  A stale delivery repairs: it dispatches the wake of
\* the version it finds.
Deliver(i, t) ==
    /\ pc[i] = "idle"
    /\ task[t] = "QUEUED"
    /\ \/ /\ wants
          /\ task' = [task EXCEPT ![t] = "RUNNING"]
          /\ UNCHANGED tries
          /\ from' = [from EXCEPT ![i] = t]
          /\ \/ /\ version = t[1]
                /\ MayMove("WAITING_EXTERNAL")
                /\ pc' = [pc EXCEPT ![i] = "work"]
                /\ read' = [read EXCEPT ![i] = version]
                /\ UNCHANGED wake
             \/ /\ version # t[1]
                /\ Dispatch(i, <<version, "clean">>)
                /\ UNCHANGED read
       \/ /\ ~wants
          /\ Answered(t, "DONE")
          /\ UNCHANGED <<pc, from, read, wake>>
    /\ UNCHANGED <<caseVars, todo, faults>>

\* The delivery fails before it has read the case, or comes before its time and is
\* answered NOT_DUE with status 503: both use up a try.
DeliverFails(t) ==
    /\ task[t] = "QUEUED"
    /\ \/ Fault("storage")
       \/ wants /\ version = t[1] /\ Fault("early")
    /\ FailedDelivery(t)
    /\ UNCHANGED <<caseVars, localVars>>

\* The logical action is reserved, or found sent, or found in flight: that ends the
\* delivery with ACTION_IN_FLIGHT, which is a success for the queue.
Reserve(i) ==
    /\ pc[i] = "work"
    /\ \/ /\ read[i] < since \/ record = "RECEIPT"
          /\ pc' = [pc EXCEPT ![i] = "sent"]
          /\ UNCHANGED <<record, queueVars, from, read, wake, todo>>
       \/ /\ read[i] >= since /\ record = "NONE"
          /\ record' = i
          /\ pc' = [pc EXCEPT ![i] = "act"]
          /\ UNCHANGED <<queueVars, from, read, wake, todo>>
       \/ /\ read[i] >= since /\ record \notin {"NONE", "RECEIPT"}
          /\ Succeed(i, "SWALLOWED")
          /\ UNCHANGED record
    /\ UNCHANGED <<version, state, since, intent, resumed, faults>>

\* The provider's answer: a receipt, a refusal that frees the reservation, or an
\* outcome that stays unknown for good.
Answer(i) ==
    /\ pc[i] = "act"
    /\ \/ /\ record' = "RECEIPT"
          /\ pc' = [pc EXCEPT ![i] = "sent"]
          /\ UNCHANGED faults
       \/ /\ record' = "NONE"
          /\ pc' = [pc EXCEPT ![i] = "failed"]
          /\ UNCHANGED faults
       \/ /\ record' = "LOST"
          /\ pc' = [pc EXCEPT ![i] = "failed"]
          /\ Fault("unknown")
    /\ UNCHANGED <<version, state, since, intent, resumed, queueVars, from, read, wake, todo>>

\* The receipt is published: the case waits, and this run dispatches its next wake.
Publish(i) ==
    /\ pc[i] = "sent"
    /\ version = read[i]
    /\ MayMove("WAITING_EXTERNAL")
    /\ Move("WAITING_EXTERNAL")
    /\ since' = version + 1
    /\ record' = "NONE"
    /\ Dispatch(i, <<version + 1, "direct">>)
    /\ UNCHANGED <<resumed, queueVars, from, read, todo, faults>>

\* A failed attempt asks for another one.
Retry(i) ==
    /\ pc[i] = "failed"
    /\ version = read[i]
    /\ MayMove("WAITING_RETRY")
    /\ Move("WAITING_RETRY")
    /\ Dispatch(i, <<version + 1, "direct">>)
    /\ UNCHANGED <<since, record, resumed, queueVars, from, read, todo, faults>>

\* The budget of actions or of attempts is exhausted, or the action is denied.  The
\* notice that follows can fail.
Conclude(i) ==
    /\ pc[i] \in {"work", "failed"}
    /\ version = read[i]
    /\ \E next \in {"NEEDS_ATTENTION"} \cup (IF pc[i] = "work" THEN {"FAILED"} ELSE {}) :
            MayMove(next) /\ Move(next)
    /\ \/ Succeed(i, "DONE") /\ UNCHANGED faults
       \/ Fail(i) /\ Fault("storage")
    /\ UNCHANGED <<since, record, resumed>>

\* Mutant: the wake is dispatched although its transaction was aborted.
ConflictDispatching(i) ==
    /\ pc[i] \in {"sent", "failed"}
    /\ version # read[i]
    /\ Dispatch(i, <<read[i] + 1, "direct">>)
    /\ UNCHANGED <<caseVars, queueVars, from, read, todo, faults>>

\* VERSION_CONFLICT, from the transaction and again from the one in the catch block.
Conflict(i) ==
    /\ pc[i] \in {"sent", "failed"}
    /\ version # read[i]
    /\ Fail(i)
    /\ UNCHANGED <<caseVars, faults>>

\* A store call throws.  The catch block is entered with the action record as it is, a
\* reservation of this run included; when it throws in turn, the answer is 500.
StoreFails(i) ==
    /\ Fault("storage")
    /\ \/ /\ pc[i] \in {"work", "act", "sent"}
          /\ pc' = [pc EXCEPT ![i] = "failed"]
          /\ record' = IF record = i THEN "LOST" ELSE record
          /\ UNCHANGED <<queueVars, from, read, wake, todo>>
       \/ /\ pc[i] = "failed"
          /\ Fail(i)
          /\ UNCHANGED record
    /\ UNCHANGED <<version, state, since, intent, resumed>>

\* The instance dies, with its reservation.
Crash(i) ==
    /\ pc[i] # "idle"
    /\ Fault("crash")
    /\ record' = IF record = i THEN "LOST" ELSE record
    /\ Fail(i)
    /\ UNCHANGED <<version, state, since, intent, resumed>>

-----------------------------------------------------------------------------
(***************************************************************************)
(* The reconciler.                                                         *)
(***************************************************************************)

\* Mutant: only the wake of the version the case has is dispatched.
PendingOfPresent == {v \in Versions : v = version /\ intent[v] = "PENDING"}

Pending == {v \in Versions : intent[v] = "PENDING"}

\* listPending: up to Limit pending intents, in no particular order.
Reconcile(i) ==
    /\ pc[i] = "idle"
    /\ Pending # {}
    /\ \E batch \in SUBSET Pending :
            /\ \/ batch = Pending /\ Cardinality(batch) <= Limit
               \/ Cardinality(batch) = Limit
            /\ todo' = [todo EXCEPT ![i] = batch]
    /\ from' = [from EXCEPT ![i] = Sweep]
    /\ pc' = [pc EXCEPT ![i] = "list"]
    /\ UNCHANGED <<caseVars, queueVars, read, wake, faults>>

\* One intent of the list after the other; a failure does not stop the rest.
NextIntent(i) ==
    /\ pc[i] = "list"
    /\ \/ \E v \in todo[i] :
            /\ todo' = [todo EXCEPT ![i] = @ \ {v}]
            /\ Dispatch(i, <<v, "clean">>)
            /\ UNCHANGED <<from, read>>
       \/ /\ todo[i] = {}
          /\ Ends(i)
    /\ UNCHANGED <<caseVars, queueVars, faults>>

-----------------------------------------------------------------------------
(***************************************************************************)
(* The other writers of the case.                                          *)
(***************************************************************************)

\* Insufficient evidence: the next version wants a wake, dispatched in full.
Insufficient(i) ==
    /\ "EVIDENCE" \in OtherWriters
    /\ pc[i] = "idle"
    /\ state = "WAITING_EXTERNAL"
    /\ MayMove("WAITING_EXTERNAL")
    /\ Move("WAITING_EXTERNAL")
    /\ from' = [from EXCEPT ![i] = Request]
    /\ Dispatch(i, <<version + 1, "direct">>)
    /\ UNCHANGED <<since, record, resumed, queueVars, read, todo, faults>>

\* The next version wants no wake.
Rest(next) ==
    /\ MayMove(next)
    /\ Move(next)
    /\ UNCHANGED <<since, record, resumed, queueVars, localVars, faults>>

\* Evidence that proves or contradicts the promise.
Evidence ==
    /\ "EVIDENCE" \in OtherWriters
    /\ state = "WAITING_EXTERNAL"
    /\ Rest("DONE") \/ Rest("NEEDS_ATTENTION")

\* The provider reports that a message which has a receipt did not arrive.  A case that
\* expired is shown as needing attention then, but its approval stays revoked and RESUME
\* refuses it: here it stays EXPIRED.
Bounce ==
    /\ "BOUNCE" \in OtherWriters
    /\ since > 1 \/ record = "RECEIPT"
    /\ \/ state \notin {"DONE", "CANCELLED", "EXPIRED"} /\ Rest("NEEDS_ATTENTION")
       \/ state = "EXPIRED" /\ Rest("EXPIRED")

\* STOP, REVOKE and REVISE; EXPIRE; REOPEN.
Control ==
    /\ "CONTROL" \in OtherWriters
    /\ \/ state # "DONE" /\ Rest("CANCELLED")
       \/ state # "DONE" /\ Rest("EXPIRED")
       \/ state = "DONE" /\ Rest("NEEDS_ATTENTION")

Resume(i) ==
    /\ "RESUME" \in OtherWriters
    /\ pc[i] = "idle"
    /\ state = "NEEDS_ATTENTION"
    /\ MayMove("READY")
    /\ Move("READY")
    /\ resumed' = resumed \cup {version + 1}
    /\ from' = [from EXCEPT ![i] = Request]
    /\ Dispatch(i, <<version + 1, "clean">>)
    /\ UNCHANGED <<since, record, queueVars, read, todo, faults>>

\* The command is sent again with its key: it dispatches its wake again.
ResumeAgain(i) ==
    /\ pc[i] = "idle"
    /\ from' = [from EXCEPT ![i] = Request]
    /\ \E v \in resumed : Dispatch(i, <<v, "clean">>)
    /\ UNCHANGED <<caseVars, queueVars, read, todo, faults>>

-----------------------------------------------------------------------------

Step(i) ==
    \/ Create(i)
    \/ MarkDispatched(i)
    \/ MarkFailed(i)
    \/ Reserve(i)
    \/ Answer(i)
    \/ Publish(i)
    \/ Retry(i)
    \/ Conclude(i)
    \/ Conflict(i)
    \/ NextIntent(i)

Next ==
    \/ \E i \in Invocations : Step(i) \/ StoreFails(i) \/ Crash(i)
    \/ \E i \in Invocations, t \in Tasks : Deliver(i, t)
    \/ \E t \in Tasks : DeliverFails(t)
    \/ \E i \in Invocations : Reconcile(i)
    \/ \E i \in Invocations : Insufficient(i) \/ Resume(i) \/ ResumeAgain(i)
    \/ Evidence \/ Bounce \/ Control

Spec == Init /\ [][Next]_vars

\* Cloud Tasks delivers what is queued, in whatever order, Cloud Scheduler calls the
\* reconciler, and an invocation that does not crash goes on.  Nothing more is needed of
\* the queue for any one task: each is delivered a bounded number of times.
Fairness ==
    /\ \A i \in Invocations : WF_vars(Step(i))
    /\ SF_vars(\E i \in Invocations, t \in Tasks : Deliver(i, t))
    /\ SF_vars(\E i \in Invocations : Reconcile(i))

FairSpec == Spec /\ Fairness

-----------------------------------------------------------------------------
(***************************************************************************)
(* Properties.                                                             *)
(***************************************************************************)

HasTask(v) == \E n \in Names : task[<<v, n>>] # "NONE"

\* An intent stops being pending only when its wake is in the queue or was: no failed
\* or lost dispatch, of two dispatchers in whichever order, hides it from the
\* reconciler.
DispatchedHasTask ==
    \A v \in Versions : intent[v] = "DISPATCHED" => HasTask(v)

\* No task is for a version that is not stored, and none is for a version whose
\* writer wanted no wake.
TasksFollowIntents ==
    \A v \in Versions : HasTask(v) => v <= version /\ intent[v] # "ABSENT"

\* The wake of a case that wants one is pending or in the queue, unless a delivery
\* found the action in flight or failed as often as the queue tries.
WakeAccounted ==
    wants =>
        \/ intent[version] = "PENDING"
        \/ \E n \in Names :
                task[<<version, n>>] \in {"QUEUED", "RUNNING", "SWALLOWED", "DROPPED"}

\* No intent stays pending, however the dispatches of it overlap and fail: in the end
\* every wake that was stored has been put into the queue.
EveryIntentDispatched == <>[](\A v \in Versions : intent[v] # "PENDING")


-----------------------------------------------------------------------------
(***************************************************************************)
(* The inductive invariant.                                                *)
(***************************************************************************)

\* A version's wish for a wake never changes, and its intent tells of it.
IntentsOfVersions ==
    /\ \A v \in Versions : intent[v] # "ABSENT" => v <= version
    /\ wants <=> intent[version] # "ABSENT"
    /\ resumed \subseteq {v \in Versions : intent[v] # "ABSENT"}

\* A task that can be delivered again has tries left; one answered for good is past.
TasksOfQueue ==
    \A t \in Tasks :
        /\ task[t] \in {"NONE", "QUEUED", "RUNNING"} => tries[t] < MaxTries
        /\ task[t] = "DONE" => t[1] < version

\* A running task has at most one delivery.  A delivery that dispatches has left its own
\* version behind, and what anybody dispatches is a stored wake.
InvocationInv(i) ==
    /\ from[i] \in Tasks => task[from[i]] = "RUNNING"
    /\ pc[i] \in {"work", "act", "sent", "failed"} =>
            from[i] \in Tasks /\ from[i][1] = read[i] /\ read[i] <= version
    /\ pc[i] \in {"create", "mark", "fail"} =>
            /\ intent[wake[i][1]] # "ABSENT"
            /\ from[i] \in Tasks => from[i][1] < version
    /\ pc[i] = "mark" => task[wake[i]] # "NONE"
    /\ pc[i] = "list" => from[i] = Sweep
    /\ \A v \in todo[i] : intent[v] # "ABSENT"

OneDelivery ==
    \A i, j \in Invocations : i # j /\ from[i] \in Tasks => from[i] # from[j]

OutboxInv ==
    /\ TypeOK
    /\ IntentsOfVersions
    /\ TasksFollowIntents
    /\ DispatchedHasTask
    /\ TasksOfQueue
    /\ \A i \in Invocations : InvocationInv(i)
    /\ OneDelivery

-----------------------------------------------------------------------------
(***************************************************************************)
(* What the repository's documents say and the program does not do.        *)
(***************************************************************************)

\* "Guarantee that every non-terminal state requiring future work retains a
\* recoverable wake intention."
WakeRecoverable ==
    wants =>
        \/ intent[version] = "PENDING"
        \/ \E t \in Tasks : task[t] \in {"QUEUED", "RUNNING"}
        \/ \E i \in Invocations : pc[i] # "idle"
=============================================================================
