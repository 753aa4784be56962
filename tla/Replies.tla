------------------------------- MODULE Replies ------------------------------
(***************************************************************************)
(* How what the counterparty and the mail provider say reaches a case.     *)
(*                                                                         *)
(* The provider posts an event until the webhook accepts it; the webhook   *)
(* reserves the event and queues a task; a worker delivers the task to the *)
(* case: a transport event to the action record and the run, a reply,      *)
(* after a language model has read it, to the evidence service.  A         *)
(* merchant calls back instead, with a fresh timestamp on every attempt.   *)
(* An event has one task, which the queue delivers MaxTries times at most. *)
(*                                                                         *)
(* One follow-up is under way in the meantime: the events about it race    *)
(* the worker that stores its receipt and publishes the next state.        *)
(***************************************************************************)
EXTENDS CaseRuns, FiniteSets

CONSTANTS
    Events,       \* svix-ids of the provider's events
    Callbacks,    \* messages of the merchant
    Webhooks,     \* posts of the provider handled at once
    Workers,      \* deliveries of process-inbound tasks handled at once
    None,         \* no event, kind, verdict or status
    MaxTries,     \* deliveries of one task, 5 in the product (queue.yaml)
    MaxPosts,     \* attempts of a callback, 6 in the sandbox
    MaxVersion,   \* bound: no command is given beyond this version of the run
    MaxTroubles   \* bound: failed awaits, crashes, and late deliveries

\* email.delivered; email.bounced, complained or suppressed; email.received.
Kinds == {"DELIVERED", "BOUNCED", "RECEIVED"}

ASSUME RepliesAssumption ==
    /\ Callbacks \cap Events = {}
    /\ None \notin Events \cup Kinds \cup Verdicts
    /\ MaxTries \in Nat \ {0}
    /\ {MaxPosts, MaxVersion, MaxTroubles} \subseteq Nat

VARIABLES
    run,           \* caseRuns/{caseId}
    record,        \* the follow-up's action record
    transport,     \* receipt.transportStatus of the record
    sender,        \* the follow-up's worker: its next await and the run it has read
    kind,          \* what an event says, once it happened
    event,         \* providerEvents: status
    posting,       \* events that the provider posts until they are accepted
    task,          \* events whose task waits for a delivery
    tries,         \* deliveries of the event's task made so far
    webhook,       \* each post handled: its next await and its event
    worker,        \* each delivery handled: its next await, event, run read, verdict, and
                   \* whether the queue waits for its answer
    call,          \* each callback: its next await, posts made, run read, verdict
    evidence,      \* caseRuns/{caseId}/evidence: verdict by source
    interventions, \* kinds of intervention opened
    troubles,
    handled,       \* events that were marked PROCESSED
    forsaken,      \* events whose webhook died or could not queue them, or whose task has
                   \* used up its tries
    early,         \* transport events for which no receipt was found
    spared         \* bounces that found the case finished or stopped

followUp == <<record, transport, sender>>
mail == <<kind, event, posting, task, tries, webhook>>
ghosts == <<handled, forsaken, early, spared>>
vars == <<run, followUp, mail, worker, call, evidence, interventions, troubles, ghosts>>

Records == {"ABSENT", "RESERVED", "SUCCEEDED", "STATUSLESS"}
EventStates == {"ABSENT", "RESERVED", "ENQUEUED", "PROCESSED", "FAILED"}
NoRun == [ActivatedRun EXCEPT !.version = 0]
AtRest == [pc |-> "idle", seen |-> NoRun]
Idle == [pc |-> "idle", event |-> None]
Resting == [pc |-> "idle", event |-> None, seen |-> NoRun, verdict |-> None, heard |-> FALSE]

WorkerSteps == {"idle", "find", "merge", "stop", "fetch", "read", "interpret", "reconcile",
                "record", "ask", "mark", "fail"}
CallSteps == {"idle", "read", "record", "ask", "complete", "fail", "answered", "refused"}

TypeOK ==
    /\ run \in Run
    /\ sender \in [pc : {"idle", "settle", "release", "publish", "retry"},
                   seen : Run \cup {NoRun}]
    /\ record \in Records
    /\ transport \in {None, "DELIVERED", "BOUNCED"}
    /\ kind \in [Events -> Kinds \cup {None}]
    /\ event \in [Events -> EventStates]
    /\ posting \subseteq Events
    /\ task \subseteq Events
    /\ tries \in [Events -> Nat]
    /\ webhook \in [Webhooks -> [pc : {"idle", "schedule", "enqueued", "failed"},
                                 event : Events \cup {None}]]
    /\ worker \in [Workers -> [pc : WorkerSteps, event : Events \cup {None},
                               seen : Run \cup {NoRun}, verdict : Verdicts \cup {None},
                               heard : BOOLEAN]]
    /\ call \in [Callbacks -> [pc : CallSteps, posts : 0..MaxPosts, seen : Run \cup {NoRun},
                               verdict : Verdicts]]
    /\ evidence \in [Events \cup Callbacks -> Verdicts \cup {None}]
    /\ interventions \subseteq {"EVIDENCE_CONFLICT", "EMAIL_ROUTE_UNAVAILABLE"}
    /\ troubles \in 0..MaxTroubles
    /\ \A told \in {handled, forsaken, early, spared} : told \subseteq Events

Init ==
    /\ run = ActivatedRun
    /\ record = "ABSENT" /\ transport = None /\ sender = AtRest
    /\ kind = [e \in Events |-> None]
    /\ event = [e \in Events |-> "ABSENT"]
    /\ posting = {}
    /\ task = {}
    /\ tries = [e \in Events |-> 0]
    /\ webhook = [h \in Webhooks |-> Idle]
    /\ worker = [w \in Workers |-> Resting]
    /\ \E says \in [Callbacks -> Verdicts] :
           call = [c \in Callbacks |-> [pc |-> "idle", posts |-> 0, seen |-> NoRun,
                                       verdict |-> says[c]]]
    /\ evidence = [s \in Events \cup Callbacks |-> None]
    /\ interventions = {}
    /\ troubles = 0
    /\ handled = {} /\ forsaken = {} /\ early = {} /\ spared = {}

Trouble == troubles < MaxTroubles /\ troubles' = troubles + 1

-----------------------------------------------------------------------------
(***************************************************************************)
(* The follow-up, the owner and the provider.                              *)
(***************************************************************************)

NoReply == UNCHANGED <<mail, worker, call, evidence, interventions, ghosts>>

\* The first follow-up is reserved and the provider accepts it: from now on there is a
\* message that events and replies can be about.
Send ==
    /\ sender = AtRest
    /\ record = "ABSENT"
    /\ run.state \in Dispatchable
    /\ run.ordinal = 1
    /\ record' = "RESERVED"
    /\ sender' = [pc |-> "settle", seen |-> run]
    /\ UNCHANGED <<run, transport, troubles>>
    /\ NoReply

\* FirestoreRuntimeStore.succeed stores the receipt with the provider's message id; its
\* acknowledgement may be lost.
Settle ==
    /\ sender.pc = "settle"
    /\ record' = "SUCCEEDED"
    /\ \/ sender' = [sender EXCEPT !.pc = "publish"] /\ UNCHANGED troubles
       \/ sender' = [sender EXCEPT !.pc = "release"] /\ Trouble
    /\ UNCHANGED <<run, transport>>
    /\ NoReply

\* FirestoreRuntimeStore.fail deletes the record, receipt and all.
Release ==
    /\ sender.pc = "release"
    /\ record' = "ABSENT"
    /\ transport' = None
    /\ sender' = [sender EXCEPT !.pc = "retry"]
    /\ UNCHANGED <<run, troubles>>
    /\ NoReply

\* The runner's compareAndSet, after a receipt or after a failure.
Publish ==
    /\ sender.pc \in {"publish", "retry"}
    /\ LET seen == sender.seen
           next == IF sender.pc = "publish" THEN Sent(seen)
                   ELSE IF seen.attempts + 1 < MaxAttempts THEN Retried(seen)
                   ELSE RecoveryExhausted(seen)
       IN  run' = IF run.version = seen.version THEN next ELSE run
    /\ sender' = AtRest
    /\ UNCHANGED <<record, transport, troubles>>
    /\ NoReply

\* The owner stops the case, or resumes it.
Control(command) ==
    /\ run.version < MaxVersion
    /\ CommandAllowed(run, FALSE, command)
    /\ run' = Controlled(run, command)
    /\ UNCHANGED <<followUp, mail, worker, call, evidence, interventions, troubles, ghosts>>

\* The provider learns something of the message it has accepted.
Occur(e) ==
    /\ record # "ABSENT"
    /\ kind[e] = None
    /\ \E said \in Kinds : kind' = [kind EXCEPT ![e] = said]
    /\ posting' = posting \cup {e}
    /\ UNCHANGED <<run, followUp, event, task, tries, webhook, worker, call, evidence,
                   interventions, troubles, ghosts>>

-----------------------------------------------------------------------------
(***************************************************************************)
(* handleEmailWebhook, after the signature was verified.                   *)
(***************************************************************************)

WebhookGoes(h, step) == webhook' = [webhook EXCEPT ![h].pc = step]
Accepted(h, e) == webhook' = [webhook EXCEPT ![h] = Idle] /\ posting' = posting \ {e}
Rejected(h) == webhook' = [webhook EXCEPT ![h] = Idle] /\ UNCHANGED posting
Mark(e, status) == event' = [event EXCEPT ![e] = status]
Elsewhere == UNCHANGED <<run, followUp, kind, call, evidence, interventions>>

Known(e) == event[e] # "ABSENT"

\* reserveProviderEvent, one transaction; an event that is known is accepted with 202.
ReserveEvent(h, e) ==
    /\ e \in posting
    /\ webhook[h] = Idle
    /\ IF Known(e)
       THEN Accepted(h, e) /\ UNCHANGED event
       ELSE /\ Mark(e, "RESERVED")
            /\ webhook' = [webhook EXCEPT ![h] = [pc |-> "schedule", event |-> e]]
            /\ UNCHANGED posting
    /\ Elsewhere
    /\ UNCHANGED <<task, tries, worker, troubles, ghosts>>

ScheduleInbound(h) ==
    /\ webhook[h].pc = "schedule"
    /\ task' = task \cup {webhook[h].event}
    /\ WebhookGoes(h, "enqueued")
    /\ Elsewhere
    /\ UNCHANGED <<event, posting, tries, worker, troubles, ghosts>>

\* The task may be done by now: PROCESSED is overwritten.
MarkEnqueued(h) ==
    /\ webhook[h].pc = "enqueued"
    /\ Mark(webhook[h].event, "ENQUEUED")
    /\ Accepted(h, webhook[h].event)
    /\ Elsewhere
    /\ UNCHANGED <<task, tries, worker, troubles, ghosts>>

\* scheduleInbound throws, with or without a task created, or the call that marks the
\* event does.
WebhookThrows(h) ==
    /\ Trouble
    /\ \/ /\ webhook[h].pc = "schedule"
          /\ forsaken' = forsaken \cup {webhook[h].event}
          /\ UNCHANGED task
       \/ /\ webhook[h].pc = "schedule"
          /\ task' = task \cup {webhook[h].event}
          /\ UNCHANGED forsaken
       \/ /\ webhook[h].pc = "enqueued"
          /\ UNCHANGED <<task, forsaken>>
    /\ WebhookGoes(h, "failed")
    /\ Elsewhere
    /\ UNCHANGED <<event, posting, tries, worker, handled, early, spared>>

\* The provider is told 400, posts again, and finds the event in flight.
MarkNotQueued(h) ==
    /\ webhook[h].pc = "failed"
    /\ Mark(webhook[h].event, "FAILED")
    /\ Rejected(h)
    /\ Elsewhere
    /\ UNCHANGED <<task, tries, worker, troubles, ghosts>>

WebhookDies(h) ==
    /\ webhook[h] # Idle
    /\ Trouble
    /\ forsaken' = IF webhook[h].pc = "schedule" THEN forsaken \cup {webhook[h].event} ELSE forsaken
    /\ Rejected(h)
    /\ Elsewhere
    /\ UNCHANGED <<event, task, tries, worker, handled, early, spared>>

-----------------------------------------------------------------------------
(***************************************************************************)
(* The process-inbound task.                                               *)
(***************************************************************************)

WorkerGoes(w, step) == worker' = [worker EXCEPT ![w].pc = step]
Rests(w) == worker' = [worker EXCEPT ![w] = Resting]

\* A delivery of the task.
Deliver(w, e) ==
    /\ e \in task
    /\ worker[w] = Resting
    /\ worker' = [worker EXCEPT ![w] =
           [Resting EXCEPT !.pc = IF kind[e] = "RECEIVED" THEN "fetch" ELSE "find", !.event = e,
                           !.heard = TRUE]]
    /\ task' = task \ {e}
    /\ tries' = [tries EXCEPT ![e] = @ + 1]
    /\ Elsewhere
    /\ UNCHANGED <<event, posting, webhook, troubles, ghosts>>

\* Mutant: a delivery that failed is acknowledged.
RedeliverNever(w) == UNCHANGED <<task, forsaken>>

\* A delivery that the queue waits for has failed: it tries again, or drops the task.
Redeliver(w) ==
    LET e == worker[w].event
        last == tries[e] >= MaxTries
    IN  /\ task' = IF worker[w].heard /\ ~last THEN task \cup {e} ELSE task
        /\ forsaken' = IF worker[w].heard /\ last THEN forsaken \cup {e} ELSE forsaken

\* recordTransportEvent looks for the receipt of the message; where there is none, it
\* was a notice's message or nobody's.
FindReceipt(w) ==
    /\ worker[w].pc = "find"
    /\ IF record \in {"SUCCEEDED", "STATUSLESS"}
       THEN WorkerGoes(w, "merge") /\ UNCHANGED early
       ELSE WorkerGoes(w, "mark") /\ early' = early \cup {worker[w].event}
    /\ Elsewhere
    /\ UNCHANGED <<mail, troubles, handled, forsaken, spared>>

\* The receipt read is merged back: what was deleted since comes back without a status.
MergeReceipt(w) ==
    /\ worker[w].pc = "merge"
    /\ record' = IF record = "ABSENT" THEN "STATUSLESS" ELSE record
    /\ transport' = kind[worker[w].event]
    /\ WorkerGoes(w, IF transport' = "BOUNCED" THEN "stop" ELSE "mark")
    /\ UNCHANGED <<run, sender, mail, call, evidence, interventions, troubles, ghosts>>

\* Mutant: a case that asks the owner already is left alone.
OverOrAsking == run.state \in {"DONE", "CANCELLED", "NEEDS_ATTENTION"}

Over == run.state \in {"DONE", "CANCELLED"}

\* The transaction that stops the case and asks the owner.
StopCase(w) ==
    /\ worker[w].pc = "stop"
    /\ IF Over
       THEN UNCHANGED <<run, interventions>>
       ELSE /\ run' = Bounced(run)
            /\ interventions' = interventions \cup {"EMAIL_ROUTE_UNAVAILABLE"}
    /\ spared' = IF run.state \in {"DONE", "CANCELLED"} THEN spared \cup {worker[w].event}
                 ELSE spared
    /\ WorkerGoes(w, "mark")
    /\ UNCHANGED <<followUp, mail, call, evidence, troubles, handled, forsaken, early>>

\* The mail is fetched and its envelope stored, for nothing that reads it.
FetchMail(w) ==
    /\ worker[w].pc = "fetch"
    /\ WorkerGoes(w, "read")
    /\ Elsewhere
    /\ UNCHANGED <<mail, troubles, ghosts>>

\* InboundService.process: the mail's routes lead to no case, to several, or to another than
\* its thread; else the case is read, and a reply to one that is not waiting is done with.
ReadCase(w) ==
    /\ worker[w].pc = "read"
    /\ \/ WorkerGoes(w, "mark")
       \/ run.state = "WAITING_EXTERNAL" /\ WorkerGoes(w, "interpret")
    /\ Elsewhere
    /\ UNCHANGED <<mail, troubles, ghosts>>

\* The sender is not the counterparty, the terms change, or the reply is unclear; else
\* the reply is a candidate.
Interpret(w) ==
    /\ worker[w].pc = "interpret"
    /\ \/ /\ interventions' = interventions \cup {"EVIDENCE_CONFLICT"}
          /\ WorkerGoes(w, "mark")
       \/ /\ WorkerGoes(w, "reconcile")
          /\ UNCHANGED interventions
    /\ UNCHANGED <<run, followUp, mail, call, evidence, troubles, ghosts>>

AcceptsEvidence == run.state = "WAITING_EXTERNAL"

\* EvidenceService.reconcile reads the case again, and throws if it is not waiting.
Reconcile(w) ==
    /\ worker[w].pc = "reconcile"
    /\ IF AcceptsEvidence
       THEN \E verdict \in Verdicts :
              worker' = [worker EXCEPT ![w].pc = "record", ![w].seen = run, ![w].verdict = verdict]
       ELSE WorkerGoes(w, "fail")
    /\ Elsewhere
    /\ UNCHANGED <<mail, troubles, ghosts>>

\* Mutant: the version is not compared.
UnmovedSinceIgnored(seen) == TRUE

UnmovedSince(seen) == run.version = seen.version

\* The record transaction for a candidate of source s: the evidence and the next state.
Applies(s, seen, verdict) ==
    /\ evidence[s] = None
    /\ UnmovedSince(seen)
    /\ evidence' = [evidence EXCEPT ![s] = verdict]
    /\ run' = Evidenced(run, verdict)
Refuses(s, seen) == evidence[s] = None /\ ~UnmovedSince(seen) /\ UNCHANGED <<evidence, run>>
Repeats(s) == evidence[s] # None /\ UNCHANGED <<evidence, run>>

RecordReply(w) ==
    /\ worker[w].pc = "record"
    /\ LET s == worker[w].event
           after == IF worker[w].verdict = "CONFLICT" THEN "ask" ELSE "mark"
       IN  \/ Applies(s, worker[w].seen, worker[w].verdict) /\ WorkerGoes(w, after)
           \/ Repeats(s) /\ WorkerGoes(w, after)
           \/ Refuses(s, worker[w].seen) /\ WorkerGoes(w, "fail")
    /\ UNCHANGED <<followUp, mail, call, interventions, troubles, ghosts>>

Ask(w) ==
    /\ worker[w].pc = "ask"
    /\ interventions' = interventions \cup {"EVIDENCE_CONFLICT"}
    /\ WorkerGoes(w, "mark")
    /\ UNCHANGED <<run, followUp, mail, call, evidence, troubles, ghosts>>

MarkProcessed(w) ==
    /\ worker[w].pc = "mark"
    /\ Mark(worker[w].event, "PROCESSED")
    /\ handled' = handled \cup {worker[w].event}
    /\ Rests(w)
    /\ Elsewhere
    /\ UNCHANGED <<posting, task, tries, webhook, troubles, forsaken, early, spared>>

\* The catch marks the event FAILED and answers 500.
MarkFailed(w) ==
    /\ worker[w].pc = "fail"
    /\ Mark(worker[w].event, "FAILED")
    /\ Redeliver(w)
    /\ Rests(w)
    /\ Elsewhere
    /\ UNCHANGED <<posting, tries, webhook, troubles, handled, early, spared>>

WorkerThrows(w) ==
    /\ worker[w].pc \notin {"idle", "fail"}
    /\ Trouble
    /\ WorkerGoes(w, "fail")
    /\ Elsewhere
    /\ UNCHANGED <<mail, ghosts>>

WorkerDies(w) ==
    /\ worker[w].pc # "idle"
    /\ Trouble
    /\ Redeliver(w)
    /\ Rests(w)
    /\ Elsewhere
    /\ UNCHANGED <<event, posting, tries, webhook, handled, early, spared>>

\* The queue gives up waiting for a delivery that runs on.
DeliverAgain(w) ==
    /\ worker[w].heard
    /\ Trouble
    /\ Redeliver(w)
    /\ worker' = [worker EXCEPT ![w].heard = FALSE]
    /\ Elsewhere
    /\ UNCHANGED <<event, posting, tries, webhook, handled, early, spared>>

-----------------------------------------------------------------------------
(***************************************************************************)
(* handleMerchantCallback, and the sandbox's deliverCallbackWithRetry.     *)
(***************************************************************************)

CallGoes(c, step) == call' = [call EXCEPT ![c].pc = step]
NoMail == UNCHANGED <<followUp, mail, worker>>

TriesAgain(c) == call[c].posts < MaxPosts

\* reserveCallback: the timestamp is new, so the key is.
Post(c) ==
    /\ record # "ABSENT"
    /\ call[c].pc = "idle"
    /\ TriesAgain(c)
    /\ call' = [call EXCEPT ![c].pc = "read", ![c].posts = @ + 1]
    /\ NoMail
    /\ UNCHANGED <<run, evidence, interventions, troubles, ghosts>>

ReconcileCall(c) ==
    /\ call[c].pc = "read"
    /\ call' = IF AcceptsEvidence
               THEN [call EXCEPT ![c].pc = "record", ![c].seen = run]
               ELSE [call EXCEPT ![c].pc = "fail"]
    /\ NoMail
    /\ UNCHANGED <<run, evidence, interventions, troubles, ghosts>>

RecordCall(c) ==
    /\ call[c].pc = "record"
    /\ LET after == IF call[c].verdict = "CONFLICT" THEN "ask" ELSE "complete"
       IN  \/ Applies(c, call[c].seen, call[c].verdict) /\ CallGoes(c, after)
           \/ Repeats(c) /\ CallGoes(c, after)
           \/ Refuses(c, call[c].seen) /\ CallGoes(c, "fail")
    /\ NoMail
    /\ UNCHANGED <<interventions, troubles, ghosts>>

AskAfterCall(c) ==
    /\ call[c].pc = "ask"
    /\ interventions' = interventions \cup {"EVIDENCE_CONFLICT"}
    /\ CallGoes(c, "complete")
    /\ NoMail
    /\ UNCHANGED <<run, evidence, troubles, ghosts>>

Forget(c, pc) == call' = [call EXCEPT ![c].pc = pc, ![c].seen = NoRun]

\* completeCallback; the sandbox is content.
Complete(c) ==
    /\ call[c].pc = "complete"
    /\ Forget(c, "answered")
    /\ NoMail
    /\ UNCHANGED <<run, evidence, interventions, troubles, ghosts>>

\* Mutant: a case that is not waiting refuses the callback for good.
AnsweredForGood(c) == "answered"

\* A case that has moved or is not waiting answers 409, and the sandbox tries again.
AnsweredNotReady(c) == "idle"

\* failCallback deletes the reservation.
FailCallback(c) ==
    /\ call[c].pc = "fail"
    /\ Forget(c, AnsweredNotReady(c))
    /\ NoMail
    /\ UNCHANGED <<run, evidence, interventions, troubles, ghosts>>

\* An await throws: 422, and the sandbox gives up.
CallThrows(c) ==
    /\ call[c].pc \in {"read", "record", "ask", "complete"}
    /\ Trouble
    /\ Forget(c, "refused")
    /\ NoMail
    /\ UNCHANGED <<run, evidence, interventions, ghosts>>

\* The instance dies: 5xx, and the sandbox tries again.
CallDies(c) ==
    /\ call[c].pc \in {"read", "record", "ask", "complete", "fail"}
    /\ Trouble
    /\ Forget(c, "idle")
    /\ NoMail
    /\ UNCHANGED <<run, evidence, interventions, ghosts>>

-----------------------------------------------------------------------------
WebhookStep(h) ==
    \/ \E e \in Events : ReserveEvent(h, e)
    \/ ScheduleInbound(h)
    \/ MarkEnqueued(h)
    \/ MarkNotQueued(h)

WorkerStep(w) ==
    \/ FindReceipt(w)
    \/ MergeReceipt(w)
    \/ StopCase(w)
    \/ FetchMail(w)
    \/ ReadCase(w)
    \/ Interpret(w)
    \/ Reconcile(w)
    \/ RecordReply(w)
    \/ Ask(w)
    \/ MarkProcessed(w)
    \/ MarkFailed(w)

CallStep(c) ==
    \/ Post(c)
    \/ ReconcileCall(c)
    \/ RecordCall(c)
    \/ AskAfterCall(c)
    \/ Complete(c)
    \/ FailCallback(c)

Next ==
    \/ Send \/ Settle \/ Release \/ Publish
    \/ \E command \in {"STOP", "RESUME"} : Control(command)
    \/ \E e \in Events : Occur(e)
    \/ \E h \in Webhooks : WebhookStep(h) \/ WebhookThrows(h) \/ WebhookDies(h)
    \/ \E w \in Workers, e \in Events : Deliver(w, e)
    \/ \E w \in Workers : WorkerStep(w) \/ WorkerThrows(w) \/ WorkerDies(w) \/ DeliverAgain(w)
    \/ \E c \in Callbacks : CallStep(c) \/ CallThrows(c) \/ CallDies(c)

Spec == Init /\ [][Next]_vars

\* Cloud Run ends what it has begun, the provider posts until it is answered, and the
\* queue delivers a task that waits once a worker is free for long enough.  Nothing is
\* assumed of the follow-up, the owner and the merchant.
FairSpec ==
    /\ Spec
    /\ \A h \in Webhooks : WF_vars(WebhookStep(h))
    /\ \A w \in Workers : WF_vars(WorkerStep(w))
    /\ \A e \in Events : WF_vars(\E w \in Workers : Deliver(w, e))

-----------------------------------------------------------------------------
\* An event the webhook has taken is not lost on its way: its webhook or a worker is at it
\* or the queue owes it, until it is processed.  The exceptions are an event whose webhook
\* stopped before it had queued the task, as the provider's next post finds it in flight,
\* and one whose task has failed as often as the queue tries.
EventsAttended ==
    \A e \in Events : event[e] # "ABSENT" =>
        \/ e \in handled \cup forsaken
        \/ e \in task
        \/ \E h \in Webhooks : webhook[h].pc = "schedule" /\ webhook[h].event = e
        \/ \E w \in Workers : worker[w].event = e

\* A bounce, a complaint or a suppression that was processed has stopped the case and asked
\* the owner about the route; it is without effect only when no receipt was there to name
\* the case or when the case had ended.
BounceReachesOwner ==
    \A e \in handled : kind[e] = "BOUNCED" =>
        "EMAIL_ROUTE_UNAVAILABLE" \in interventions \/ e \in early \cup spared

Document == INSTANCE CaseDocument WITH doc <- run, gone <- FALSE, expired <- FALSE, permitted <- TRUE

\* However long the follow-up's call and the reading of a reply take, and whichever event or
\* callback comes first, the document evolves as if each writer had decided on the version
\* it rewrites: an answer counts only for a case that waits for it, not once the owner
\* stopped it or the route failed.
KeepsDocument == Document!Spec

\* A merchant that was answered with success has its evidence on record: a callback that
\* overtakes the case's own progress is answered with a conflict and posted again.
AnsweredIsRecorded ==
    \A c \in Callbacks : call[c].pc = "answered" => evidence[c] # None

\* Every event taken is processed in the end, or was left by its webhook or by the queue
\* after its last try.
EventsSettle ==
    \A e \in Events : event[e] # "ABSENT" ~> e \in handled \cup forsaken
=============================================================================
