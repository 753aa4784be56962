--------------------------- MODULE RepliesProofs ---------------------------
(***************************************************************************)
(* Proofs about Replies for every number of events, callbacks, webhooks,   *)
(* workers, posts and failures.                                            *)
(*                                                                         *)
(* Most of the state only grows: the run's version, what an event says,    *)
(* the evidence, the interventions and the history of the events.  What a  *)
(* webhook, a worker or a callback knows of it therefore stays true while  *)
(* others act, and a step has to answer only for the one that takes it.    *)
(***************************************************************************)
EXTENDS Replies, CaseRunsProofs

\* The run was waiting when it was read; if its version stands it still is.
ReadWaiting(seen) ==
    /\ seen \in Run
    /\ seen.state = "WAITING_EXTERNAL"
    /\ seen.version <= run.version
    /\ seen.version = run.version => run.state = "WAITING_EXTERNAL"

\* The follow-up under way is the first, of a run that had work when it was read.
ReadReady(seen) ==
    /\ seen \in Run /\ seen.ordinal = 1 /\ seen.state \in Dispatchable
    /\ seen.version <= run.version
    /\ seen.version = run.version => run = seen

SenderKnows == sender.pc # "idle" => ReadReady(sender.seen)

\* What a webhook knows of its event.
WebhookKnows(x) ==
    /\ x.pc # "idle" => x.event \in Events /\ event[x.event] # "ABSENT" /\ kind[x.event] # None
    /\ x.pc = "idle" => x = Idle

\* The owner has been asked about the route, or bounce e had no case to stop.
Reached(e) == "EMAIL_ROUTE_UNAVAILABLE" \in interventions \/ e \in early \cup spared

\* What a worker knows of its event and of the run.
WorkerKnows(x) ==
    /\ x.pc # "idle" => x.event \in Events /\ kind[x.event] # None /\ event[x.event] # "ABSENT"
    /\ x.pc = "idle" => x = Resting
    /\ x.pc \in {"find", "merge", "stop"} => kind[x.event] # "RECEIVED"
    /\ x.pc \in {"fetch", "read", "interpret", "reconcile", "record", "ask"} =>
          kind[x.event] = "RECEIVED"
    /\ x.pc = "record" => ReadWaiting(x.seen) /\ x.verdict \in Verdicts
    /\ x.pc = "mark" /\ kind[x.event] = "BOUNCED" => Reached(x.event)

\* What callback c knows of the run and has stored.
CallKnows(c) ==
    /\ call[c].pc = "record" => ReadWaiting(call[c].seen)
    /\ call[c].pc \in {"ask", "complete", "answered"} => evidence[c] # None

\* What is posted, reserved, queued or handled has happened.
EventsHappened ==
    \A e \in Events :
        /\ e \in posting \cup handled \cup task \/ event[e] # "ABSENT" => kind[e] # None
        /\ e \in task => event[e] # "ABSENT"

\* Stronger than EventsAttended: it does without workers whose answer nobody awaits.
EventsAwaited ==
    \A e \in Events : event[e] # "ABSENT" =>
        \/ e \in handled \cup forsaken \cup task
        \/ \E h \in Webhooks : webhook[h].pc = "schedule" /\ webhook[h].event = e
        \/ \E w \in Workers : worker[w].event = e /\ worker[w].heard

Inv ==
    /\ TypeOK
    /\ SenderKnows
    /\ \A h \in Webhooks : WebhookKnows(webhook[h])
    /\ \A w \in Workers : WorkerKnows(worker[w])
    /\ \A c \in Callbacks : CallKnows(c)
    /\ EventsHappened
    /\ EventsAwaited
    /\ BounceReachesOwner

-----------------------------------------------------------------------------
(***************************************************************************)
(* What only grows.                                                        *)
(***************************************************************************)

RunGrows == run' = run \/ (run' \in Run /\ run'.version > run.version)

Grows ==
    /\ RunGrows
    /\ \A e \in Events : kind[e] # None => kind'[e] = kind[e]
    /\ \A e \in Events : event[e] # "ABSENT" => event'[e] # "ABSENT"
    /\ \A s \in Events \cup Callbacks : evidence[s] # None => evidence'[s] # None
    /\ interventions \subseteq interventions'
    /\ early \subseteq early' /\ spared \subseteq spared'

\* The run stands, or is rewritten as CaseDocument allows.
Rewritten == run' = run \/ Document!Next

\* The instance has copies of the definitions of CaseRuns.
LEMMA SameDispatchable == Document!Dispatchable = Dispatchable
BY DEF Dispatchable, Document!Dispatchable

LEMMA SameRewrites ==
    /\ Document!ActivatedRun = ActivatedRun
    /\ \A r : /\ Document!Sent(r) = Sent(r)
              /\ Document!Retried(r) = Retried(r)
              /\ Document!RecoveryExhausted(r) = RecoveryExhausted(r)
              /\ Document!BudgetExhausted(r) = BudgetExhausted(r)
              /\ Document!Denied(r) = Denied(r)
              /\ Document!Bounced(r) = Bounced(r)
<1>1. \A r, s, wake : /\ Document!Moved(r, s, wake) = Moved(r, s, wake)
                      /\ Document!Attempted(r, s, wake) = Attempted(r, s, wake)
  BY Zenon DEF Moved, Document!Moved, Attempted, Document!Attempted
<1>2. ASSUME NEW r
      PROVE  /\ Document!Sent(r) = Sent(r)
             /\ Document!Retried(r) = Retried(r)
             /\ Document!RecoveryExhausted(r) = RecoveryExhausted(r)
             /\ Document!BudgetExhausted(r) = BudgetExhausted(r)
             /\ Document!Denied(r) = Denied(r)
             /\ Document!Bounced(r) = Bounced(r)
  BY <1>1, Zenon
     DEF Sent, Document!Sent, Retried, Document!Retried,
         RecoveryExhausted, Document!RecoveryExhausted, BudgetExhausted, Document!BudgetExhausted,
         Denied, Document!Denied, Bounced, Document!Bounced
<1>3. Document!ActivatedRun = ActivatedRun
  BY DEF ActivatedRun, Document!ActivatedRun
<1> QED
  BY <1>2, <1>3

LEMMA SameAnswers ==
    /\ Document!Verdicts = Verdicts
    /\ \A r, verdict : Document!Evidenced(r, verdict) = Evidenced(r, verdict)
<1>1. \A r, s, wake : Document!Moved(r, s, wake) = Moved(r, s, wake)
  BY DEF Moved, Document!Moved
<1>2. \A verdict : Document!StateFor(verdict) = StateFor(verdict)
  BY Zenon DEF StateFor, Document!StateFor
<1>3. \A r, verdict : Document!Evidenced(r, verdict) = Evidenced(r, verdict)
  BY <1>1, <1>2, Zenon DEF Evidenced, Document!Evidenced
<1> QED
  BY <1>3 DEF Verdicts, Document!Verdicts

LEMMA SameCommands ==
    /\ Document!Commands = Commands
    /\ \A r, late, command :
          /\ Document!CommandAllowed(r, late, command) = CommandAllowed(r, late, command)
          /\ Document!Controlled(r, command) = Controlled(r, command)
<1>1. \A r, s, wake : Document!Moved(r, s, wake) = Moved(r, s, wake)
  BY DEF Moved, Document!Moved
<1>2. \A r, s : Document!Withdrawn(r, s) = Withdrawn(r, s)
  BY <1>1, Zenon DEF Withdrawn, Document!Withdrawn
<1>3. \A r, command : Document!Controlled(r, command) = Controlled(r, command)
  BY <1>1, <1>2, Zenon DEF Controlled, Document!Controlled
<1>4. \A r, late, command :
          Document!CommandAllowed(r, late, command) = CommandAllowed(r, late, command)
  BY Zenon DEF CommandAllowed, Document!CommandAllowed
<1> QED
  BY <1>3, <1>4 DEF Commands, Document!Commands

LEMMA Limits ==
    /\ MaxTries \in Nat /\ MaxPosts \in Nat /\ MaxVersion \in Nat /\ MaxTroubles \in Nat
    /\ None \notin Events /\ None \notin Kinds /\ None \notin Verdicts
    /\ \A c \in Callbacks : c \notin Events
BY RepliesAssumption

LEMMA NoRunIsRun == NoRun \in Run
<1>1. ActivatedRun \in Run
  BY ActivatedRunType
<1> QED
  BY <1>1 DEF NoRun, Run

LEMMA RunSeen ==
    ASSUME TypeOK
    PROVE  /\ run \in Run
           /\ sender.seen \in Run
           /\ \A w \in Workers : worker[w].seen \in Run
           /\ \A c \in Callbacks : call[c].seen \in Run
BY NoRunIsRun DEF TypeOK

LEMMA ReadStands ==
    ASSUME run \in Run, RunGrows, NEW seen, ReadWaiting(seen)
    PROVE  ReadWaiting(seen)'
<1>1. seen.version \in Nat /\ run.version \in Nat /\ run'.version \in Nat
  BY RunFields DEF ReadWaiting, RunGrows
<1> QED
  BY <1>1 DEF ReadWaiting, RunGrows

LEMMA ReadyStands ==
    ASSUME run \in Run, RunGrows, NEW seen, ReadReady(seen)
    PROVE  ReadReady(seen)'
<1>1. seen.version \in Nat /\ run.version \in Nat /\ run'.version \in Nat
  BY RunFields DEF ReadReady, RunGrows
<1> QED
  BY <1>1 DEF ReadReady, RunGrows

\* What the others know stays true.
LEMMA OthersKnow ==
    ASSUME Inv, Grows
    PROVE  /\ \A h \in Webhooks : webhook'[h] = webhook[h] => WebhookKnows(webhook[h])'
           /\ \A w \in Workers : worker'[w] = worker[w] => WorkerKnows(worker[w])'
           /\ \A c \in Callbacks : call'[c] = call[c] => CallKnows(c)'
           /\ sender' = sender => SenderKnows'
<1>1. \A seen : ReadWaiting(seen) => ReadWaiting(seen)'
  BY ReadStands DEF Inv, TypeOK, Grows
<1>2. ASSUME NEW h \in Webhooks, webhook'[h] = webhook[h]
      PROVE  WebhookKnows(webhook[h])'
  <2>1. WebhookKnows(webhook[h])
    BY DEF Inv
  <2> QED
    BY <1>2, <2>1 DEF WebhookKnows, Grows
<1>3. ASSUME NEW w \in Workers, worker'[w] = worker[w]
      PROVE  WorkerKnows(worker[w])'
  <2>1. WorkerKnows(worker[w])
    BY DEF Inv
  <2>2. Reached(worker[w].event) => Reached(worker[w].event)'
    BY <1>3 DEF Reached, Grows
  <2>3. worker[w].pc # "idle" => kind'[worker[w].event] = kind[worker[w].event]
    BY <2>1 DEF WorkerKnows, Grows
  <2>4. worker[w].seen = worker'[w].seen
    BY <1>3
  <2> QED
    BY <1>1, <1>3, <2>1, <2>2, <2>3, <2>4 DEF WorkerKnows, Grows
<1>4. ASSUME NEW c \in Callbacks, call'[c] = call[c]
      PROVE  CallKnows(c)'
  BY <1>1, <1>4 DEF Inv, CallKnows, Grows
<1>5. sender' = sender => SenderKnows'
  BY ReadyStands DEF Inv, TypeOK, Grows, SenderKnows
<1> QED
  BY <1>2, <1>3, <1>4, <1>5

\* The mail's way and the history of its events are left alone.
LEMMA MailStands ==
    ASSUME Inv, Grows, UNCHANGED <<mail, worker, ghosts>>
    PROVE  EventsHappened' /\ EventsAwaited' /\ BounceReachesOwner'
<1>1. UNCHANGED <<kind, event, posting, task, tries, webhook, worker, handled, forsaken, early, spared>>
  BY DEF mail, ghosts
<1> QED
  BY <1>1 DEF Inv, Grows, EventsHappened, EventsAwaited, BounceReachesOwner

\* A bounce that was handled has reached the owner, while no other event is.
LEMMA BouncesReach ==
    ASSUME Inv, Grows, handled' = handled
    PROVE  BounceReachesOwner'
<1>1. \A e \in handled : e \in Events /\ kind[e] # None
  BY DEF Inv, TypeOK, EventsHappened
<1> QED
  BY <1>1 DEF Inv, Grows, BounceReachesOwner

LEMMA InitInv == Init => Inv
<1> SUFFICES ASSUME Init PROVE Inv
  OBVIOUS
<1>1. PICK says \in [Callbacks -> Verdicts] :
          call = [c \in Callbacks |-> [pc |-> "idle", posts |-> 0, seen |-> NoRun,
                                      verdict |-> says[c]]]
  BY DEF Init
<1>2. run \in Run /\ AtRest.seen \in Run
  BY NoRunIsRun, ActivatedRunType DEF Init, AtRest
<1>3. call \in [Callbacks -> [pc : CallSteps, posts : 0..MaxPosts, seen : Run \cup {NoRun},
                              verdict : Verdicts]]
  BY <1>1, Limits DEF CallSteps
<1>4. worker \in [Workers -> [pc : WorkerSteps, event : Events \cup {None},
                              seen : Run \cup {NoRun}, verdict : Verdicts \cup {None}, heard : BOOLEAN]]
  BY DEF Init, Resting, WorkerSteps
<1>5. TypeOK
  BY <1>2, <1>3, <1>4, Limits DEF Init, TypeOK, AtRest, Idle, Records, EventStates
<1>6. SenderKnows /\ EventsHappened /\ EventsAwaited /\ BounceReachesOwner
  BY DEF Init, SenderKnows, AtRest, EventsHappened, EventsAwaited, BounceReachesOwner
<1>7. /\ \A h \in Webhooks : WebhookKnows(webhook[h])
      /\ \A w \in Workers : WorkerKnows(worker[w])
      /\ \A c \in Callbacks : CallKnows(c)
  BY <1>1 DEF Init, WebhookKnows, WorkerKnows, CallKnows, Idle, Resting
<1> QED
  BY <1>5, <1>6, <1>7 DEF Inv

-----------------------------------------------------------------------------
(***************************************************************************)
(* The follow-up, the owner and the provider.                              *)
(***************************************************************************)

\* A step of the run or of its follow-up that leaves everything else alone.
LEMMA RunSteps ==
    ASSUME Inv, RunGrows, UNCHANGED <<mail, worker, call, evidence, interventions, ghosts>>,
           record' \in Records, transport' \in {None, "DELIVERED", "BOUNCED"},
           sender' \in [pc : {"idle", "settle", "release", "publish", "retry"},
                        seen : Run \cup {NoRun}],
           troubles' \in 0..MaxTroubles, SenderKnows'
    PROVE  Inv'
<1>1. /\ UNCHANGED <<kind, event, posting, task, tries, webhook, worker, call, evidence, interventions,
                     handled, forsaken, early, spared>>
      /\ Grows
  BY DEF mail, ghosts, Grows
<1>2. run' \in Run
  BY DEF RunGrows, Inv, TypeOK
<1>3. TypeOK'
  BY <1>1, <1>2 DEF Inv, TypeOK
<1>4. /\ \A h \in Webhooks : WebhookKnows(webhook[h])'
      /\ \A w \in Workers : WorkerKnows(worker[w])'
      /\ \A c \in Callbacks : CallKnows(c)'
  BY <1>1, OthersKnow
<1>5. EventsHappened' /\ EventsAwaited' /\ BounceReachesOwner'
  BY <1>1, MailStands
<1> QED
  BY <1>3, <1>4, <1>5 DEF Inv

LEMMA Troubles ==
    ASSUME TypeOK, Trouble \/ UNCHANGED troubles
    PROVE  troubles' \in 0..MaxTroubles
BY Limits DEF TypeOK, Trouble

LEMMA SendKeeps ==
    ASSUME Inv, Send \/ Settle \/ Release
    PROVE  Inv' /\ Rewritten
<1>1. /\ UNCHANGED <<run, mail, worker, call, evidence, interventions, ghosts>>
      /\ record' \in Records /\ transport' \in {None, "DELIVERED", "BOUNCED"}
      /\ troubles' \in 0..MaxTroubles
  BY Troubles DEF Send, Settle, Release, NoReply, Records, Inv, TypeOK
<1>2. /\ sender' \in [pc : {"idle", "settle", "release", "publish", "retry"},
                       seen : Run \cup {NoRun}]
      /\ SenderKnows'
  <2>1. CASE Send
    <3>1. ReadReady(run)
      BY <2>1, RunSeen, RunFields DEF Send, ReadReady, Inv
    <3> QED
      BY <2>1, <3>1, RunSeen DEF Send, SenderKnows, ReadReady, Inv
  <2>2. CASE Settle \/ Release
    <3>1. PICK step \in {"publish", "release", "retry"} : sender' = [sender EXCEPT !.pc = step]
      BY <2>2 DEF Settle, Release
    <3>2. sender.pc # "idle" /\ sender \in [pc : {"idle", "settle", "release", "publish", "retry"},
                                            seen : Run \cup {NoRun}]
      BY <2>2 DEF Settle, Release, Inv, TypeOK
    <3> QED
      BY <1>1, <3>1, <3>2 DEF SenderKnows, ReadReady, Inv
  <2> QED
    BY <2>1, <2>2
<1> QED
  BY <1>1, <1>2, RunSteps DEF RunGrows, Rewritten

LEMMA AtRestType ==
    AtRest \in [pc : {"idle", "settle", "release", "publish", "retry"}, seen : Run \cup {NoRun}]
BY DEF AtRest

LEMMA PublishKeeps ==
    ASSUME Inv, Publish
    PROVE  Inv' /\ Rewritten
<1> DEFINE seen == sender.seen
           next == IF sender.pc = "publish" THEN Sent(seen)
                   ELSE IF seen.attempts + 1 < MaxAttempts THEN Retried(seen)
                   ELSE RecoveryExhausted(seen)
<1>1. /\ run' = IF run.version = seen.version THEN next ELSE run
      /\ sender' = AtRest /\ sender.pc # "idle"
      /\ UNCHANGED <<record, transport, troubles, mail, worker, call, evidence, interventions,
                     ghosts>>
  BY DEF Publish, NoReply
<1>2. /\ seen \in Run /\ seen.ordinal = 1 /\ seen.version \in Nat /\ run.version \in Nat
      /\ seen.state \in Dispatchable
      /\ seen.version = run.version => run = seen
  BY <1>1, RunSeen, RunFields DEF Inv, SenderKnows, ReadReady
<1>3. next \in Run /\ next.version = seen.version + 1
  <2>1. CASE sender.pc = "publish"
    <3>1. Sent(seen) \in Run /\ Sent(seen).version = seen.version + 1
      BY <1>2, LimitsAssumption DEF Sent, Run, RunStates
    <3> QED
      BY <2>1, <3>1
  <2>2. CASE sender.pc # "publish"
    BY <1>2, <2>2, RunnerRewrites
  <2> QED
    BY <2>1, <2>2
<1>4. ASSUME run.version = seen.version
      PROVE  Document!Attempt
  <2>1. run = seen /\ run' = next
    BY <1>1, <1>2, <1>4
  <2>2. run.attempts \in Nat /\ MaxAttempts \in Nat
    BY <1>2, <2>1, RunFields, LimitsAssumption
  <2>3. \/ run' = Sent(run)
        \/ run.attempts + 1 < MaxAttempts /\ run' = Retried(run)
        \/ run.attempts + 1 >= MaxAttempts /\ run' = RecoveryExhausted(run)
    BY <2>1, <2>2
  <2> QED
    BY <1>2, <2>1, <2>3, LimitsAssumption, SameDispatchable, SameRewrites
       DEF Document!Attempt, Document!Becomes
<1> HIDE DEF next
<1>5. RunGrows /\ Rewritten
  <2>1. CASE run.version = seen.version
    BY <1>1, <1>2, <1>3, <1>4, <2>1 DEF RunGrows, Rewritten, Document!Next
  <2> QED
    BY <1>1, <2>1 DEF RunGrows, Rewritten
<1>6. SenderKnows'
  BY <1>1 DEF SenderKnows, AtRest
<1> QED
  BY <1>1, <1>5, <1>6, AtRestType, RunSteps DEF Inv, TypeOK

LEMMA ControlKeeps ==
    ASSUME Inv, NEW command \in {"STOP", "RESUME"}, Control(command)
    PROVE  Inv' /\ Rewritten
<1>1. /\ run' = Controlled(run, command)
      /\ UNCHANGED <<record, transport, sender, mail, worker, call, evidence, interventions,
                     troubles, ghosts>>
  BY DEF Control, followUp
<1>2. run \in Run /\ command \in Commands /\ run.version \in Nat
  BY RunFields DEF Inv, TypeOK, Commands
<1>3. run' \in Run /\ run'.version > run.version
  BY <1>1, <1>2, ControlRewrites
<1>4. RunGrows /\ SenderKnows'
  BY <1>1, <1>2, <1>3, ReadyStands DEF Inv, RunGrows, SenderKnows
<1>5. Document!Command(command)
  BY <1>1, <1>2, SameCommands DEF Control, Document!Command, Document!Becomes
<1>6. Rewritten
  BY <1>2, <1>5, SameCommands DEF Rewritten, Document!Next
<1> QED
  BY <1>1, <1>4, <1>6, RunSteps DEF Inv, TypeOK

LEMMA OccurKeeps ==
    ASSUME Inv, NEW e \in Events, Occur(e)
    PROVE  Inv' /\ Rewritten
<1>1. PICK said \in Kinds :
          /\ kind[e] = None /\ kind' = [kind EXCEPT ![e] = said] /\ posting' = posting \cup {e}
          /\ UNCHANGED <<run, record, transport, sender, event, task, tries, webhook, worker, call,
                         evidence, interventions, troubles, handled, forsaken, early, spared>>
  BY DEF Occur, followUp, ghosts
<1>2. Grows
  BY <1>1 DEF Grows, RunGrows, Inv, TypeOK
<1>3. TypeOK'
  BY <1>1 DEF Inv, TypeOK
<1>4. EventsHappened' /\ EventsAwaited'
  BY <1>1, Limits DEF Inv, TypeOK, EventsHappened, EventsAwaited
<1>5. BounceReachesOwner'
  BY <1>1, <1>2, BouncesReach
<1> QED
  BY <1>1, <1>2, <1>3, <1>4, <1>5, OthersKnow DEF Inv, Rewritten

-----------------------------------------------------------------------------
(***************************************************************************)
(* The webhook.                                                            *)
(***************************************************************************)

Hook == [pc : {"idle", "schedule", "enqueued", "failed"}, event : Events \cup {None}]

LEMMA WebhookSteps ==
    ASSUME Inv, Elsewhere, UNCHANGED <<tries, worker, handled, early, spared>>,
           NEW h \in Webhooks, NEW x \in Hook, webhook' = [webhook EXCEPT ![h] = x],
           x.pc # "idle" => x.event \in Events /\ event'[x.event] # "ABSENT" /\ kind[x.event] # None,
           x.pc = "idle" => x = Idle,
           event' \in [Events -> EventStates],
           \A e \in Events : event[e] # "ABSENT" => event'[e] # "ABSENT",
           posting' \subseteq posting, task' \subseteq Events, forsaken' \subseteq Events,
           troubles' \in 0..MaxTroubles, EventsHappened', EventsAwaited'
    PROVE  Inv' /\ Rewritten
<1>1. UNCHANGED <<run, record, transport, sender, kind, call, evidence, interventions>>
  BY DEF Elsewhere, followUp
<1>2. /\ webhook' \in [Webhooks -> Hook]
      /\ webhook'[h] = x
      /\ \A u \in Webhooks : u # h => webhook'[u] = webhook[u]
  BY DEF Inv, TypeOK, Hook
<1>3. Grows
  BY <1>1 DEF Grows, RunGrows
<1>4. TypeOK'
  BY <1>1, <1>2 DEF Inv, TypeOK, Hook
<1>5. \A u \in Webhooks : WebhookKnows(webhook[u])'
  <2>1. WebhookKnows(webhook[h])'
    BY <1>1, <1>2 DEF WebhookKnows
  <2> QED
    BY <1>2, <1>3, <2>1, OthersKnow
<1>6. BounceReachesOwner'
  BY <1>3, BouncesReach
<1> QED
  BY <1>1, <1>3, <1>4, <1>5, <1>6, OthersKnow DEF Inv, Rewritten

LEMMA IdleHook == Idle \in Hook /\ Idle.pc = "idle"
BY DEF Idle, Hook

LEMMA ReserveEventKeeps ==
    ASSUME Inv, NEW h \in Webhooks, NEW e \in Events, ReserveEvent(h, e)
    PROVE  Inv' /\ Rewritten
<1>1. /\ e \in posting /\ kind[e] # None /\ webhook[h] = Idle /\ Elsewhere
      /\ UNCHANGED <<task, tries, worker, troubles, handled, forsaken, early, spared>>
  BY DEF ReserveEvent, ghosts, Inv, EventsHappened
<1>2. CASE Known(e)
  <2>1. webhook' = [webhook EXCEPT ![h] = Idle] /\ posting' = posting \ {e} /\ event' = event
    BY <1>2 DEF ReserveEvent, Accepted
  <2>2. EventsHappened'
    BY <1>1, <2>1 DEF Inv, EventsHappened, Elsewhere
  <2>3. webhook' = webhook
    BY <1>1, <2>1 DEF Inv, TypeOK
  <2>4. EventsAwaited'
    BY <1>1, <2>1, <2>3 DEF Inv, EventsAwaited
  <2> QED
    BY <1>1, <2>1, <2>2, <2>4, IdleHook, WebhookSteps DEF Inv, TypeOK
<1>3. CASE ~Known(e)
  <2> DEFINE x == [pc |-> "schedule", event |-> e]
  <2>1. webhook' = [webhook EXCEPT ![h] = x] /\ posting' = posting
        /\ event' = [event EXCEPT ![e] = "RESERVED"]
    BY <1>3 DEF ReserveEvent, Mark
  <2>2. event' \in [Events -> EventStates] /\ event'[e] = "RESERVED"
        /\ \A f \in Events : f # e => event'[f] = event[f]
    BY <2>1 DEF Inv, TypeOK, EventStates
  <2>3. EventsHappened'
    BY <1>1, <2>1, <2>2 DEF Inv, EventsHappened, Elsewhere
  <2>4. EventsAwaited'
    <3>1. webhook'[h] = x /\ \A u \in Webhooks : u # h => webhook'[u] = webhook[u]
      BY <2>1 DEF Inv, TypeOK
    <3>2. webhook[h].pc # "schedule"
      BY <1>1 DEF Idle
    <3> QED
      BY <1>1, <2>2, <3>1, <3>2 DEF Inv, EventsAwaited
  <2>5. x \in Hook
    BY DEF Hook
  <2> QED
    BY <1>1, <2>1, <2>2, <2>3, <2>4, <2>5, WebhookSteps DEF Inv, TypeOK
<1> QED
  BY <1>2, <1>3

\* The webhook's event, on its way.
LEMMA HookBusy ==
    ASSUME Inv, NEW h \in Webhooks, webhook[h].pc # "idle"
    PROVE  /\ webhook[h] \in Hook
           /\ webhook[h].event \in Events
           /\ event[webhook[h].event] # "ABSENT"
           /\ kind[webhook[h].event] # None
BY DEF Inv, TypeOK, WebhookKnows, Hook

\* The webhook goes on, and has queued its event or leaves it if that was its duty.
LEMMA HookGoesOn ==
    ASSUME Inv, NEW h \in Webhooks, webhook[h].pc # "idle", Elsewhere,
           UNCHANGED <<event, posting, tries, worker, handled, early, spared>>,
           NEW x \in Hook, webhook' = [webhook EXCEPT ![h] = x],
           x.event = webhook[h].event \/ x = Idle, x.pc # "schedule",
           x.pc = "idle" => x = Idle,
           task' = task \/ task' = task \cup {webhook[h].event},
           forsaken' \in {forsaken, forsaken \cup {webhook[h].event}},
           \/ webhook[h].pc # "schedule"
           \/ webhook[h].event \in task' \cup forsaken',
           troubles' \in 0..MaxTroubles
    PROVE  Inv' /\ Rewritten
<1> DEFINE e == webhook[h].event
<1>1. e \in Events /\ event[e] # "ABSENT" /\ kind[e] # None
  BY HookBusy
<1>2. task' \subseteq Events /\ task \subseteq task'
  BY <1>1 DEF Inv, TypeOK
<1>3. /\ forsaken' \subseteq Events /\ forsaken \subseteq forsaken'
      /\ webhook'[h] = x /\ \A u \in Webhooks : u # h => webhook'[u] = webhook[u]
  BY <1>1 DEF Inv, TypeOK
<1>4. EventsHappened'
  BY <1>1, <1>2 DEF Inv, EventsHappened, Elsewhere
<1>5. EventsAwaited'
  <2>1. webhook[h].pc = "schedule" => e \in task' \cup forsaken'
    OBVIOUS
  <2>2. ASSUME NEW f \in Events, event'[f] # "ABSENT"
        PROVE  \/ f \in handled' \cup forsaken' \cup task'
               \/ \E u \in Webhooks : webhook'[u].pc = "schedule" /\ webhook'[u].event = f
               \/ \E w \in Workers : worker'[w].event = f /\ worker'[w].heard
    <3>1. \/ f \in handled \cup forsaken \cup task
          \/ \E u \in Webhooks : webhook[u].pc = "schedule" /\ webhook[u].event = f
          \/ \E w \in Workers : worker[w].event = f /\ worker[w].heard
      BY <2>2 DEF Inv, EventsAwaited
    <3>2. ASSUME NEW u \in Webhooks, webhook[u].pc = "schedule", webhook[u].event = f
          PROVE  f \in forsaken' \cup task' \/ webhook'[u] = webhook[u]
      BY <1>3, <2>1, <3>2
    <3> QED
      BY <1>2, <1>3, <3>1, <3>2
  <2> QED
    BY <2>2 DEF EventsAwaited
<1>6. x.pc # "idle" => x.event \in Events /\ event'[x.event] # "ABSENT" /\ kind[x.event] # None
  BY <1>1, IdleHook
<1>7. event' \in [Events -> EventStates]
  BY DEF Inv, TypeOK
<1> QED
  BY <1>1, <1>2, <1>3, <1>4, <1>5, <1>6, <1>7, WebhookSteps

LEMMA HookSteps ==
    ASSUME Inv, NEW h \in Webhooks, webhook[h].pc # "idle",
           NEW step \in {"enqueued", "failed"}
    PROVE  /\ [webhook[h] EXCEPT !.pc = step] \in Hook
           /\ [webhook[h] EXCEPT !.pc = step].event = webhook[h].event
           /\ [webhook[h] EXCEPT !.pc = step].pc = step
BY HookBusy DEF Hook

LEMMA ScheduleInboundKeeps ==
    ASSUME Inv, NEW h \in Webhooks, ScheduleInbound(h) \/ WebhookThrows(h)
    PROVE  Inv' /\ Rewritten
<1>1. PICK step \in {"enqueued", "failed"} :
          webhook' = [webhook EXCEPT ![h] = [webhook[h] EXCEPT !.pc = step]]
  BY DEF ScheduleInbound, WebhookThrows, WebhookGoes
<1>2. /\ webhook[h].pc # "idle" /\ Elsewhere
      /\ UNCHANGED <<event, posting, tries, worker, handled, early, spared>>
      /\ troubles' \in 0..MaxTroubles
  BY Troubles DEF ScheduleInbound, WebhookThrows, ghosts, Inv
<1>3. /\ task' = task \/ task' = task \cup {webhook[h].event}
      /\ forsaken' \in {forsaken, forsaken \cup {webhook[h].event}}
      /\ \/ webhook[h].pc # "schedule"
         \/ webhook[h].event \in task' \cup forsaken'
  BY DEF ScheduleInbound, WebhookThrows, ghosts
<1> QED
  BY <1>1, <1>2, <1>3, HookSteps, HookGoesOn

LEMMA WebhookDiesKeeps ==
    ASSUME Inv, NEW h \in Webhooks, WebhookDies(h)
    PROVE  Inv' /\ Rewritten
<1>1. webhook[h].pc # "idle"
  <2>1. webhook[h] \in Hook /\ WebhookKnows(webhook[h])
    BY DEF Inv, TypeOK, Hook
  <2> QED
    BY <2>1 DEF WebhookDies, WebhookKnows, Idle, Hook
<1>2. /\ webhook' = [webhook EXCEPT ![h] = Idle] /\ Elsewhere
      /\ UNCHANGED <<event, task, posting, tries, worker, handled, early, spared>>
      /\ troubles' \in 0..MaxTroubles
      /\ forsaken' = IF webhook[h].pc = "schedule" THEN forsaken \cup {webhook[h].event}
                     ELSE forsaken
  BY Troubles DEF WebhookDies, Rejected, Inv
<1> QED
  BY <1>1, <1>2, IdleHook, HookGoesOn

\* The webhook's last word marks the event, whatever became of it.
LEMMA MarkEnqueuedKeeps ==
    ASSUME Inv, NEW h \in Webhooks, MarkEnqueued(h) \/ MarkNotQueued(h)
    PROVE  Inv' /\ Rewritten
<1> DEFINE e == webhook[h].event
<1>1. PICK status \in {"ENQUEUED", "FAILED"} : event' = [event EXCEPT ![e] = status]
  BY DEF MarkEnqueued, MarkNotQueued, Mark
<1>2. /\ webhook[h].pc # "idle" /\ webhook[h].pc # "schedule" /\ Elsewhere
      /\ webhook' = [webhook EXCEPT ![h] = Idle] /\ posting' \in {posting, posting \ {e}}
      /\ UNCHANGED <<task, tries, worker, troubles, handled, forsaken, early, spared>>
  BY DEF MarkEnqueued, MarkNotQueued, Accepted, Rejected, ghosts
<1>3. e \in Events /\ event[e] # "ABSENT" /\ kind[e] # None
  BY <1>2, HookBusy
<1>4. /\ event' \in [Events -> EventStates]
      /\ \A f \in Events : event[f] # "ABSENT" <=> event'[f] # "ABSENT"
  BY <1>1, <1>3 DEF Inv, TypeOK, EventStates
<1>5. EventsHappened'
  BY <1>2, <1>4 DEF Inv, EventsHappened, Elsewhere
<1>6. EventsAwaited'
  <2>1. webhook'[h] = Idle /\ \A u \in Webhooks : u # h => webhook'[u] = webhook[u]
    BY <1>2 DEF Inv, TypeOK
  <2> QED
    BY <1>2, <1>4, <2>1 DEF Inv, EventsAwaited
<1> QED
  BY <1>2, <1>4, <1>5, <1>6, IdleHook, WebhookSteps DEF Inv, TypeOK

-----------------------------------------------------------------------------
(***************************************************************************)
(* The worker, from the first await to the last.                           *)
(***************************************************************************)

Hand == [pc : WorkerSteps, event : Events \cup {None}, seen : Run \cup {NoRun},
         verdict : Verdicts \cup {None}, heard : BOOLEAN]

LEMMA WorkerBusy ==
    ASSUME Inv, NEW w \in Workers
    PROVE  /\ worker[w] \in Hand /\ WorkerKnows(worker[w])
           /\ worker[w].pc # "idle" => /\ worker[w].event \in Events
                                      /\ kind[worker[w].event] # None
                                      /\ event[worker[w].event] # "ABSENT"
BY DEF Inv, TypeOK, WorkerKnows, Hand

\* A step of worker w, who becomes x.
LEMMA WorkerMoves ==
    ASSUME Inv, Grows, NEW w \in Workers, NEW x \in Hand, worker' = [worker EXCEPT ![w] = x],
           WorkerKnows(x)',
           UNCHANGED <<sender, kind, posting, webhook, call>>,
           record' \in Records, transport' \in {None, "DELIVERED", "BOUNCED"},
           event' \in [Events -> EventStates], task' \subseteq Events, tries' \in [Events -> Nat],
           evidence' \in [Events \cup Callbacks -> Verdicts \cup {None}],
           interventions' \subseteq {"EVIDENCE_CONFLICT", "EMAIL_ROUTE_UNAVAILABLE"},
           troubles' \in 0..MaxTroubles,
           handled' \subseteq Events, forsaken' \subseteq Events, early' \subseteq Events,
           spared' \subseteq Events, EventsHappened', EventsAwaited', BounceReachesOwner'
    PROVE  Inv'
<1>1. /\ worker' \in [Workers -> Hand]
      /\ worker'[w] = x
      /\ \A u \in Workers : u # w => worker'[u] = worker[u]
  BY DEF Inv, TypeOK, Hand
<1>2. run' \in Run
  BY DEF Grows, RunGrows, Inv, TypeOK
<1>3. TypeOK'
  BY <1>1, <1>2 DEF Inv, TypeOK, Hand
<1>4. \A u \in Workers : WorkerKnows(worker[u])'
  <2>1. WorkerKnows(worker[w])'
    BY <1>1 DEF WorkerKnows
  <2> QED
    BY <1>1, <2>1, OthersKnow
<1> QED
  BY <1>3, <1>4, OthersKnow DEF Inv

\* A step of worker w that stays with its event and leaves the mail alone.
LEMMA InsideMoves ==
    ASSUME Inv, Grows, NEW w \in Workers, NEW x \in Hand, worker' = [worker EXCEPT ![w] = x],
           x.event = worker[w].event, x.heard = worker[w].heard, WorkerKnows(x)',
           UNCHANGED <<sender, mail, call, handled, forsaken>>,
           record' \in Records, transport' \in {None, "DELIVERED", "BOUNCED"},
           evidence' \in [Events \cup Callbacks -> Verdicts \cup {None}],
           interventions' \subseteq {"EVIDENCE_CONFLICT", "EMAIL_ROUTE_UNAVAILABLE"},
           troubles' \in 0..MaxTroubles, early' \subseteq Events, spared' \subseteq Events
    PROVE  Inv'
<1>1. UNCHANGED <<sender, kind, event, posting, task, tries, webhook, call, handled, forsaken>>
  BY DEF mail
<1>2. /\ event' \in [Events -> EventStates] /\ task' \subseteq Events
      /\ tries' \in [Events -> Nat] /\ handled' \subseteq Events /\ forsaken' \subseteq Events
  BY <1>1 DEF Inv, TypeOK
<1>3. EventsHappened'
  BY <1>1 DEF Inv, EventsHappened
<1>4. EventsAwaited'
  <2>1. \A u \in Workers : /\ worker'[u].event = worker[u].event
                           /\ worker'[u].heard = worker[u].heard
    BY DEF Inv, TypeOK
  <2> QED
    BY <1>1, <2>1 DEF Inv, EventsAwaited
<1>5. BounceReachesOwner'
  BY <1>1, BouncesReach
<1> QED
  BY <1>1, <1>2, <1>3, <1>4, <1>5, WorkerMoves

\* The worker at another await, with what it knew.
LEMMA AtStep ==
    ASSUME Inv, NEW w \in Workers, NEW step \in WorkerSteps
    PROVE  LET x == [worker[w] EXCEPT !.pc = step]
           IN  /\ x \in Hand /\ x.pc = step /\ x.event = worker[w].event
               /\ x.seen = worker[w].seen /\ x.verdict = worker[w].verdict
               /\ x.heard = worker[w].heard
BY WorkerBusy DEF Hand

\* Worker w goes to another await and writes nothing.
LEMMA QuietKeeps ==
    ASSUME Inv, NEW w \in Workers, NEW step \in WorkerSteps, worker[w].pc # "idle",
           WorkerGoes(w, step), Elsewhere, UNCHANGED <<mail, handled, forsaken>>,
           troubles' \in 0..MaxTroubles,
           early' \in {early, early \cup {worker[w].event}}, spared' = spared,
           LET k == kind[worker[w].event]
           IN  \/ step = "fail"
               \/ step = "merge" /\ k # "RECEIVED"
               \/ step \in {"read", "interpret", "reconcile"} /\ k = "RECEIVED"
               \/ step = "mark" /\ (k # "BOUNCED" \/ worker[w].event \in early')
    PROVE  Inv' /\ Rewritten
<1>0. PICK x \in Hand : x = [worker[w] EXCEPT !.pc = step]
  BY AtStep
<1>1. /\ x.pc = step /\ x.event = worker[w].event /\ x.heard = worker[w].heard
      /\ x.event \in Events /\ kind[x.event] # None /\ event[x.event] # "ABSENT"
  BY <1>0, AtStep, WorkerBusy
<1>2. UNCHANGED <<run, record, transport, sender, kind, event, call, evidence, interventions>>
  BY DEF Elsewhere, followUp, mail
<1>3. Grows
  BY <1>2 DEF Grows, RunGrows, mail
<1>4. WorkerKnows(x)'
  BY <1>1, <1>2 DEF WorkerKnows, Reached
<1>5. worker' = [worker EXCEPT ![w] = x]
  BY <1>0 DEF WorkerGoes
<1>6. early' \subseteq Events /\ spared' \subseteq Events
  BY <1>1 DEF Inv, TypeOK
<1>7. Inv'
  BY <1>1, <1>2, <1>3, <1>4, <1>5, <1>6, InsideMoves DEF Inv, TypeOK
<1> QED
  BY <1>2, <1>7 DEF Rewritten

LEMMA QuietSteps ==
    ASSUME Inv, NEW w \in Workers,
           FindReceipt(w) \/ FetchMail(w) \/ ReadCase(w) \/ WorkerThrows(w)
    PROVE  Inv' /\ Rewritten
<1>1. Elsewhere /\ UNCHANGED <<mail, handled, forsaken, spared>> /\ worker[w].pc # "idle"
      /\ troubles' \in 0..MaxTroubles
  BY Troubles DEF FindReceipt, FetchMail, ReadCase, WorkerThrows, ghosts, Inv
<1>2. CASE FindReceipt(w)
  <2>1. kind[worker[w].event] # "RECEIVED"
    BY <1>2, WorkerBusy DEF FindReceipt, WorkerKnows
  <2> QED
    BY <1>1, <1>2, <2>1, QuietKeeps DEF FindReceipt, WorkerSteps
<1>3. CASE FetchMail(w) \/ ReadCase(w)
  <2>1. kind[worker[w].event] = "RECEIVED" /\ early' = early
    BY <1>3, WorkerBusy DEF FetchMail, ReadCase, WorkerKnows, ghosts
  <2>2. PICK step \in {"read", "mark", "interpret"} : WorkerGoes(w, step)
    BY <1>3 DEF FetchMail, ReadCase
  <2> QED
    BY <1>1, <2>1, <2>2, QuietKeeps DEF WorkerSteps
<1>4. CASE WorkerThrows(w)
  BY <1>1, <1>4, QuietKeeps DEF WorkerThrows, WorkerSteps, ghosts
<1> QED
  BY <1>2, <1>3, <1>4

LEMMA MergeReceiptKeeps ==
    ASSUME Inv, NEW w \in Workers, MergeReceipt(w)
    PROVE  Inv' /\ Rewritten
<1> DEFINE e == worker[w].event
<1>s. PICK step \in {"stop", "mark"} : step = IF kind[e] = "BOUNCED" THEN "stop" ELSE "mark"
  OBVIOUS
<1>0. PICK x \in Hand : x = [worker[w] EXCEPT !.pc = step] /\ x.pc = step /\ x.event = e
                       /\ x.heard = worker[w].heard
  <2>1. step \in WorkerSteps
    BY DEF WorkerSteps
  <2> QED
    BY <2>1, AtStep
<1>1. /\ worker[w].pc = "merge" /\ transport' = kind[e]
      /\ record' = IF record = "ABSENT" THEN "STATUSLESS" ELSE record
      /\ UNCHANGED <<run, sender, mail, call, evidence, interventions, troubles, ghosts>>
      /\ worker' = [worker EXCEPT ![w] = x]
  BY <1>0, <1>s DEF MergeReceipt, WorkerGoes
<1>2. e \in Events /\ kind[e] # None /\ kind[e] \in {"DELIVERED", "BOUNCED"}
      /\ event[e] # "ABSENT"
  <2>1. e \in Events /\ kind[e] # None /\ kind[e] # "RECEIVED" /\ event[e] # "ABSENT"
    BY <1>1, WorkerBusy DEF WorkerKnows
  <2> QED
    BY <2>1 DEF Inv, TypeOK, Kinds
<1>4. UNCHANGED <<kind, event, handled, forsaken, early, spared>> /\ Grows
  BY <1>1 DEF Grows, RunGrows, mail, ghosts
<1>5. WorkerKnows(x)'
  BY <1>0, <1>s, <1>2, <1>4 DEF WorkerKnows
<1>6. record' \in Records /\ transport' \in {None, "DELIVERED", "BOUNCED"}
  BY <1>1, <1>2 DEF Records, Inv, TypeOK
<1>7. Inv'
  BY <1>0, <1>1, <1>4, <1>5, <1>6, InsideMoves DEF Inv, TypeOK
<1> QED
  BY <1>1, <1>7 DEF Rewritten

LEMMA StopCaseKeeps ==
    ASSUME Inv, NEW w \in Workers, StopCase(w)
    PROVE  Inv' /\ Rewritten
<1> DEFINE e == worker[w].event
<1>0. PICK x \in Hand : x = [worker[w] EXCEPT !.pc = "mark"] /\ x.pc = "mark" /\ x.event = e
                       /\ x.heard = worker[w].heard
  BY AtStep DEF WorkerSteps
<1>1. /\ worker[w].pc = "stop" /\ e \in Events /\ kind[e] # None /\ event[e] # "ABSENT"
      /\ UNCHANGED <<record, transport, sender, mail, call, evidence, troubles, handled, forsaken,
                     early>>
      /\ worker' = [worker EXCEPT ![w] = x]
  BY <1>0, WorkerBusy DEF StopCase, WorkerGoes, followUp
<1>2. \/ /\ run' = run /\ interventions' = interventions /\ spared' = spared \cup {e}
      \/ /\ run' = Bounced(run) /\ spared' = spared /\ ~Over
         /\ interventions' = interventions \cup {"EMAIL_ROUTE_UNAVAILABLE"}
  BY DEF StopCase, Over
<1>3. RunGrows /\ Rewritten
  <2>1. run \in Run /\ run.version \in Nat
    BY RunFields DEF Inv, TypeOK
  <2>2. /\ Bounced(run) \in Run /\ Bounced(run).version = run.version + 1
    BY <2>1, EventRewrites DEF Verdicts
  <2>3. ~Over /\ run' = Bounced(run) => Document!LoseRoute
    BY SameRewrites DEF Over, Document!LoseRoute, Document!Becomes
  <2> QED
    BY <1>2, <2>1, <2>2, <2>3 DEF RunGrows, Rewritten, Document!Next
<1>4. UNCHANGED <<kind, event>> /\ Grows
  BY <1>1, <1>2, <1>3 DEF Grows, mail
<1>6. WorkerKnows(x)'
  BY <1>0, <1>1, <1>2, <1>4 DEF WorkerKnows, Reached
<1>7. /\ interventions' \subseteq {"EVIDENCE_CONFLICT", "EMAIL_ROUTE_UNAVAILABLE"}
      /\ spared' \subseteq Events
  BY <1>1, <1>2 DEF Inv, TypeOK
<1>8. Inv'
  BY <1>0, <1>1, <1>4, <1>6, <1>7, InsideMoves DEF Inv, TypeOK
<1> QED
  BY <1>3, <1>8

\* A worker that asks the owner about a reply, or is done with having asked.
LEMMA AskKeeps ==
    ASSUME Inv, NEW w \in Workers, Interpret(w) \/ Ask(w)
    PROVE  Inv' /\ Rewritten
<1> DEFINE e == worker[w].event
<1>1. /\ kind[e] = "RECEIVED" /\ e \in Events /\ kind[e] # None /\ event[e] # "ABSENT"
      /\ UNCHANGED <<run, record, transport, sender, mail, call, evidence, troubles, handled,
                     forsaken, early, spared>>
      /\ interventions' \in {interventions, interventions \cup {"EVIDENCE_CONFLICT"}}
  BY WorkerBusy DEF Interpret, Ask, WorkerKnows, followUp, ghosts
<1>2. PICK step \in {"mark", "reconcile"} : worker' = [worker EXCEPT ![w].pc = step]
  BY DEF Interpret, Ask, WorkerGoes
<1>3. PICK x \in Hand : x = [worker[w] EXCEPT !.pc = step] /\ x.pc = step /\ x.event = e
                       /\ x.heard = worker[w].heard
  <2>1. step \in WorkerSteps
    BY DEF WorkerSteps
  <2> QED
    BY <2>1, AtStep
<1>4. UNCHANGED <<kind, event>> /\ Grows
  BY <1>1 DEF Grows, RunGrows, mail
<1>5. WorkerKnows(x)'
  BY <1>1, <1>3, <1>4 DEF WorkerKnows
<1>6. interventions' \subseteq {"EVIDENCE_CONFLICT", "EMAIL_ROUTE_UNAVAILABLE"}
  BY <1>1 DEF Inv, TypeOK
<1>7. Inv'
  BY <1>1, <1>2, <1>3, <1>4, <1>5, <1>6, InsideMoves DEF Inv, TypeOK
<1> QED
  BY <1>1, <1>7 DEF Rewritten

LEMMA ReconcileKeeps ==
    ASSUME Inv, NEW w \in Workers, Reconcile(w)
    PROVE  Inv' /\ Rewritten
<1> DEFINE e == worker[w].event
<1>1. /\ kind[e] = "RECEIVED" /\ e \in Events /\ kind[e] # None /\ event[e] # "ABSENT"
      /\ worker[w].pc # "idle"
      /\ Elsewhere /\ UNCHANGED <<mail, troubles, handled, forsaken, early, spared>>
  BY WorkerBusy DEF Reconcile, WorkerKnows, ghosts
<1>2. CASE AcceptsEvidence
  <2>1. PICK verdict \in Verdicts :
            worker' = [worker EXCEPT ![w].pc = "record", ![w].seen = run, ![w].verdict = verdict]
    BY <1>2 DEF Reconcile
  <2>2. PICK x \in Hand :
            /\ x = [worker[w] EXCEPT !.pc = "record", !.seen = run, !.verdict = verdict]
            /\ x.pc = "record" /\ x.event = e /\ x.seen = run /\ x.verdict = verdict
            /\ x.heard = worker[w].heard
    <3>1. worker[w] \in Hand /\ run \in Run
      BY WorkerBusy DEF Inv, TypeOK
    <3> DEFINE x == [worker[w] EXCEPT !.pc = "record", !.seen = run, !.verdict = verdict]
    <3>2. "record" \in WorkerSteps /\ run \in Run \cup {NoRun} /\ verdict \in Verdicts \cup {None}
      BY <3>1 DEF WorkerSteps
    <3>3. x \in Hand /\ x.pc = "record" /\ x.event = e /\ x.seen = run /\ x.verdict = verdict
            /\ x.heard = worker[w].heard
      BY <3>1, <3>2 DEF Hand
    <3> QED
      BY <3>3, Zenon
  <2>3. /\ UNCHANGED <<run, record, transport, sender, kind, event, call, evidence, interventions>>
        /\ Grows
    BY <1>1 DEF Elsewhere, followUp, Grows, RunGrows, mail
  <2>4. ReadWaiting(x.seen)'
    <3>1. run \in Run /\ run.version \in Nat
      BY RunFields DEF Inv, TypeOK
    <3> QED
      BY <1>2, <2>2, <2>3, <3>1 DEF ReadWaiting, AcceptsEvidence
  <2>5. WorkerKnows(x)'
    BY <1>1, <2>2, <2>3, <2>4 DEF WorkerKnows
  <2>6. worker' = [worker EXCEPT ![w] = x]
    BY <2>1, <2>2 DEF Inv, TypeOK
  <2>7. Inv'
    BY <1>1, <2>2, <2>3, <2>5, <2>6, InsideMoves DEF Inv, TypeOK
  <2> QED
    BY <2>3, <2>7 DEF Rewritten
<1>3. CASE ~AcceptsEvidence
  BY <1>1, <1>3, QuietKeeps DEF Reconcile, WorkerSteps, Inv, TypeOK
<1> QED
  BY <1>2, <1>3

\* Evidence that applies completes a run that was waiting, and is on record.
LEMMA Applied ==
    ASSUME Inv, NEW s \in Events \cup Callbacks, NEW seen, NEW verdict \in Verdicts,
           ReadWaiting(seen),
           Applies(s, seen, verdict) \/ Repeats(s) \/ Refuses(s, seen)
    PROVE  /\ RunGrows /\ Rewritten
           /\ evidence' \in [Events \cup Callbacks -> Verdicts \cup {None}]
           /\ \A a \in Events \cup Callbacks : evidence[a] # None => evidence'[a] # None
           /\ ~Refuses(s, seen) => evidence'[s] # None
<1>1. run \in Run /\ run.version \in Nat
  BY RunFields DEF Inv, TypeOK
<1>2. CASE Applies(s, seen, verdict)
  <2>1. run' = Evidenced(run, verdict) /\ evidence' = [evidence EXCEPT ![s] = verdict]
        /\ run.state = "WAITING_EXTERNAL"
    BY <1>2 DEF Applies, UnmovedSince, ReadWaiting
  <2>2. run' \in Run /\ run'.version = run.version + 1
    BY <1>1, <2>1, EventRewrites
  <2>3. RunGrows /\ Rewritten
    <3>1. Document!Answer(verdict)
      BY <2>1, SameAnswers DEF Document!Answer, Document!Becomes
    <3> QED
      BY <1>1, <2>1, <2>2, <3>1, SameAnswers DEF RunGrows, Rewritten, Document!Next
  <2>4. verdict # None
    BY Limits
  <2> QED
    BY <2>1, <2>3, <2>4 DEF Inv, TypeOK
<1>3. CASE Repeats(s) \/ Refuses(s, seen)
  BY <1>3 DEF Repeats, Refuses, RunGrows, Rewritten, Inv, TypeOK
<1> QED
  BY <1>2, <1>3

LEMMA RecordReplyKeeps ==
    ASSUME Inv, NEW w \in Workers, RecordReply(w)
    PROVE  Inv' /\ Rewritten
<1> DEFINE e == worker[w].event
<1>1. /\ kind[e] = "RECEIVED" /\ e \in Events /\ kind[e] # None /\ event[e] # "ABSENT"
      /\ ReadWaiting(worker[w].seen) /\ worker[w].verdict \in Verdicts
      /\ UNCHANGED <<record, transport, sender, mail, call, interventions, troubles, handled,
                     forsaken, early, spared>>
  BY WorkerBusy DEF RecordReply, WorkerKnows, followUp, ghosts
<1>2. /\ \/ Applies(e, worker[w].seen, worker[w].verdict)
         \/ Repeats(e)
         \/ Refuses(e, worker[w].seen)
      /\ \E step \in {"mark", "ask", "fail"} : worker' = [worker EXCEPT ![w].pc = step]
  BY DEF RecordReply, WorkerGoes
<1>3. /\ RunGrows /\ Rewritten
      /\ evidence' \in [Events \cup Callbacks -> Verdicts \cup {None}]
      /\ \A a \in Events \cup Callbacks : evidence[a] # None => evidence'[a] # None
  BY <1>1, <1>2, Applied
<1>4. PICK step \in {"mark", "ask", "fail"} : worker' = [worker EXCEPT ![w].pc = step]
  BY <1>2
<1>5. PICK x \in Hand : x = [worker[w] EXCEPT !.pc = step] /\ x.pc = step /\ x.event = e
                       /\ x.heard = worker[w].heard
  <2>1. step \in WorkerSteps
    BY DEF WorkerSteps
  <2> QED
    BY <2>1, AtStep
<1>6. UNCHANGED <<kind, event>> /\ Grows
  BY <1>1, <1>3 DEF Grows, mail
<1>7. WorkerKnows(x)'
  BY <1>1, <1>5, <1>6 DEF WorkerKnows
<1>8. Inv'
  BY <1>1, <1>3, <1>4, <1>5, <1>6, <1>7, InsideMoves DEF Inv, TypeOK
<1> QED
  BY <1>3, <1>8

\* Steps with which a worker or the queue takes up event e or lays it down.
LEMMA DeliveryMoves ==
    ASSUME Inv, NEW w \in Workers, NEW e \in Events, kind[e] # None,
           NEW x \in Hand, worker' = [worker EXCEPT ![w] = x], WorkerKnows(x)', Elsewhere,
           UNCHANGED <<posting, webhook, early, spared>>,
           event' \in [Events -> EventStates], tries' \in [Events -> Nat],
           task' \in {task, task \cup {e}, task \ {e}}, troubles' \in 0..MaxTroubles,
           handled' \in {handled, handled \cup {e}}, forsaken' \in {forsaken, forsaken \cup {e}},
           \A f \in Events \ {e} : event'[f] = event[f],
           event'[e] # "ABSENT",
           worker[w].event = e \/ worker[w].event = None,
           \/ x.event = e /\ x.heard
           \/ e \in task' \cup handled' \cup forsaken'
           \/ ~worker[w].heard /\ UNCHANGED <<task, handled, forsaken>> /\ event[e] # "ABSENT",
           BounceReachesOwner'
    PROVE  Inv' /\ Rewritten
<1>1. UNCHANGED <<run, record, transport, sender, kind, call, evidence, interventions>>
  BY DEF Elsewhere, followUp
<1>2. Grows
  BY <1>1 DEF Grows, RunGrows
<1>3. EventsHappened'
  BY <1>1 DEF Inv, EventsHappened
<1>4. EventsAwaited'
  <2>1. worker'[w] = x /\ \A u \in Workers : u # w => worker'[u] = worker[u]
    BY DEF Inv, TypeOK
  <2>2. ASSUME NEW f \in Events, event'[f] # "ABSENT"
        PROVE  \/ f \in handled' \cup forsaken' \cup task'
               \/ \E u \in Webhooks : webhook'[u].pc = "schedule" /\ webhook'[u].event = f
               \/ \E u \in Workers : worker'[u].event = f /\ worker'[u].heard
    <3>1. CASE f = e /\ x.event = e /\ x.heard
      BY <2>1, <3>1
    <3>2. CASE f = e /\ e \in task' \cup handled' \cup forsaken'
      BY <3>2
    <3>3. CASE \/ f # e
               \/ ~worker[w].heard /\ UNCHANGED <<task, handled, forsaken>> /\ event[e] # "ABSENT"
      <4>1. \/ f \in handled \cup forsaken \cup task
            \/ \E u \in Webhooks : webhook[u].pc = "schedule" /\ webhook[u].event = f
            \/ \E u \in Workers : worker[u].event = f /\ worker[u].heard
        BY <2>2, <3>3 DEF Inv, EventsAwaited
      <4>2. ASSUME NEW u \in Workers, worker[u].event = f, worker[u].heard
            PROVE  worker'[u] = worker[u]
        BY <2>1, <3>3, <4>2, Limits
      <4>3. f \in handled \cup forsaken \cup task => f \in handled' \cup forsaken' \cup task'
        BY <3>3
      <4> QED
        BY <4>1, <4>2, <4>3
    <3> QED
      BY <3>1, <3>2, <3>3
  <2> QED
    BY <2>2 DEF EventsAwaited
<1>5. Inv'
  BY <1>1, <1>2, <1>3, <1>4, WorkerMoves DEF Inv, TypeOK
<1> QED
  BY <1>1, <1>5 DEF Rewritten

LEMMA DeliverKeeps ==
    ASSUME Inv, NEW w \in Workers, NEW e \in Events, Deliver(w, e)
    PROVE  Inv' /\ Rewritten
<1>1. /\ e \in task /\ worker[w] = Resting /\ Elsewhere
      /\ task' = task \ {e} /\ tries' = [tries EXCEPT ![e] = @ + 1]
      /\ UNCHANGED <<event, posting, webhook, troubles, handled, forsaken, early, spared>>
      /\ kind[e] # None /\ event[e] # "ABSENT"
  BY DEF Deliver, ghosts, Inv, EventsHappened
<1>2. PICK step \in {"fetch", "find"} :
          step = IF kind[e] = "RECEIVED" THEN "fetch" ELSE "find"
  OBVIOUS
<1>3. PICK x \in Hand :
          /\ x = [Resting EXCEPT !.pc = step, !.event = e, !.heard = TRUE]
          /\ x.pc = step /\ x.event = e /\ x.heard
          /\ worker' = [worker EXCEPT ![w] = x]
  <2>1. step \in WorkerSteps
    BY DEF WorkerSteps
  <2> DEFINE y == [Resting EXCEPT !.pc = step, !.event = e, !.heard = TRUE]
  <2>2. y \in Hand /\ y.pc = step /\ y.event = e /\ y.heard
    BY <2>1 DEF Resting, Hand
  <2>3. worker' = [worker EXCEPT ![w] = y]
    BY <1>2 DEF Deliver
  <2> QED
    BY <2>2, <2>3
<1>4. WorkerKnows(x)'
  BY <1>1, <1>2, <1>3 DEF WorkerKnows, Elsewhere
<1>5. /\ tries' \in [Events -> Nat]
      /\ event \in [Events -> EventStates] /\ troubles \in 0..MaxTroubles
  BY <1>1 DEF Inv, TypeOK
<1>6. BounceReachesOwner'
  BY <1>1, BouncesReach DEF Grows, RunGrows, Elsewhere
<1>7. worker[w].event = None
  BY <1>1 DEF Resting
<1> QED
  BY <1>1, <1>3, <1>4, <1>5, <1>6, <1>7, DeliveryMoves

LEMMA RestingHand == Resting \in Hand /\ Resting.pc = "idle" /\ ~Resting.heard
BY DEF Resting, Hand, WorkerSteps

\* A delivery that failed while the queue was waiting is owed once more, or given up.
LEMMA Redelivered ==
    ASSUME Inv, NEW w \in Workers, Redeliver(w), NEW e \in Events, e = worker[w].event
    PROVE  /\ task' \in {task, task \cup {e}} /\ forsaken' \in {forsaken, forsaken \cup {e}}
           /\ worker[w].heard => e \in task' \cup forsaken'
           /\ ~worker[w].heard => UNCHANGED <<task, forsaken>>
BY DEF Redeliver

LEMMA WorkerEndsKeeps ==
    ASSUME Inv, NEW w \in Workers, MarkFailed(w) \/ WorkerDies(w) \/ DeliverAgain(w)
    PROVE  Inv' /\ Rewritten
<1>0. worker[w].pc # "idle"
  <2>1. worker[w].heard => worker[w].pc # "idle"
    BY WorkerBusy DEF WorkerKnows, Resting
  <2> QED
    BY <2>1 DEF MarkFailed, WorkerDies, DeliverAgain
<1>e. PICK e \in Events : e = worker[w].event /\ kind[e] # None
  BY <1>0, WorkerBusy
<1>1. /\ Redeliver(w) /\ Elsewhere
      /\ UNCHANGED <<posting, tries, webhook, handled, early, spared>>
      /\ event' = event \/ event' = [event EXCEPT ![e] = "FAILED"]
      /\ troubles' \in 0..MaxTroubles
  BY <1>e, Troubles DEF MarkFailed, WorkerDies, DeliverAgain, Mark, Inv
<1>2. PICK x \in Hand : /\ worker' = [worker EXCEPT ![w] = x]
                        /\ x = Resting \/ x = [worker[w] EXCEPT !.heard = FALSE]
  <2>1. [worker[w] EXCEPT !.heard = FALSE] \in Hand
    BY WorkerBusy DEF Hand
  <2> QED
    BY <2>1, RestingHand DEF MarkFailed, WorkerDies, DeliverAgain, Rests
<1>3. /\ task' \in {task, task \cup {e}} /\ forsaken' \in {forsaken, forsaken \cup {e}}
      /\ worker[w].heard => e \in task' \cup forsaken'
      /\ ~worker[w].heard => UNCHANGED <<task, forsaken>>
  BY <1>e, <1>1, Redelivered
<1>4. /\ event' \in [Events -> EventStates] /\ event[e] # "ABSENT" /\ event'[e] # "ABSENT"
      /\ \A f \in Events \ {e} : event'[f] = event[f]
  <2>1. event[e] # "ABSENT"
    BY <1>0, <1>e, WorkerBusy DEF WorkerKnows
  <2> QED
    BY <1>1, <2>1 DEF Inv, TypeOK, EventStates
<1>5. UNCHANGED <<run, kind, interventions, early, spared, evidence>> /\ Grows
  <2>1. UNCHANGED <<run, kind, interventions, early, spared, evidence>>
    BY <1>1 DEF Elsewhere
  <2>2. \A f \in Events : event[f] # "ABSENT" => event'[f] # "ABSENT"
    BY <1>4
  <2> QED
    BY <2>1, <2>2 DEF Grows, RunGrows
<1>6. WorkerKnows(x)'
  <2>1. CASE x = Resting
    BY <2>1, RestingHand DEF WorkerKnows
  <2>2. CASE x = [worker[w] EXCEPT !.heard = FALSE]
    <3>1. /\ x.pc = worker[w].pc /\ x.event = worker[w].event /\ x.seen = worker[w].seen
          /\ x.verdict = worker[w].verdict /\ ~x.heard
      BY <2>2, WorkerBusy DEF Hand
    <3> QED
      BY <1>0, <1>4, <1>5, <1>e, <3>1, WorkerBusy DEF WorkerKnows, Reached, ReadWaiting
  <2> QED
    BY <1>2, <2>1, <2>2
<1>7. BounceReachesOwner'
  BY <1>1, <1>5, BouncesReach
<1>8. tries' \in [Events -> Nat]
  BY <1>1 DEF Inv, TypeOK
<1> QED
  BY <1>e, <1>1, <1>2, <1>3, <1>4, <1>6, <1>7, <1>8, DeliveryMoves

LEMMA MarkProcessedKeeps ==
    ASSUME Inv, NEW w \in Workers, MarkProcessed(w)
    PROVE  Inv' /\ Rewritten
<1> DEFINE e == worker[w].event
<1>1. /\ worker[w].pc = "mark" /\ Elsewhere /\ event' = [event EXCEPT ![e] = "PROCESSED"]
      /\ handled' = handled \cup {e} /\ worker' = [worker EXCEPT ![w] = Resting]
      /\ UNCHANGED <<posting, task, tries, webhook, troubles, forsaken, early, spared>>
      /\ e \in Events /\ kind[e] # None
  BY WorkerBusy DEF MarkProcessed, Mark, Rests
<1>2. /\ event' \in [Events -> EventStates] /\ event'[e] # "ABSENT"
      /\ \A f \in Events \ {e} : event'[f] = event[f]
  BY <1>1 DEF Inv, TypeOK, EventStates
<1>3. PICK x \in Hand : x = Resting
  BY RestingHand
<1>4. WorkerKnows(x)'
  BY <1>3, RestingHand DEF WorkerKnows
<1>5. kind[e] = "BOUNCED" => Reached(e)
  BY <1>1, WorkerBusy DEF WorkerKnows
<1>6. BounceReachesOwner'
  BY <1>1, <1>5 DEF Inv, BounceReachesOwner, Reached, Elsewhere
<1>7. tries \in [Events -> Nat] /\ troubles \in 0..MaxTroubles
  BY DEF Inv, TypeOK
<1> QED
  BY <1>1, <1>2, <1>3, <1>4, <1>6, <1>7, DeliveryMoves

-----------------------------------------------------------------------------
(***************************************************************************)
(* The callback.                                                           *)
(***************************************************************************)

Caller == [pc : CallSteps, posts : 0..MaxPosts, seen : Run \cup {NoRun}, verdict : Verdicts]

LEMMA CallBusy ==
    ASSUME Inv, NEW c \in Callbacks
    PROVE  call[c] \in Caller /\ CallKnows(c)
BY DEF Inv, TypeOK, Caller

\* A step of callback c, who becomes x.
LEMMA CallMoves ==
    ASSUME Inv, NEW c \in Callbacks, NEW x \in Caller, call' = [call EXCEPT ![c] = x],
           RunGrows, NoMail, UNCHANGED ghosts,
           evidence' \in [Events \cup Callbacks -> Verdicts \cup {None}],
           \A a \in Events \cup Callbacks : evidence[a] # None => evidence'[a] # None,
           interventions' \in {interventions, interventions \cup {"EVIDENCE_CONFLICT"}},
           troubles' \in 0..MaxTroubles,
           x.pc = "record" => x.seen = run /\ run' = run /\ run.state = "WAITING_EXTERNAL",
           x.pc \in {"ask", "complete", "answered"} => evidence'[c] # None
    PROVE  Inv'
<1>1. /\ UNCHANGED <<record, transport, sender, kind, event, posting, task, tries, webhook, worker,
                     handled, forsaken, early, spared>>
      /\ UNCHANGED <<mail, worker, ghosts>>
  BY DEF NoMail, followUp, mail, ghosts
<1>2. Grows
  BY <1>1 DEF Grows
<1>3. call'[c] = x /\ \A d \in Callbacks : d # c => call'[d] = call[d]
  BY DEF Inv, TypeOK
<1>4. run \in Run /\ run.version \in Nat
  BY RunFields DEF Inv, TypeOK
<1>5. CallKnows(c)'
  BY <1>3, <1>4 DEF CallKnows, ReadWaiting
<1>6. TypeOK'
  <2>1. call' \in [Callbacks -> Caller]
    BY DEF Inv, TypeOK, Caller
  <2>2. run' \in Run
    BY DEF RunGrows, Inv, TypeOK
  <2> QED
    BY <1>1, <2>1, <2>2 DEF Inv, TypeOK, Caller
<1>7. EventsHappened' /\ EventsAwaited' /\ BounceReachesOwner'
  BY <1>1, <1>2, MailStands
<1>8. \A d \in Callbacks : CallKnows(d)'
  BY <1>2, <1>3, <1>5, OthersKnow
<1>9. /\ SenderKnows'
      /\ \A h \in Webhooks : WebhookKnows(webhook[h])'
      /\ \A w \in Workers : WorkerKnows(worker[w])'
  BY <1>1, <1>2, OthersKnow
<1> QED
  BY <1>6, <1>7, <1>8, <1>9 DEF Inv

\* The next await of a callback that is past its record, or at an end.
LEMMA CallGoesOn ==
    ASSUME Inv, NEW c \in Callbacks, NEW step \in CallSteps \ {"record"},
           NEW seen \in Run \cup {NoRun},
           call' = [call EXCEPT ![c].pc = step, ![c].seen = seen],
           NoMail, UNCHANGED <<run, evidence, ghosts>>,
           interventions' \in {interventions, interventions \cup {"EVIDENCE_CONFLICT"}},
           troubles' \in 0..MaxTroubles,
           step \in {"ask", "complete", "answered"} => evidence[c] # None
    PROVE  Inv' /\ Rewritten
<1>1. PICK x \in Caller :
          x = [call[c] EXCEPT !.pc = step, !.seen = seen] /\ x.pc = step
  <2>1. call[c] \in Caller
    BY CallBusy
  <2>2. /\ [call[c] EXCEPT !.pc = step, !.seen = seen] \in Caller
        /\ [call[c] EXCEPT !.pc = step, !.seen = seen].pc = step
    BY <2>1 DEF Caller
  <2> QED
    BY <2>2
<1>2. call' = [call EXCEPT ![c] = x]
  BY <1>1, CallBusy DEF Inv, TypeOK
<1>3. evidence \in [Events \cup Callbacks -> Verdicts \cup {None}]
  BY DEF Inv, TypeOK
<1>4. Inv'
  BY <1>1, <1>2, <1>3, CallMoves DEF RunGrows
<1> QED
  BY <1>4 DEF Rewritten

LEMMA PostKeeps ==
    ASSUME Inv, NEW c \in Callbacks, Post(c)
    PROVE  Inv' /\ Rewritten
<1>1. PICK x \in Caller :
          /\ x = [call[c] EXCEPT !.pc = "read", !.posts = call[c].posts + 1]
          /\ x.pc = "read"
  <2>1. call[c] \in Caller /\ call[c].posts + 1 \in 0..MaxPosts
    BY CallBusy, Limits DEF Post, TriesAgain, Caller
  <2>2. /\ [call[c] EXCEPT !.pc = "read", !.posts = call[c].posts + 1] \in Caller
        /\ [call[c] EXCEPT !.pc = "read", !.posts = call[c].posts + 1].pc = "read"
    BY <2>1 DEF Caller, CallSteps
  <2> QED
    BY <2>2
<1>2. call' = [call EXCEPT ![c] = x]
  BY <1>1 DEF Post, Inv, TypeOK
<1>3. NoMail /\ UNCHANGED <<run, evidence, interventions, troubles, ghosts>>
  BY DEF Post
<1>4. Inv'
  BY <1>1, <1>2, <1>3, CallMoves DEF RunGrows, Inv, TypeOK
<1> QED
  BY <1>3, <1>4 DEF Rewritten

LEMMA ReconcileCallKeeps ==
    ASSUME Inv, NEW c \in Callbacks, ReconcileCall(c)
    PROVE  Inv' /\ Rewritten
<1>1. NoMail /\ UNCHANGED <<run, evidence, interventions, troubles, ghosts>>
  BY DEF ReconcileCall
<1>2. PICK step \in {"record", "fail"} : \E seen \in {run, call[c].seen} :
          /\ call' = [call EXCEPT ![c].pc = step, ![c].seen = seen]
          /\ step = "record" => AcceptsEvidence /\ seen = run
  <2>1. CASE AcceptsEvidence
    BY <2>1 DEF ReconcileCall
  <2>2. CASE ~AcceptsEvidence
    <3>1. call' = [call EXCEPT ![c].pc = "fail"]
      BY <2>2 DEF ReconcileCall
    <3>2. call' = [call EXCEPT ![c].pc = "fail", ![c].seen = call[c].seen]
      BY <3>1, CallBusy DEF Caller, Inv, TypeOK
    <3> QED
      BY <3>2
  <2> QED
    BY <2>1, <2>2
<1>3. PICK seen \in {run, call[c].seen} :
          /\ call' = [call EXCEPT ![c].pc = step, ![c].seen = seen]
          /\ step = "record" => AcceptsEvidence /\ seen = run
  BY <1>2
<1>4. seen \in Run \cup {NoRun} /\ step \in CallSteps
  BY RunSeen DEF Inv, TypeOK, CallSteps
<1>5. PICK x \in Caller :
          /\ x = [call[c] EXCEPT !.pc = step, !.seen = seen] /\ x.pc = step /\ x.seen = seen
  <2>1. call[c] \in Caller
    BY CallBusy
  <2>2. /\ [call[c] EXCEPT !.pc = step, !.seen = seen] \in Caller
        /\ [call[c] EXCEPT !.pc = step, !.seen = seen].pc = step
        /\ [call[c] EXCEPT !.pc = step, !.seen = seen].seen = seen
    BY <1>4, <2>1 DEF Caller
  <2> QED
    BY <2>2
<1>6. call' = [call EXCEPT ![c] = x]
  BY <1>3, <1>5, CallBusy DEF Inv, TypeOK
<1>7. x.pc = "record" => x.seen = run /\ run.state = "WAITING_EXTERNAL"
  BY <1>3, <1>5 DEF AcceptsEvidence
<1>8. /\ evidence \in [Events \cup Callbacks -> Verdicts \cup {None}]
      /\ troubles \in 0..MaxTroubles
  BY DEF Inv, TypeOK
<1>9. Inv'
  BY <1>1, <1>5, <1>6, <1>7, <1>8, CallMoves DEF RunGrows
<1> QED
  BY <1>1, <1>9 DEF Rewritten

LEMMA RecordCallKeeps ==
    ASSUME Inv, NEW c \in Callbacks, RecordCall(c)
    PROVE  Inv' /\ Rewritten
<1>1. /\ NoMail /\ UNCHANGED <<interventions, troubles, ghosts>>
      /\ ReadWaiting(call[c].seen) /\ call[c].verdict \in Verdicts
  BY CallBusy DEF RecordCall, CallKnows, Caller
<1>2. PICK step \in {"ask", "complete", "fail"} :
          /\ call' = [call EXCEPT ![c].pc = step]
          /\ \/ Applies(c, call[c].seen, call[c].verdict)
             \/ Repeats(c)
             \/ Refuses(c, call[c].seen)
          /\ Refuses(c, call[c].seen) => step = "fail"
  BY DEF RecordCall, CallGoes, Applies, Repeats, Refuses
<1>3. /\ RunGrows /\ Rewritten
      /\ evidence' \in [Events \cup Callbacks -> Verdicts \cup {None}]
      /\ \A a \in Events \cup Callbacks : evidence[a] # None => evidence'[a] # None
      /\ ~Refuses(c, call[c].seen) => evidence'[c] # None
  BY <1>1, <1>2, Applied
<1>4. PICK x \in Caller : x = [call[c] EXCEPT !.pc = step] /\ x.pc = step
  <2>1. call[c] \in Caller
    BY CallBusy
  <2>2. [call[c] EXCEPT !.pc = step] \in Caller /\ [call[c] EXCEPT !.pc = step].pc = step
    BY <2>1 DEF Caller, CallSteps
  <2> QED
    BY <2>2
<1>5. call' = [call EXCEPT ![c] = x]
  BY <1>2, <1>4
<1>6. x.pc \in {"ask", "complete", "answered"} => evidence'[c] # None
  BY <1>2, <1>3, <1>4
<1>7. troubles' \in 0..MaxTroubles /\ x.pc # "record"
  BY <1>1, <1>4 DEF Inv, TypeOK
<1>8. Inv'
  BY <1>1, <1>3, <1>5, <1>6, <1>7, CallMoves
<1> QED
  BY <1>3, <1>8

LEMMA CallEndsKeeps ==
    ASSUME Inv, NEW c \in Callbacks,
           AskAfterCall(c) \/ Complete(c) \/ FailCallback(c) \/ CallThrows(c) \/ CallDies(c)
    PROVE  Inv' /\ Rewritten
<1>1. /\ NoMail /\ UNCHANGED <<run, evidence, ghosts>>
      /\ interventions' \in {interventions, interventions \cup {"EVIDENCE_CONFLICT"}}
      /\ troubles' \in 0..MaxTroubles
  BY Troubles DEF AskAfterCall, Complete, FailCallback, CallThrows, CallDies, Inv
<1>2. CASE AskAfterCall(c)
  <2>1. call' = [call EXCEPT ![c].pc = "complete", ![c].seen = call[c].seen]
    BY <1>2, CallBusy DEF AskAfterCall, CallGoes, Caller, Inv, TypeOK
  <2>2. evidence[c] # None /\ call[c].seen \in Run \cup {NoRun}
    BY <1>2, CallBusy DEF AskAfterCall, CallKnows, Caller
  <2>3. "complete" \in CallSteps \ {"record"}
    BY DEF CallSteps
  <2> QED
    BY <1>1, <2>1, <2>2, <2>3, CallGoesOn
<1>3. CASE Complete(c)
  <2>1. evidence[c] # None
    BY <1>3, CallBusy DEF Complete, CallKnows
  <2>2. "answered" \in CallSteps \ {"record"}
    BY DEF CallSteps
  <2> QED
    BY <1>1, <1>3, <2>1, <2>2, CallGoesOn DEF Complete, Forget
<1>4. CASE FailCallback(c) \/ CallThrows(c) \/ CallDies(c)
  <2>1. PICK step \in {"idle", "refused"} :
            call' = [call EXCEPT ![c].pc = step, ![c].seen = NoRun]
    BY <1>4 DEF FailCallback, CallThrows, CallDies, Forget, AnsweredNotReady
  <2>2. step \in CallSteps \ {"record"}
    BY DEF CallSteps
  <2> QED
    BY <1>1, <2>1, <2>2, CallGoesOn
<1> QED
  BY <1>2, <1>3, <1>4

-----------------------------------------------------------------------------
(***************************************************************************)
(* The specification.                                                      *)
(***************************************************************************)

LEMMA StandsStill ==
    ASSUME Inv, UNCHANGED vars
    PROVE  Inv' /\ Rewritten
<1>1. /\ UNCHANGED <<run, record, transport, sender, kind, event, posting, task, tries, webhook, worker,
                     call, evidence, interventions, troubles, handled, forsaken, early, spared>>
      /\ UNCHANGED <<mail, worker, ghosts>>
  BY DEF vars, followUp, mail, ghosts
<1>2. Grows
  BY <1>1 DEF Grows, RunGrows
<1>3. TypeOK'
  BY <1>1 DEF Inv, TypeOK
<1>4. EventsHappened' /\ EventsAwaited' /\ BounceReachesOwner'
  BY <1>1, <1>2, MailStands
<1>5. /\ SenderKnows'
      /\ \A h \in Webhooks : WebhookKnows(webhook[h])'
      /\ \A w \in Workers : WorkerKnows(worker[w])'
      /\ \A c \in Callbacks : CallKnows(c)'
  BY <1>1, <1>2, OthersKnow
<1> QED
  BY <1>1, <1>3, <1>4, <1>5 DEF Inv, Rewritten

LEMMA NextKeeps ==
    ASSUME Inv, [Next]_vars
    PROVE  Inv' /\ Rewritten
<1>1. CASE Send \/ Settle \/ Release
  BY <1>1, SendKeeps
<1>2. CASE Publish
  BY <1>2, PublishKeeps
<1>3. ASSUME NEW command \in {"STOP", "RESUME"}, Control(command) PROVE Inv' /\ Rewritten
  BY <1>3, ControlKeeps
<1>4. ASSUME NEW e \in Events, Occur(e) PROVE Inv' /\ Rewritten
  BY <1>4, OccurKeeps
<1>5. ASSUME NEW h \in Webhooks, WebhookStep(h) \/ WebhookThrows(h) \/ WebhookDies(h)
      PROVE  Inv' /\ Rewritten
  BY <1>5, ReserveEventKeeps, ScheduleInboundKeeps, MarkEnqueuedKeeps, WebhookDiesKeeps
     DEF WebhookStep
<1>6. ASSUME NEW w \in Workers, NEW e \in Events, Deliver(w, e) PROVE Inv' /\ Rewritten
  BY <1>6, DeliverKeeps
<1>7. ASSUME NEW w \in Workers,
             WorkerStep(w) \/ WorkerThrows(w) \/ WorkerDies(w) \/ DeliverAgain(w)
      PROVE  Inv' /\ Rewritten
  BY <1>7, QuietSteps, MergeReceiptKeeps, StopCaseKeeps, AskKeeps, ReconcileKeeps,
     RecordReplyKeeps, MarkProcessedKeeps, WorkerEndsKeeps DEF WorkerStep
<1>8. ASSUME NEW c \in Callbacks, CallStep(c) \/ CallThrows(c) \/ CallDies(c)
      PROVE  Inv' /\ Rewritten
  BY <1>8, PostKeeps, ReconcileCallKeeps, RecordCallKeeps, CallEndsKeeps DEF CallStep
<1>9. CASE UNCHANGED vars
  BY <1>9, StandsStill
<1> QED
  BY <1>1, <1>2, <1>3, <1>4, <1>5, <1>6, <1>7, <1>8, <1>9 DEF Next

\* The inductive invariant holds of every reachable state: what webhooks, workers and
\* callbacks know between two awaits, and that every event taken has somebody to see to it.
THEOREM Invariance == Spec => []Inv
<1>1. Init => Inv
  BY InitInv
<1>2. Inv /\ [Next]_vars => Inv'
  BY NextKeeps
<1> QED
  BY <1>1, <1>2, PTL DEF Spec

\* However many webhooks and workers run, fail, or die, and however often the provider posts
\* and the queue delivers, an event that handleEmailWebhook has taken is being seen to until
\* it is processed, unless its webhook stopped before it had queued the task or the queue
\* gave the task up after MaxTries deliveries (queue.yaml).
THEOREM EventsStayAttended == Spec => []EventsAttended
<1>1. Inv => EventsAttended
  BY DEF Inv, EventsAwaited, EventsAttended
<1> QED
  BY <1>1, Invariance, PTL

\* A processed bounce, complaint or suppression has reached the owner, unless it came before
\* the receipt was stored or after the case had ended: recordTransportEvent and the
\* transaction that stops the case race the runner, the owner and the evidence service.
THEOREM BouncesReachOwner == Spec => []BounceReachesOwner
<1>1. Inv => BounceReachesOwner
  BY DEF Inv
<1> QED
  BY <1>1, Invariance, PTL

\* A callback that handleMerchantCallback answered with success has its evidence stored.
THEOREM AnswersAreRecorded == Spec => []AnsweredIsRecorded
<1>1. Inv => AnsweredIsRecorded
  BY DEF Inv, CallKnows, AnsweredIsRecorded
<1> QED
  BY <1>1, Invariance, PTL

\* However long the runner, the evidence service and the tasks wait between what they read
\* and what they write, the run evolves as if each had decided on the version it rewrites.
THEOREM ImplementsDocument == Spec => KeepsDocument
<1>1. Init => Document!Init
  BY SameRewrites DEF Init, Document!Init
<1>2. Inv /\ [Next]_vars => [Document!Next]_(Document!vars)
  BY NextKeeps DEF Rewritten, Document!vars
<1> QED
  BY <1>1, <1>2, Invariance, PTL DEF Spec, KeepsDocument, Document!Spec

-----------------------------------------------------------------------------
(***************************************************************************)
(* What CaseDocument promises, and Replies with it.                        *)
(***************************************************************************)

\* Sound is inductive, and its steps go forward.
Forwards ==
    /\ run' # run => run'.version = run.version + 1
    /\ run'.ordinal \in {run.ordinal, run.ordinal + 1}
    /\ run'.state = "DONE" => run.state \in {"DONE", "WAITING_EXTERNAL"}
    /\ run.revoked => /\ run'.revoked
                      /\ run'.ordinal = run.ordinal
                      /\ run'.state \notin Dispatchable \cup {"DONE"}

Stands ==
    /\ run \in Run
    /\ run.state \in Dispatchable \cup {"DONE"} => ~run.revoked
    /\ run.state \in {"WAITING_EXTERNAL", "DONE"} => run.ordinal > 1

LEMMA StandsIsSound == Document!Sound <=> Stands
BY SameDispatchable DEF Document!Sound, Stands, Document!Run, Run, Document!RunStates, RunStates

LEMMA AttemptForwards ==
    ASSUME Stands, Document!Attempt \/ Document!Exhaust
    PROVE  Stands' /\ Forwards
<1>1. run \in Run /\ run.state \in Dispatchable /\ ~run.revoked /\ run.ordinal \in Nat \ {0}
  BY SameDispatchable, LimitsAssumption
     DEF Stands, Document!Attempt, Document!Exhaust, Run
<1>2. \/ run.ordinal <= MaxLogicalSends /\ run' = Sent(run)
      \/ run' \in {Retried(run), RecoveryExhausted(run), BudgetExhausted(run), Denied(run)}
  BY SameRewrites DEF Document!Attempt, Document!Exhaust, Document!Becomes
<1>3. CASE run.ordinal <= MaxLogicalSends /\ run' = Sent(run)
  <2>1. /\ run' \in Run /\ run'.version = run.version + 1 /\ run'.ordinal = run.ordinal + 1
        /\ run'.state = "WAITING_EXTERNAL" /\ run'.revoked = run.revoked
    BY <1>1, <1>3, LimitsAssumption DEF Sent, Run, RunStates
  <2> QED
    BY <1>1, <2>1 DEF Stands, Forwards
<1>4. CASE run' \in {Retried(run), RecoveryExhausted(run), BudgetExhausted(run), Denied(run)}
  <2>1. /\ run' \in Run /\ run'.version = run.version + 1 /\ run'.ordinal = run.ordinal
        /\ run'.state \in {"WAITING_RETRY", "NEEDS_ATTENTION", "FAILED"}
        /\ run'.revoked = run.revoked
    BY <1>1, <1>4, RunnerRewrites
  <2> QED
    BY <1>1, <2>1 DEF Stands, Forwards
<1> QED
  BY <1>2, <1>3, <1>4

LEMMA AnswerForwards ==
    ASSUME Stands,
           Document!LoseRoute \/ \E verdict \in Document!Verdicts : Document!Answer(verdict)
    PROVE  Stands' /\ Forwards
<1>1. run \in Run /\ run.ordinal \in Nat
  BY LimitsAssumption DEF Stands, Run
<1>2. CASE Document!LoseRoute
  <2>1. run' = Bounced(run) /\ "ACCEPTED" \in Verdicts
    BY <1>2, SameRewrites DEF Document!LoseRoute, Document!Becomes, Verdicts
  <2>2. /\ run' \in Run /\ run'.version = run.version + 1 /\ run'.ordinal = run.ordinal
        /\ run'.state = "NEEDS_ATTENTION" /\ run'.revoked = run.revoked
    BY <1>1, <2>1, EventRewrites
  <2> QED
    BY <1>1, <2>2 DEF Stands, Forwards, Dispatchable
<1>3. ASSUME NEW verdict \in Verdicts, Document!Answer(verdict)
      PROVE  Stands' /\ Forwards
  <2>1. run' = Evidenced(run, verdict) /\ run.state = "WAITING_EXTERNAL"
    BY <1>3, SameAnswers DEF Document!Answer, Document!Becomes
  <2>2. /\ run' \in Run /\ run'.version = run.version + 1 /\ run'.ordinal = run.ordinal
        /\ run'.revoked = run.revoked
    BY <1>1, <2>1, EventRewrites
  <2>3. run.ordinal > 1 /\ ~run.revoked
    BY <2>1 DEF Stands, Dispatchable
  <2> QED
    BY <1>1, <2>1, <2>2, <2>3 DEF Stands, Forwards
<1> QED
  BY <1>2, <1>3, SameAnswers

LEMMA CommandForwards ==
    ASSUME Stands, NEW command \in Commands, Document!Command(command)
    PROVE  Stands' /\ Forwards
<1>0. run' = Controlled(run, command) /\ CommandAllowed(run, FALSE, command)
  BY SameCommands, Zenon DEF Document!Command, Document!Becomes
<1>1. run \in Run /\ run.ordinal \in Nat
  BY LimitsAssumption DEF Stands, Run
<1>2. /\ run' \in Run /\ run'.version = run.version + 1 /\ run'.ordinal = run.ordinal
      /\ command = "REOPEN" => run'.state = "NEEDS_ATTENTION" /\ run'.revoked = run.revoked
      /\ command = "RESUME" => run'.state = "READY" /\ run'.revoked = run.revoked
      /\ command \notin {"REOPEN", "RESUME"} =>
            run'.state \in {"CANCELLED", "EXPIRED"} /\ run'.revoked
  BY <1>0, <1>1, ControlRewrites
<1>3. command = "RESUME" => ~run.revoked
  BY <1>0 DEF CommandAllowed
<1> QED
  BY <1>1, <1>2, <1>3 DEF Stands, Forwards, Dispatchable

LEMMA DocumentForwards ==
    ASSUME Stands, [Document!Next]_(Document!vars)
    PROVE  Stands' /\ Forwards
<1>1. CASE run' = run
  BY <1>1 DEF Stands, Forwards
<1>2. ASSUME Document!Erase \/ Document!Expire \/ UNCHANGED Document!vars
      PROVE  run' = run
  BY <1>2 DEF Document!Erase, Document!Expire, Document!vars
<1> QED
  BY <1>1, <1>2, AttemptForwards, AnswerForwards, CommandForwards, SameCommands DEF Document!Next

\* A run document whose versions each follow from the one before is sound: it works and is
\* closed only under the approval, waits and is closed only after an action was sent, counts
\* its actions in order, and never comes back from a withdrawal.
THEOREM DocumentIsSound == KeepsDocument => []Document!Sound /\ Document!Forward
<1>1. Document!Init => Stands
  <2>1. ActivatedRun.state = "READY" /\ ~ActivatedRun.revoked
    BY DEF ActivatedRun
  <2> QED
    BY <2>1, ActivatedRunType, SameRewrites DEF Document!Init, Stands
<1>2. Stands /\ [Document!Next]_(Document!vars) => Stands' /\ Forwards
  BY DocumentForwards
<1>3. Stands <=> Document!Sound
  BY StandsIsSound
<1>4. KeepsDocument => []Document!Sound /\ [][Forwards]_(Document!vars)
  BY <1>1, <1>2, <1>3, PTL DEF KeepsDocument, Document!Spec
<1>5. [Forwards]_(Document!vars) =>
          [/\ run' # run => run'.version = run.version + 1
           /\ run'.ordinal \in {run.ordinal, run.ordinal + 1}
           /\ run'.state = "DONE" => run.state \in {"DONE", "WAITING_EXTERNAL"}
           /\ run.revoked => /\ run'.revoked
                             /\ run'.ordinal = run.ordinal
                             /\ run'.state \notin Document!Dispatchable \cup {"DONE"}]_(Document!vars)
  BY SameDispatchable DEF Forwards
<1> QED
  BY <1>4, <1>5, PTL DEF Document!Forward

\* So it is however mail, callbacks, the owner and the follow-up race: an answer completes
\* only a case that waits for it, and one that was stopped counts and completes nothing.
COROLLARY RepliesRewriteSoundly == Spec => []Document!Sound /\ Document!Forward
BY ImplementsDocument, DocumentIsSound, PTL
=============================================================================
