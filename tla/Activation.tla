----------------------------- MODULE Activation -----------------------------
(***************************************************************************)
(* From a draft to an approved case and back: the owner reviews a plan,    *)
(* revises it, chooses a channel, approves or rejects it, and controls the *)
(* case that approval creates, up to its deletion.                         *)
(*                                                                         *)
(* Requests for one case interleave at their awaits.  A plan request reads *)
(* the draft, decides, and replaces it in a transaction that compares the  *)
(* plan's version only; a control request looks up its idempotency key,    *)
(* reads the run, and writes in a transaction that compares the run's      *)
(* version.  A request that dies simply does not go on.                    *)
(*                                                                         *)
(* The run document and what each writer makes of it come from CaseRuns;   *)
(* run version 0 says there is no document.  The wake intents that some of *)
(* these transactions store are in FollowThrough, and what scheduleCase    *)
(* does with them in WakeOutbox.                                           *)
(***************************************************************************)
EXTENDS CaseRuns

CONSTANTS
    Requests,     \* POST /api/cases/.../plan and .../control, handled at once
    Keys,         \* idempotency keys the client makes up
    Actions,      \* control actions the owner's client offers
    Available,    \* channels that the deployment has configured
    FirstChannel, \* the channel that intake plans for
    MaxPlan,      \* bound: versions of the plan
    MaxVersion    \* bound: versions of the run

Channels == {"CONTROLLED_SANDBOX", "MANAGED_EMAIL"}
Modes == {"ACCELERATED_DEMO", "CONTROLLED_REAL_PILOT"}

\* The pace that buildPlan gives a plan: seconds, or days.
ModeOf(channel) ==
    IF channel = "CONTROLLED_SANDBOX" THEN "ACCELERATED_DEMO" ELSE "CONTROLLED_REAL_PILOT"

ASSUME ActivationAssumption ==
    /\ Actions \subseteq Commands \cup {"DELETE"}
    /\ Available \subseteq Channels
    /\ FirstChannel \in Channels
    /\ {MaxPlan, MaxVersion} \subseteq Nat \ {0}

VARIABLES
    draft,     \* caseDrafts/{caseId}
    run,       \* caseRuns/{caseId}
    authority, \* plan and approval of the run, the last there was
    event,     \* caseRuns/{caseId}/events/000001-plan-approved exists
    commands,  \* caseControlCommands: key, action, and version of the result
    tombstone, \* deletionTombstones has one of the case
    dedupe,    \* intakeDedupe names the case
    request,   \* each request: its next await, what it asks, what it has read
    plans      \* plans that were ever the draft's

documents == <<draft, run, authority, event, commands, tombstone, dedupe>>
vars == <<documents, request, plans>>

Plan == [version : 1..MaxPlan, channel : Channels, mode : Modes, blocked : BOOLEAN]
DraftStates == {"AWAITING_APPROVAL", "READY", "CANCELLED"}
\* approved is the version that draft.approval is for, 0 without one.
Draft == [state : DraftStates, plan : Plan, approved : 0..MaxPlan]
NoDraft == [state |-> "ABSENT"]
NoRun == [ActivatedRun EXCEPT !.version = 0]
NoAuthority == [plan |-> NoDraft, identified |-> FALSE]

PlanRequests == {"approve", "revise", "select-channel", "reject", "delete"}
Idle == [pc |-> "idle"]
PlanRequest ==
    [pc : {"check", "read", "replace", "delete"}, kind : PlanRequests,
     asked : Plan, identified : BOOLEAN, next : Draft \cup {NoDraft}]
ControlRequest ==
    [pc : {"lookup", "read", "write", "clean", "purge"},
     kind : Actions, expected : 1..MaxVersion, key : Keys]

TypeOK ==
    /\ draft \in Draft \cup {NoDraft}
    /\ run \in Run
    /\ authority \in [plan : Plan, identified : BOOLEAN] \cup {NoAuthority}
    /\ event \in BOOLEAN /\ tombstone \in BOOLEAN /\ dedupe \in BOOLEAN
    /\ commands \subseteq [key : Keys, action : Actions, version : Nat]
    /\ request \in [Requests -> {Idle} \cup PlanRequest \cup ControlRequest]
    /\ plans \subseteq Plan

\* FirestoreIntakeStore.createDraft has stored the plan that buildPlan made.
Init ==
    /\ \E blocked \in BOOLEAN :
          draft = [state |-> "AWAITING_APPROVAL", approved |-> 0,
                   plan |-> [version |-> 1, channel |-> FirstChannel,
                             mode |-> ModeOf(FirstChannel), blocked |-> blocked]]
    /\ run = NoRun
    /\ authority = NoAuthority
    /\ event = FALSE /\ tombstone = FALSE /\ dedupe = TRUE
    /\ commands = {}
    /\ request = [r \in Requests |-> Idle]
    /\ plans = {draft.plan}

-----------------------------------------------------------------------------
(***************************************************************************)
(* handlePlanRequest and PlanService.                                      *)
(***************************************************************************)

\* The request is answered, refused, or dies.
Ends(r) == request' = [request EXCEPT ![r] = Idle]
Goes(r, step) == request' = [request EXCEPT ![r].pc = step]
Proposes(r, next) == request' = [request EXCEPT ![r].pc = "replace", ![r].next = next]
ReadsOnly == UNCHANGED <<documents, plans>>

\* The owner quotes a plan that he was shown: its version and its hash.
Ask(r, kind, plan) ==
    /\ request[r] = Idle
    /\ request' = [request EXCEPT ![r] =
           [pc |-> IF kind = "approve" THEN "check" ELSE "read", kind |-> kind, asked |-> plan,
            identified |-> FALSE, next |-> NoDraft]]
    /\ ReadsOnly

\* Mutant: anybody may approve.
Unverified(plan) == FALSE

\* For managed email the owner's token must name a provider and the verified address
\* that notices go to.
Verified(plan) == plan.channel = "MANAGED_EMAIL"

\* The controller looks at the plan before the service reads it again.
Check(r) ==
    /\ request[r].pc = "check"
    /\ draft # NoDraft
    /\ draft.plan.channel \in Available
    /\ request' = [request EXCEPT ![r].pc = "read", ![r].identified = Verified(draft.plan)]
    /\ ReadsOnly

Asked(r, kind) == request[r].pc = "read" /\ request[r].kind = kind
Commanded(r, step) == request[r].pc = step /\ request[r].kind \in Actions
SameVersion(r) == draft # NoDraft /\ draft.plan.version = request[r].asked.version
Editable(r) == SameVersion(r) /\ draft.state = "AWAITING_APPROVAL"
Approvable(r) == Editable(r) /\ draft.plan = request[r].asked /\ ~draft.plan.blocked

Approve(r) ==
    /\ Asked(r, "approve")
    /\ Approvable(r)
    /\ Proposes(r, [draft EXCEPT !.state = "READY", !.approved = draft.plan.version])
    /\ ReadsOnly

\* The next version of the plan, with its blocking fields found again.  The mode is kept,
\* whatever becomes of the channel.
Revised(plan, channel, blocked) ==
    [plan EXCEPT !.version = @ + 1, !.channel = channel, !.blocked = blocked]

Revise(r, blocked) ==
    /\ Asked(r, "revise")
    /\ Editable(r)
    /\ draft.plan.version < MaxPlan
    /\ Proposes(r, [draft EXCEPT !.plan = Revised(@, @.channel, blocked)])
    /\ ReadsOnly

SelectChannel(r, channel, blocked) ==
    /\ Asked(r, "select-channel")
    /\ channel \in Available
    /\ Editable(r)
    /\ draft.plan.channel # channel
    /\ draft.plan.version < MaxPlan
    /\ Proposes(r, [draft EXCEPT !.plan = Revised(@, channel, blocked)])
    /\ ReadsOnly

\* The state is not looked at.
Reject(r) ==
    /\ Asked(r, "reject")
    /\ SameVersion(r)
    /\ Proposes(r, [draft EXCEPT !.state = "CANCELLED"])
    /\ ReadsOnly

DeleteDraft(r) ==
    /\ Asked(r, "delete")
    /\ draft # NoDraft
    /\ draft.state # "READY"
    /\ Goes(r, "delete")
    /\ ReadsOnly

\* A check refuses, or there is nothing to change: the plan has expired, its approval is
\* repeated and only scheduled again, its channel is chosen once more.  Or the instance dies.
GiveUp(r) ==
    /\ request[r] # Idle
    /\ Ends(r)
    /\ ReadsOnly

\* Mutant: the version is compared when the plan is read, not when it is replaced.
StoredIfAny(r) == draft # NoDraft

\* Mutant: a draft that is gone has no version to differ from.
StoredOrGone(r) == draft # NoDraft => SameVersion(r)

Stored(r) == SameVersion(r)

Replacing(r) == request[r].pc = "replace" /\ Stored(r)

\* FirestoreIntakeStore.replace with a plan that is not approved.
Replace(r) ==
    /\ Replacing(r)
    /\ request[r].kind # "approve"
    /\ draft' = request[r].next
    /\ plans' = plans \cup {draft'.plan}
    /\ Ends(r)
    /\ UNCHANGED <<run, authority, event, commands, tombstone, dedupe>>

\* Mutant: the event is set, not created.
Creatable == TRUE

\* A document is created only where there is none, else the transaction fails.
Creates == ~event

\* replace with an approved plan: the draft, the wake, the run and its first event.
Activate(r) ==
    /\ Replacing(r)
    /\ request[r].kind = "approve"
    /\ Creates
    /\ draft' = request[r].next
    /\ run' = ActivatedRun
    /\ authority' = [plan |-> draft'.plan, identified |-> request[r].identified]
    /\ event' = TRUE
    /\ Ends(r)
    /\ UNCHANGED <<commands, tombstone, dedupe, plans>>

\* FirestoreIntakeStore.deleteDraft: whatever the draft has become.
RemoveDraft(r) ==
    /\ request[r].pc = "delete"
    /\ draft # NoDraft
    /\ draft' = NoDraft
    /\ dedupe' = FALSE
    /\ Ends(r)
    /\ UNCHANGED <<run, authority, event, commands, tombstone, plans>>

-----------------------------------------------------------------------------
(***************************************************************************)
(* handleCaseControl and CaseControlService.                               *)
(***************************************************************************)

Command(r, action, version, key) ==
    /\ request[r] = Idle
    /\ request' = [request EXCEPT ![r] =
           [pc |-> "lookup", kind |-> action, expected |-> version, key |-> key]]
    /\ ReadsOnly

Known(r) == \E m \in commands : m.key = request[r].key

\* getCommandResult: a command known by its key is answered from the store, and refused
\* if the key was another command's.
Lookup(r) ==
    /\ request[r].pc = "lookup"
    /\ IF Known(r) THEN Ends(r) ELSE Goes(r, "read")
    /\ ReadsOnly

\* The run at the version the command is for; a run that is gone has none.
AtVersion(r) == run.version = request[r].expected

ReadRun(r, expired) ==
    /\ Commanded(r, "read")
    /\ AtVersion(r)
    /\ request[r].kind # "DELETE" => CommandAllowed(run, expired, request[r].kind)
    /\ Goes(r, "write")
    /\ ReadsOnly

\* Mutant: the key is looked up before the transaction only.
NeverKnown(r) == FALSE

AlreadyTaken(r) == Known(r)

Writes(r) ==
    /\ request[r].pc = "write"
    /\ ~AlreadyTaken(r)
    /\ AtVersion(r)
    /\ run.version < MaxVersion
    /\ commands' = commands \cup {[key |-> request[r].key, action |-> request[r].kind,
                                    version |-> run.version + 1]}

\* transition, one transaction.
Transition(r) ==
    /\ Writes(r)
    /\ request[r].kind \notin {"REVISE", "DELETE"}
    /\ run' = Controlled(run, request[r].kind)
    /\ Ends(r)
    /\ UNCHANGED <<draft, authority, event, tombstone, dedupe, plans>>

\* Mutant: the draft takes the state of a case that needs its owner.
ReopenedAsNeedy(d) == [d EXCEPT !.state = "NEEDS_ATTENTION", !.approved = 0]

Reopened(d) == [d EXCEPT !.state = "AWAITING_APPROVAL", !.approved = 0]

\* beginReapproval: the draft is open again, at the version it had.
BeginReapproval(r) ==
    /\ Writes(r)
    /\ request[r].kind = "REVISE"
    /\ draft # NoDraft
    /\ run' = Controlled(run, "REVISE")
    /\ draft' = Reopened(draft)
    /\ Ends(r)
    /\ UNCHANGED <<authority, event, tombstone, dedupe, plans>>

\* requestDeletion's transaction.
Delete(r) ==
    /\ Writes(r)
    /\ request[r].kind = "DELETE"
    /\ ~tombstone
    /\ tombstone' = TRUE
    /\ run' = NoRun
    /\ draft' = NoDraft
    /\ Goes(r, "clean")
    /\ UNCHANGED <<authority, event, dedupe, plans>>

\* The transaction finds the key taken: the first three commands answer or refuse, and
\* requestDeletion, which does not ask what the key was taken for, goes on to clean up.
FindsTaken(r) ==
    /\ request[r].pc = "write"
    /\ AlreadyTaken(r)
    /\ IF request[r].kind = "DELETE" THEN Goes(r, "clean") ELSE Ends(r)
    /\ ReadsOnly

\* The notices and the deduplication of the case go in a batch.
Clean(r) ==
    /\ request[r].pc = "clean"
    /\ dedupe' = FALSE
    /\ Goes(r, "purge")
    /\ UNCHANGED <<draft, run, authority, event, commands, tombstone, plans>>

\* recursiveDelete of the run and what is stored under it.
Purge(r) ==
    /\ request[r].pc = "purge"
    /\ run' = NoRun
    /\ event' = FALSE
    /\ Ends(r)
    /\ UNCHANGED <<draft, authority, commands, tombstone, dedupe, plans>>

-----------------------------------------------------------------------------
\* What the runner, evidence and transport events write, as far as a command tells it
\* apart (FollowThrough says when, and what else).
RunMoves ==
    /\ run # NoRun
    /\ run.version < MaxVersion
    /\ \/ /\ run.state \in Dispatchable
          /\ run' \in {BudgetExhausted(run), Evidenced(run, "ACCEPTED")}
       \/ /\ run.state # "DONE"
          /\ run' = Bounced(run)
    /\ UNCHANGED <<draft, authority, event, commands, tombstone, dedupe, request, plans>>

PlanStep(r) ==
    \/ \E kind \in PlanRequests, plan \in plans : Ask(r, kind, plan)
    \/ Check(r)
    \/ Approve(r)
    \/ \E blocked \in BOOLEAN :
          Revise(r, blocked) \/ \E channel \in Channels : SelectChannel(r, channel, blocked)
    \/ Reject(r)
    \/ DeleteDraft(r)
    \/ Replace(r)
    \/ Activate(r)
    \/ RemoveDraft(r)
    \/ GiveUp(r)

ControlStep(r) ==
    \/ \E action \in Actions, version \in 1..(MaxVersion - 1), key \in Keys :
          Command(r, action, version, key)
    \/ Lookup(r)
    \/ \E expired \in BOOLEAN : ReadRun(r, expired)
    \/ Transition(r)
    \/ BeginReapproval(r)
    \/ Delete(r)
    \/ FindsTaken(r)
    \/ Clean(r)
    \/ Purge(r)

Next ==
    \/ \E r \in Requests : PlanStep(r) \/ ControlStep(r)
    \/ RunMoves

Spec == Init /\ [][Next]_vars

-----------------------------------------------------------------------------
(***************************************************************************)
(* Properties.                                                             *)
(***************************************************************************)

\* A version names one plan: of two revisions or channel choices that race, one is
\* refused, so what an approval quotes is what its owner saw (001 FR-007).
PlanVersionsUnique ==
    \A p, q \in plans : p.version = q.version => p = q

\* A run never starts over: while its document stands its version only grows, through
\* repeated approvals, re-approvals and crashes, so no worker's old snapshot becomes
\* current again.  Only the event that activation creates sees to it.
RunNeverStartsOver ==
    [][run # NoRun /\ run' # NoRun => run'.version >= run.version]_vars

\* Nobody's case runs over managed email but an identified owner's, although the
\* controller looks at one reading of the draft and the service approves another.
EmailNeedsIdentity ==
    run # NoRun /\ authority.plan.channel = "MANAGED_EMAIL" => authority.identified

\* Nothing brings a deleted case back: no approval, revision, rejection or command that
\* was under way when the deletion was recorded (004 FR-028).
DeletedStaysDeleted == tombstone => run = NoRun /\ draft = NoDraft

\* A key has one effect, however often, how concurrently and at which versions the
\* client repeats it (004 FR-026).
KeysTakeEffectOnce ==
    \A m, n \in commands : m.key = n.key => m = n

\* What the product executes is the plan the owner sees: a revision, a channel choice and
\* an approval of one version do not pass each other (001 FR-007).
ApprovedPlanStands ==
    run # NoRun /\ ~run.revoked /\ draft # NoDraft => draft.plan = authority.plan

\* A draft that awaits approval can be approved, after REVISE as well (004 FR-027).
AwaitingIsApprovable ==
    draft # NoDraft /\ draft.state = "AWAITING_APPROVAL" => Creates
=============================================================================
