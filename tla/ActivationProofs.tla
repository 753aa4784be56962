-------------------------- MODULE ActivationProofs --------------------------
(***************************************************************************)
(* Proofs about Activation for every number of requests, keys, plan        *)
(* versions and run versions.                                              *)
(*                                                                         *)
(* The steps fall into three kinds: those that only read, those that       *)
(* replace or remove the draft, and those that touch the run alone.  What  *)
(* a request that is under way still may store is the heart of it: the     *)
(* plan that it quotes was the draft's, and the draft's version has not    *)
(* gone back since.                                                        *)
(***************************************************************************)
EXTENDS Activation, CaseRunsProofs

\* The draft's plan is the newest there was.
Newest ==
    draft # NoDraft => draft.plan \in plans /\ \A p \in plans : p.version <= draft.plan.version

\* The plan that request x quotes will not be the draft's again.
Passed(x) == draft = NoDraft \/ draft.plan.version > x.asked.version

\* What a plan request has read and may store.
Quoted(x) ==
    x \in PlanRequest =>
        /\ x.asked \in plans
        /\ /\ x.kind = "approve" /\ x.pc # "check"
           /\ x.asked.channel = "MANAGED_EMAIL" /\ ~x.identified
           => Passed(x)
        /\ x.pc = "replace" =>
              /\ x.next \in Draft
              /\ x.kind \in {"approve", "reject"} => x.next.plan = x.asked
              /\ x.kind \in {"revise", "select-channel"} =>
                    x.next.plan.version = x.asked.version + 1
              /\ x.kind # "delete"

\* A run stands under the event that its activation created.
RunHasEvent == run # NoRun => event

Inv ==
    /\ TypeOK
    /\ Newest
    /\ PlanVersionsUnique
    /\ \A r \in Requests : Quoted(request[r])
    /\ RunHasEvent
    /\ EmailNeedsIdentity
    /\ DeletedStaysDeleted
    /\ KeysTakeEffectOnce

-----------------------------------------------------------------------------
LEMMA Limits ==
    /\ MaxPlan \in Nat /\ MaxPlan > 0
    /\ MaxVersion \in Nat /\ MaxVersion > 0
    /\ FirstChannel \in Channels
BY ActivationAssumption

LEMMA DraftFields ==
    ASSUME TypeOK, draft # NoDraft
    PROVE  /\ draft \in Draft
           /\ draft.plan \in Plan
           /\ draft.plan.version \in 1..MaxPlan
           /\ draft.state \in DraftStates
           /\ draft.approved \in 0..MaxPlan
BY DEF TypeOK, Draft, Plan

LEMMA DraftIsNot == \A d \in Draft : d # NoDraft
BY DEF Draft, NoDraft, DraftStates

LEMMA NoRunIsRun == NoRun \in Run /\ NoRun.version = 0 /\ ActivatedRun # NoRun
<1>1. ActivatedRun \in Run /\ ActivatedRun.version = 1
  BY ActivatedRunType DEF ActivatedRun
<1>2. NoRun \in Run /\ NoRun.version = 0
  BY <1>1 DEF NoRun, Run
<1> QED
  BY <1>1, <1>2

\* The requests of one kind are none of the other.
LEMMA KindsApart ==
    /\ Idle \notin PlanRequest /\ Idle \notin ControlRequest
    /\ PlanRequest \cap ControlRequest = {}
    /\ PlanRequests \cap Actions = {}
<1>1. PlanRequests \cap Actions = {}
  BY ActivationAssumption DEF PlanRequests, Commands
<1>2. Idle.pc = "idle" /\ \A x \in PlanRequest \cup ControlRequest : x.pc # "idle"
  BY DEF Idle, PlanRequest, ControlRequest
<1>3. \A x \in PlanRequest : x.kind \in PlanRequests
  BY DEF PlanRequest
<1>4. \A x \in ControlRequest : x.kind \in Actions
  BY DEF ControlRequest
<1> QED
  BY <1>1, <1>2, <1>3, <1>4

LEMMA InitInv == Init => Inv
<1> SUFFICES ASSUME Init PROVE Inv
  OBVIOUS
<1>1. PICK blocked \in BOOLEAN :
          draft = [state |-> "AWAITING_APPROVAL", approved |-> 0,
                   plan |-> [version |-> 1, channel |-> FirstChannel,
                             mode |-> ModeOf(FirstChannel), blocked |-> blocked]]
  BY DEF Init
<1>2. draft.plan \in Plan
  BY <1>1, Limits DEF Plan, Channels, Modes, ModeOf
<1>3. draft \in Draft
  BY <1>1, <1>2, Limits DEF Draft, DraftStates
<1>4. /\ run = NoRun /\ authority = NoAuthority /\ event = FALSE /\ tombstone = FALSE
      /\ dedupe = TRUE /\ commands = {} /\ request = [r \in Requests |-> Idle]
      /\ plans = {draft.plan}
  BY DEF Init
<1>5. TypeOK
  BY <1>2, <1>3, <1>4, NoRunIsRun DEF TypeOK
<1>6. Newest /\ PlanVersionsUnique
  BY <1>2, <1>4 DEF Newest, PlanVersionsUnique, Plan
<1>7. \A r \in Requests : Quoted(request[r])
  BY <1>4, KindsApart DEF Quoted
<1> QED
  BY <1>4, <1>5, <1>6, <1>7 DEF Inv, RunHasEvent, EmailNeedsIdentity, DeletedStaysDeleted,
                                KeysTakeEffectOnce

-----------------------------------------------------------------------------
(***************************************************************************)
(* Steps that only read.                                                   *)
(***************************************************************************)

\* The shapes a request can have.
Shapes == {Idle} \cup PlanRequest \cup ControlRequest

LEMMA ReadKeeps ==
    ASSUME Inv, NEW r \in Requests, NEW x \in Shapes, Quoted(x),
           request' = [request EXCEPT ![r] = x], ReadsOnly
    PROVE  Inv'
<1>1. /\ draft' = draft /\ run' = run /\ authority' = authority /\ event' = event
      /\ commands' = commands /\ tombstone' = tombstone /\ dedupe' = dedupe /\ plans' = plans
  BY DEF ReadsOnly, documents
<1>2. /\ request' \in [Requests -> Shapes]
      /\ request'[r] = x
      /\ \A u \in Requests : u # r => request'[u] = request[u]
  BY DEF Inv, TypeOK, Shapes
<1>3. TypeOK'
  BY <1>1, <1>2 DEF Inv, TypeOK, Shapes
<1>4. \A y : Quoted(y)' <=> Quoted(y)
  BY <1>1 DEF Quoted, Passed
<1>5. \A u \in Requests : Quoted(request[u])'
  BY <1>1, <1>2 DEF Inv, Quoted, Passed
<1> QED
  BY <1>1, <1>3, <1>5 DEF Inv, Newest, PlanVersionsUnique, RunHasEvent, EmailNeedsIdentity,
                          DeletedStaysDeleted, KeysTakeEffectOnce

LEMMA IdleKeeps ==
    ASSUME Inv, NEW r \in Requests, Ends(r), ReadsOnly
    PROVE  Inv'
BY ReadKeeps, KindsApart DEF Ends, Shapes, Quoted

LEMMA AskKeeps ==
    ASSUME Inv, NEW r \in Requests, NEW kind \in PlanRequests, NEW plan \in plans,
           Ask(r, kind, plan)
    PROVE  Inv'
<1> DEFINE x == [pc |-> IF kind = "approve" THEN "check" ELSE "read", kind |-> kind,
                 asked |-> plan, identified |-> FALSE, next |-> NoDraft]
<1>1. plan \in Plan
  BY DEF Inv, TypeOK
<1>2. x \in PlanRequest
  BY <1>1 DEF PlanRequest
<1>3. Quoted(x)
  BY DEF Quoted
<1>4. request' = [request EXCEPT ![r] = x] /\ ReadsOnly
  BY DEF Ask
<1> HIDE DEF x
<1> QED
  BY <1>2, <1>3, <1>4, ReadKeeps DEF Shapes

\* A plan request, by its await.
LEMMA IsPlanRequest ==
    ASSUME TypeOK, NEW r \in Requests,
           \/ request[r].pc \in {"check", "replace", "delete"}
           \/ request[r].pc = "read" /\ request[r].kind \in PlanRequests
    PROVE  request[r] \in PlanRequest
BY KindsApart DEF TypeOK, Idle, ControlRequest

LEMMA IsControlRequest ==
    ASSUME TypeOK, NEW r \in Requests,
           \/ request[r].pc \in {"lookup", "write", "clean", "purge"}
           \/ request[r].pc = "read" /\ request[r].kind \in Actions
    PROVE  request[r] \in ControlRequest
BY KindsApart DEF TypeOK, Idle, PlanRequest

LEMMA CheckKeeps ==
    ASSUME Inv, NEW r \in Requests, Check(r)
    PROVE  Inv'
<1> DEFINE q == request[r]
           x == [q EXCEPT !.pc = "read", !.identified = Verified(draft.plan)]
<1>1. q \in PlanRequest /\ Quoted(q) /\ draft # NoDraft
  BY IsPlanRequest DEF Inv, Check
<1>2. Verified(draft.plan) \in BOOLEAN
  BY DEF Verified
<1>3. x \in PlanRequest /\ x.asked = q.asked /\ x.kind = q.kind /\ x.pc = "read"
      /\ x.identified = Verified(draft.plan)
  BY <1>1, <1>2 DEF PlanRequest
<1>4. q.asked \in plans
  BY <1>1 DEF Quoted
<1>5. ASSUME q.asked.channel = "MANAGED_EMAIL", ~Verified(draft.plan)
      PROVE  draft.plan.version > q.asked.version
  <2>1. q.asked # draft.plan
    BY <1>5 DEF Verified
  <2>2. q.asked \in Plan /\ draft.plan \in Plan /\ draft.plan \in plans
        /\ q.asked.version <= draft.plan.version
    BY <1>1, <1>4 DEF Inv, TypeOK, Newest
  <2>3. q.asked.version # draft.plan.version
    BY <1>4, <2>1, <2>2 DEF Inv, PlanVersionsUnique
  <2> QED
    BY <2>2, <2>3 DEF Plan
<1>6. Quoted(x)
  BY <1>3, <1>4, <1>5 DEF Quoted, Passed
<1>7. request' = [request EXCEPT ![r] = x] /\ ReadsOnly
  BY <1>1 DEF Check, Inv, TypeOK
<1> HIDE DEF x
<1> QED
  BY <1>3, <1>6, <1>7, ReadKeeps DEF Shapes

\* A request that has made the draft it wants to store.
LEMMA ProposesKeeps ==
    ASSUME Inv, NEW r \in Requests, NEW kind \in PlanRequests \ {"delete"}, NEW next \in Draft,
           Asked(r, kind), Proposes(r, next), ReadsOnly,
           kind \in {"approve", "reject"} => next.plan = request[r].asked,
           kind \in {"revise", "select-channel"} =>
               next.plan.version = request[r].asked.version + 1
    PROVE  Inv'
<1> DEFINE q == request[r]
           x == [q EXCEPT !.pc = "replace", !.next = next]
<1>1. q \in PlanRequest /\ Quoted(q) /\ q.pc = "read" /\ q.kind = kind
  BY IsPlanRequest DEF Inv, Asked
<1>2. x \in PlanRequest /\ x.asked = q.asked /\ x.kind = kind /\ x.pc = "replace"
      /\ x.identified = q.identified /\ x.next = next
  BY <1>1 DEF PlanRequest
<1>3. Quoted(x)
  BY <1>1, <1>2 DEF Quoted, Passed
<1>4. request' = [request EXCEPT ![r] = x] /\ ReadsOnly
  BY <1>1 DEF Proposes, Inv, TypeOK
<1> HIDE DEF x
<1> QED
  BY <1>2, <1>3, <1>4, ReadKeeps DEF Shapes

LEMMA ApproveKeeps ==
    ASSUME Inv, NEW r \in Requests, Approve(r)
    PROVE  Inv'
<1> DEFINE next == [draft EXCEPT !.state = "READY", !.approved = draft.plan.version]
<1>1. draft # NoDraft /\ draft.plan = request[r].asked /\ TypeOK
  BY DEF Approve, Approvable, Editable, SameVersion, Inv
<1>2. next \in Draft /\ next.plan = draft.plan
  <2>1. draft \in Draft /\ draft.plan.version \in 0..MaxPlan
    BY <1>1, DraftFields, Limits
  <2> DEFINE v == draft.plan.version
  <2> HIDE DEF v
  <2>2. v \in 0..MaxPlan
    BY <2>1 DEF v
  <2>3. /\ [draft EXCEPT !.state = "READY", !.approved = v] \in Draft
        /\ [draft EXCEPT !.state = "READY", !.approved = v].plan = draft.plan
    BY <2>1, <2>2 DEF Draft, DraftStates
  <2> QED
    BY <2>3 DEF v
<1>3. Asked(r, "approve") /\ Proposes(r, next) /\ ReadsOnly
  BY DEF Approve
<1> HIDE DEF next
<1> QED
  BY <1>1, <1>2, <1>3, ProposesKeeps DEF PlanRequests

LEMMA RejectKeeps ==
    ASSUME Inv, NEW r \in Requests, Reject(r)
    PROVE  Inv'
<1> DEFINE next == [draft EXCEPT !.state = "CANCELLED"]
<1>1. draft # NoDraft /\ draft.plan.version = request[r].asked.version /\ TypeOK
      /\ request[r].pc = "read" /\ request[r].kind = "reject"
  BY DEF Reject, SameVersion, Inv, Asked
<1>2. next \in Draft /\ next.plan = draft.plan
  BY <1>1, DraftFields DEF Draft, DraftStates
<1>3. request[r].asked \in plans
  BY <1>1, IsPlanRequest DEF Inv, Quoted, PlanRequests
<1>4. draft.plan = request[r].asked
  BY <1>1, <1>3 DEF Inv, Newest, PlanVersionsUnique
<1>5. Asked(r, "reject") /\ Proposes(r, next) /\ ReadsOnly
  BY DEF Reject
<1> HIDE DEF next
<1> QED
  BY <1>2, <1>4, <1>5, ProposesKeeps DEF PlanRequests

\* A revision and a choice of channel make the next version of the plan.
LEMMA RevisedFields ==
    ASSUME TypeOK, draft # NoDraft, draft.plan.version < MaxPlan,
           NEW channel \in Channels, NEW blocked \in BOOLEAN
    PROVE  LET next == [draft EXCEPT !.plan = Revised(@, channel, blocked)]
           IN  next \in Draft /\ next.plan.version = draft.plan.version + 1
<1> DEFINE next == [draft EXCEPT !.plan = Revised(draft.plan, channel, blocked)]
           plan == Revised(draft.plan, channel, blocked)
<1>1. draft.plan \in Plan /\ draft.plan.version + 1 \in 1..MaxPlan
  BY DraftFields, Limits
<1>2. plan \in Plan /\ plan.version = draft.plan.version + 1
  BY <1>1 DEF Revised, Plan
<1> HIDE DEF plan
<1>3. [draft EXCEPT !.plan = plan] \in Draft /\ [draft EXCEPT !.plan = plan].plan = plan
  BY <1>2, DraftFields DEF Draft
<1> QED
  BY <1>2, <1>3 DEF plan

LEMMA ReviseKeeps ==
    ASSUME Inv, NEW r \in Requests, NEW blocked \in BOOLEAN, Revise(r, blocked)
    PROVE  Inv'
<1> DEFINE next == [draft EXCEPT !.plan = Revised(@, @.channel, blocked)]
<1>1. draft # NoDraft /\ draft.plan.version = request[r].asked.version
      /\ draft.plan.version < MaxPlan /\ TypeOK
  BY DEF Revise, Editable, SameVersion, Inv
<1>2. draft.plan.channel \in Channels
  BY <1>1, DraftFields DEF Plan
<1>3. next \in Draft /\ next.plan.version = draft.plan.version + 1
  BY <1>1, <1>2, RevisedFields
<1>4. Asked(r, "revise") /\ Proposes(r, next) /\ ReadsOnly
  BY DEF Revise
<1> HIDE DEF next
<1> QED
  BY <1>1, <1>3, <1>4, ProposesKeeps DEF PlanRequests

LEMMA SelectChannelKeeps ==
    ASSUME Inv, NEW r \in Requests, NEW channel \in Channels, NEW blocked \in BOOLEAN,
           SelectChannel(r, channel, blocked)
    PROVE  Inv'
<1> DEFINE next == [draft EXCEPT !.plan = Revised(@, channel, blocked)]
<1>1. draft # NoDraft /\ draft.plan.version = request[r].asked.version
      /\ draft.plan.version < MaxPlan /\ TypeOK
  BY DEF SelectChannel, Editable, SameVersion, Inv
<1>3. next \in Draft /\ next.plan.version = draft.plan.version + 1
  BY <1>1, RevisedFields
<1>4. Asked(r, "select-channel") /\ Proposes(r, next) /\ ReadsOnly
  BY DEF SelectChannel
<1> HIDE DEF next
<1> QED
  BY <1>1, <1>3, <1>4, ProposesKeeps DEF PlanRequests

LEMMA DeleteDraftKeeps ==
    ASSUME Inv, NEW r \in Requests, DeleteDraft(r)
    PROVE  Inv'
<1> DEFINE q == request[r]
           x == [q EXCEPT !.pc = "delete"]
<1>1. q \in PlanRequest /\ Quoted(q) /\ q.pc = "read" /\ q.kind = "delete"
  BY IsPlanRequest DEF Inv, DeleteDraft, Asked, PlanRequests
<1>2. x \in PlanRequest /\ x.asked = q.asked /\ x.kind = "delete" /\ x.pc = "delete"
  BY <1>1 DEF PlanRequest
<1>3. Quoted(x)
  BY <1>1, <1>2 DEF Quoted
<1>4. request' = [request EXCEPT ![r] = x] /\ ReadsOnly
  BY DEF DeleteDraft, Goes
<1> HIDE DEF x
<1> QED
  BY <1>2, <1>3, <1>4, ReadKeeps DEF Shapes

\* A control request goes on, and writes nothing.
LEMMA ControlReadKeeps ==
    ASSUME Inv, NEW r \in Requests, request[r] \in ControlRequest,
           NEW step \in {"read", "write", "clean"}, Goes(r, step), ReadsOnly
    PROVE  Inv'
<1> DEFINE x == [request[r] EXCEPT !.pc = step]
<1>1. x \in ControlRequest
  BY DEF ControlRequest
<1>2. Quoted(x)
  BY <1>1, KindsApart DEF Quoted
<1>3. request' = [request EXCEPT ![r] = x]
  BY DEF Goes
<1> HIDE DEF x
<1> QED
  BY <1>1, <1>2, <1>3, ReadKeeps DEF Shapes

LEMMA CommandKeeps ==
    ASSUME Inv, NEW r \in Requests, NEW action \in Actions, NEW version \in 1..(MaxVersion - 1),
           NEW key \in Keys, Command(r, action, version, key)
    PROVE  Inv'
<1> DEFINE x == [pc |-> "lookup", kind |-> action, expected |-> version, key |-> key]
<1>1. x \in ControlRequest
  BY Limits DEF ControlRequest
<1>2. Quoted(x)
  BY <1>1, KindsApart DEF Quoted
<1>3. request' = [request EXCEPT ![r] = x] /\ ReadsOnly
  BY DEF Command
<1> HIDE DEF x
<1> QED
  BY <1>1, <1>2, <1>3, ReadKeeps DEF Shapes

LEMMA LookupKeeps ==
    ASSUME Inv, NEW r \in Requests,
           Lookup(r) \/ FindsTaken(r) \/ \E expired \in BOOLEAN : ReadRun(r, expired)
    PROVE  Inv'
<1>1. request[r] \in ControlRequest
  BY IsControlRequest DEF Inv, Lookup, FindsTaken, ReadRun, Commanded
<1>2. PICK step \in {"read", "write", "clean"} : (Ends(r) \/ Goes(r, step)) /\ ReadsOnly
  BY DEF Lookup, FindsTaken, ReadRun
<1> QED
  BY <1>1, <1>2, ControlReadKeeps, IdleKeeps

-----------------------------------------------------------------------------
(***************************************************************************)
(* Steps that replace the draft, and those that remove it.                 *)
(***************************************************************************)

\* The draft goes back to no plan that it had before: what other requests have read of it
\* means what it did.
LEMMA QuotesStand ==
    ASSUME Inv, NEW r \in Requests, NEW x \in Shapes \ PlanRequest,
           request' = [request EXCEPT ![r] = x], plans \subseteq plans',
           draft # NoDraft /\ draft' # NoDraft => draft.plan.version <= draft'.plan.version,
           draft = NoDraft => draft' = NoDraft,
           draft' \in Draft \cup {NoDraft}
    PROVE  /\ request' \in [Requests -> Shapes]
           /\ \A u \in Requests : Quoted(request[u])'
<1>1. /\ request' \in [Requests -> Shapes]
      /\ request'[r] = x
      /\ \A u \in Requests : u # r => request'[u] = request[u]
  BY DEF Inv, TypeOK, Shapes
<1>2. ASSUME NEW u \in Requests, u # r, request[u] \in PlanRequest, Passed(request[u])
      PROVE  Passed(request[u])'
  <2>1. request'[u] = request[u] /\ request[u].asked.version \in Nat
    BY <1>1, <1>2 DEF PlanRequest, Plan
  <2>2. CASE draft' = NoDraft
    BY <2>2 DEF Passed
  <2>3. CASE draft' # NoDraft
    <3>1. draft.plan.version \in Nat /\ draft'.plan.version \in Nat
      BY <2>3, DraftFields, Limits DEF Inv, Draft, Plan
    <3> QED
      BY <1>2, <2>1, <2>3, <3>1 DEF Passed
  <2> QED
    BY <2>2, <2>3
<1>3. ASSUME NEW u \in Requests
      PROVE  Quoted(request[u])'
  <2>1. CASE u = r
    BY <1>1, <2>1 DEF Quoted
  <2>2. CASE u # r
    <3>1. request'[u] = request[u] /\ Quoted(request[u])
      BY <1>1, <2>2 DEF Inv
    <3> QED
      BY <1>2, <2>2, <3>1 DEF Quoted
  <2> QED
    BY <2>1, <2>2
<1> QED
  BY <1>1, <1>3

LEMMA Rests == Idle \in Shapes \ PlanRequest
BY KindsApart DEF Shapes

LEMMA ReplaceKeeps ==
    ASSUME Inv, NEW r \in Requests, Replace(r)
    PROVE  Inv'
<1> DEFINE q == request[r]
<1>0. /\ draft # NoDraft /\ draft.plan.version = q.asked.version
      /\ q.pc = "replace" /\ q.kind # "approve"
      /\ draft' = q.next /\ plans' = plans \cup {draft'.plan}
      /\ request' = [request EXCEPT ![r] = Idle]
      /\ UNCHANGED <<run, authority, event, commands, tombstone, dedupe>>
  BY DEF Replace, Replacing, Stored, SameVersion, Ends
<1>1. q \in PlanRequest /\ Quoted(q) /\ q.kind \in PlanRequests
  BY <1>0, IsPlanRequest DEF Inv, PlanRequest
<1>2. draft' \in Draft /\ draft' # NoDraft /\ q.asked \in plans
  BY <1>0, <1>1, DraftIsNot DEF Quoted
<1>3. draft'.plan \in Plan
  BY <1>2 DEF Draft
<1>4. \/ draft'.plan \in plans /\ draft'.plan.version = draft.plan.version
      \/ draft'.plan.version = draft.plan.version + 1
  BY <1>0, <1>1, <1>2 DEF Quoted, PlanRequests
<1>5. draft.plan.version \in Nat /\ draft'.plan.version \in Nat
      /\ \A p \in plans : p.version \in Nat /\ p.version <= draft.plan.version
  BY <1>0, <1>3, DraftFields, Limits DEF Inv, TypeOK, Newest, Plan
<1>6. Newest'
  BY <1>0, <1>4, <1>5 DEF Newest
<1>7. PlanVersionsUnique'
  <2>1. CASE draft'.plan \in plans
    BY <1>0, <2>1 DEF Inv, PlanVersionsUnique
  <2>2. CASE draft'.plan.version = draft.plan.version + 1
    <3>1. \A p \in plans : p.version # draft'.plan.version
      BY <1>5, <2>2
    <3> QED
      BY <1>0, <3>1 DEF Inv, PlanVersionsUnique
  <2> QED
    BY <1>4, <2>1, <2>2
<1>8. request' \in [Requests -> Shapes] /\ \A u \in Requests : Quoted(request[u])'
  <2>1. plans \subseteq plans' /\ draft.plan.version <= draft'.plan.version
    BY <1>0, <1>4, <1>5
  <2> QED
    BY <1>0, <1>2, <2>1, QuotesStand, Rests
<1>9. TypeOK'
  BY <1>0, <1>2, <1>3, <1>8 DEF Inv, TypeOK, Shapes
<1>10. DeletedStaysDeleted'
  BY <1>0 DEF Inv, DeletedStaysDeleted
<1> QED
  BY <1>0, <1>6, <1>7, <1>8, <1>9, <1>10 DEF Inv, RunHasEvent, EmailNeedsIdentity,
                                             KeysTakeEffectOnce

LEMMA ActivateKeeps ==
    ASSUME Inv, NEW r \in Requests, Activate(r)
    PROVE  Inv'
<1> DEFINE q == request[r]
<1>0. /\ draft # NoDraft /\ draft.plan.version = q.asked.version
      /\ q.pc = "replace" /\ q.kind = "approve" /\ ~event
      /\ draft' = q.next /\ run' = ActivatedRun
      /\ authority' = [plan |-> draft'.plan, identified |-> q.identified] /\ event' = TRUE
      /\ request' = [request EXCEPT ![r] = Idle]
      /\ UNCHANGED <<commands, tombstone, dedupe, plans>>
  BY DEF Activate, Replacing, Stored, SameVersion, Ends, Creates
<1>1. q \in PlanRequest /\ Quoted(q) /\ q.identified \in BOOLEAN
  BY <1>0, IsPlanRequest DEF Inv, PlanRequest
<1>2. draft' \in Draft /\ draft' # NoDraft /\ q.asked \in plans /\ draft'.plan = q.asked
  BY <1>0, <1>1, DraftIsNot DEF Quoted
<1>3. draft'.plan \in Plan /\ draft'.plan = draft.plan
  BY <1>0, <1>2 DEF Inv, TypeOK, Newest, PlanVersionsUnique
<1>4. draft.plan.version \in Nat
  BY <1>0, DraftFields, Limits DEF Inv
<1>5. request' \in [Requests -> Shapes] /\ \A u \in Requests : Quoted(request[u])'
  <2>1. plans \subseteq plans' /\ draft.plan.version <= draft'.plan.version
    BY <1>0, <1>3, <1>4
  <2> QED
    BY <1>0, <1>2, <2>1, QuotesStand, Rests
<1>6. TypeOK'
  BY <1>0, <1>1, <1>2, <1>3, <1>5, ActivatedRunType DEF Inv, TypeOK, Shapes
<1>7. Newest' /\ PlanVersionsUnique'
  BY <1>0, <1>2, <1>3 DEF Inv, Newest, PlanVersionsUnique
<1>8. EmailNeedsIdentity'
  <2>1. ASSUME q.asked.channel = "MANAGED_EMAIL", ~q.identified PROVE FALSE
    BY <1>0, <1>1, <1>4, <2>1 DEF Quoted, Passed
  <2> QED
    BY <1>0, <1>2, <2>1 DEF EmailNeedsIdentity
<1>9. DeletedStaysDeleted'
  BY <1>0 DEF Inv, DeletedStaysDeleted
<1> QED
  BY <1>0, <1>5, <1>6, <1>7, <1>8, <1>9 DEF Inv, RunHasEvent, KeysTakeEffectOnce

LEMMA RemoveDraftKeeps ==
    ASSUME Inv, NEW r \in Requests, RemoveDraft(r)
    PROVE  Inv'
<1>0. /\ draft' = NoDraft /\ dedupe' = FALSE /\ request' = [request EXCEPT ![r] = Idle]
      /\ UNCHANGED <<run, authority, event, commands, tombstone, plans>>
  BY DEF RemoveDraft, Ends
<1>1. request' \in [Requests -> Shapes] /\ \A u \in Requests : Quoted(request[u])'
  BY <1>0, QuotesStand, KindsApart DEF Shapes
<1>2. TypeOK'
  BY <1>0, <1>1 DEF Inv, TypeOK, Shapes
<1> QED
  BY <1>0, <1>1, <1>2 DEF Inv, Newest, PlanVersionsUnique, RunHasEvent, EmailNeedsIdentity,
                          DeletedStaysDeleted, KeysTakeEffectOnce

-----------------------------------------------------------------------------
(***************************************************************************)
(* What control requests write.                                            *)
(***************************************************************************)

\* A command is stored under a key that has none.
LEMMA WritesOne ==
    ASSUME Inv, NEW r \in Requests, Writes(r)
    PROVE  /\ request[r] \in ControlRequest /\ request[r].kind \in Actions
           /\ run \in Run /\ run # NoRun /\ ~tombstone
           /\ commands' \subseteq [key : Keys, action : Actions, version : Nat]
           /\ KeysTakeEffectOnce'
<1> DEFINE q == request[r]
           new == [key |-> q.key, action |-> q.kind, version |-> run.version + 1]
<1>1. /\ q \in ControlRequest /\ ~AlreadyTaken(r) /\ run.version = q.expected
      /\ commands' = commands \cup {new}
  BY IsControlRequest DEF Inv, Writes, AtVersion
<1>2. q.key \in Keys /\ q.kind \in Actions /\ q.expected \in 1..MaxVersion
  BY <1>1 DEF ControlRequest
<1>3. run \in Run /\ run # NoRun
  BY <1>1, <1>2, NoRunIsRun, Limits DEF Inv, TypeOK
<1>4. new \in [key : Keys, action : Actions, version : Nat]
  BY <1>2, <1>3, RunFields
<1>5. commands' \subseteq [key : Keys, action : Actions, version : Nat]
  BY <1>1, <1>4 DEF Inv, TypeOK
<1>6. KeysTakeEffectOnce'
  BY <1>1 DEF Inv, KeysTakeEffectOnce, AlreadyTaken, Known
<1> QED
  BY <1>1, <1>2, <1>3, <1>5, <1>6 DEF Inv, DeletedStaysDeleted

LEMMA TransitionKeeps ==
    ASSUME Inv, NEW r \in Requests, Transition(r)
    PROVE  Inv' /\ run'.version = run.version + 1
<1>1. /\ Writes(r) /\ request[r].kind \notin {"REVISE", "DELETE"}
      /\ run' = Controlled(run, request[r].kind)
      /\ request' = [request EXCEPT ![r] = Idle]
      /\ UNCHANGED <<draft, authority, event, tombstone, dedupe, plans>>
  BY DEF Transition, Ends
<1>2. /\ run # NoRun /\ run \in Run /\ ~tombstone
      /\ commands' \subseteq [key : Keys, action : Actions, version : Nat]
      /\ KeysTakeEffectOnce'
  BY <1>1, WritesOne
<1>3. run' \in Run /\ run'.version = run.version + 1
  <2>1. request[r].kind \in Commands
    BY <1>1, WritesOne, ActivationAssumption
  <2> QED
    BY <1>1, <1>2, <2>1, ControlRewrites
<1>4. request' \in [Requests -> Shapes] /\ \A u \in Requests : Quoted(request[u])'
  <2>1. draft # NoDraft => draft.plan.version \in Nat
    BY DraftFields, Limits DEF Inv
  <2>2. draft \in Draft \cup {NoDraft} /\ (draft # NoDraft => draft.plan.version <= draft.plan.version)
    BY <2>1 DEF Inv, TypeOK
  <2> QED
    BY <1>1, <2>1, <2>2, QuotesStand, Rests
<1>5. TypeOK'
  BY <1>1, <1>2, <1>3, <1>4 DEF Inv, TypeOK, Shapes
<1> QED
  BY <1>1, <1>2, <1>3, <1>4, <1>5 DEF Inv, Newest, PlanVersionsUnique, RunHasEvent,
                                      EmailNeedsIdentity, DeletedStaysDeleted

LEMMA BeginReapprovalKeeps ==
    ASSUME Inv, NEW r \in Requests, BeginReapproval(r)
    PROVE  Inv' /\ run'.version = run.version + 1
<1>1. /\ Writes(r) /\ draft # NoDraft
      /\ run' = Controlled(run, "REVISE")
      /\ draft' = Reopened(draft)
      /\ request' = [request EXCEPT ![r] = Idle]
      /\ UNCHANGED <<authority, event, tombstone, dedupe, plans>>
  BY DEF BeginReapproval, Ends
<1>2. /\ run # NoRun /\ run \in Run /\ ~tombstone
      /\ commands' \subseteq [key : Keys, action : Actions, version : Nat]
      /\ KeysTakeEffectOnce'
  BY <1>1, WritesOne
<1>3. run' \in Run /\ run'.version = run.version + 1
  <2>1. "REVISE" \in Commands
    BY DEF Commands
  <2> QED
    BY <1>1, <1>2, <2>1, ControlRewrites
<1>4. draft' \in Draft /\ draft'.plan = draft.plan /\ draft' # NoDraft
  <2>1. draft \in Draft /\ 0 \in 0..MaxPlan
    BY <1>1, DraftFields, Limits DEF Inv
  <2>2. draft' \in Draft /\ draft'.plan = draft.plan
    BY <1>1, <2>1 DEF Reopened, Draft, DraftStates
  <2> QED
    BY <2>2, DraftIsNot
<1>5. request' \in [Requests -> Shapes] /\ \A u \in Requests : Quoted(request[u])'
  <2>1. draft.plan.version <= draft'.plan.version
    BY <1>1, <1>4, DraftFields, Limits DEF Inv
  <2> QED
    BY <1>1, <1>4, <2>1, QuotesStand, Rests
<1>6. TypeOK'
  BY <1>1, <1>2, <1>3, <1>4, <1>5 DEF Inv, TypeOK, Shapes
<1>7. Newest'
  BY <1>1, <1>4 DEF Inv, Newest
<1> QED
  BY <1>1, <1>2, <1>3, <1>5, <1>6, <1>7 DEF Inv, PlanVersionsUnique, RunHasEvent,
                                            EmailNeedsIdentity, DeletedStaysDeleted

\* The steps of a deletion; after the first, the draft and the run are gone.
LEMMA DeletionKeeps ==
    ASSUME Inv, NEW r \in Requests, Delete(r) \/ Clean(r) \/ Purge(r)
    PROVE  Inv' /\ (run' # NoRun => run' = run)
<1>1. request[r] \in ControlRequest
  BY IsControlRequest DEF Inv, Delete, Writes, Clean, Purge
<1>2. \A step \in {"clean", "purge"} : [request[r] EXCEPT !.pc = step] \in Shapes \ PlanRequest
  <2> SUFFICES ASSUME NEW step \in {"clean", "purge"}
               PROVE  [request[r] EXCEPT !.pc = step] \in ControlRequest
    BY KindsApart DEF Shapes
  <2> QED
    BY <1>1 DEF ControlRequest
<1>3. PICK x \in Shapes \ PlanRequest : request' = [request EXCEPT ![r] = x]
  <2>1. CASE Delete(r) \/ Clean(r)
    BY <1>2, <2>1 DEF Delete, Clean, Goes
  <2>2. CASE Purge(r)
    BY <2>2, Rests DEF Purge, Ends
  <2> QED
    BY <2>1, <2>2
<1>4. /\ draft' \in {draft, NoDraft} /\ run' \in {run, NoRun}
      /\ run' # NoRun => event' = event
      /\ UNCHANGED <<authority, plans>>
      /\ event' \in BOOLEAN /\ tombstone' \in BOOLEAN /\ dedupe' \in BOOLEAN
  BY DEF Delete, Clean, Purge, Inv, TypeOK
<1>5. /\ commands' \subseteq [key : Keys, action : Actions, version : Nat]
      /\ KeysTakeEffectOnce'
  <2>1. CASE Delete(r)
    BY <2>1, WritesOne DEF Delete
  <2>2. CASE Clean(r) \/ Purge(r)
    BY <2>2 DEF Clean, Purge, Inv, TypeOK, KeysTakeEffectOnce
  <2> QED
    BY <2>1, <2>2
<1>6. DeletedStaysDeleted'
  BY DEF Delete, Clean, Purge, Inv, DeletedStaysDeleted
<1>7. request' \in [Requests -> Shapes] /\ \A u \in Requests : Quoted(request[u])'
  <2>1. draft # NoDraft /\ draft' # NoDraft => draft.plan.version <= draft'.plan.version
    BY <1>4, DraftFields, Limits DEF Inv
  <2>2. plans \subseteq plans' /\ draft' \in Draft \cup {NoDraft}
        /\ (draft = NoDraft => draft' = NoDraft)
    BY <1>4 DEF Inv, TypeOK
  <2> QED
    BY <1>3, <2>1, <2>2, QuotesStand
<1>8. TypeOK'
  BY <1>4, <1>5, <1>7, NoRunIsRun DEF Inv, TypeOK, Shapes
<1>9. Newest' /\ PlanVersionsUnique' /\ RunHasEvent' /\ EmailNeedsIdentity'
  BY <1>4 DEF Inv, Newest, PlanVersionsUnique, RunHasEvent, EmailNeedsIdentity
<1> QED
  BY <1>4, <1>5, <1>6, <1>7, <1>8, <1>9 DEF Inv

-----------------------------------------------------------------------------
(***************************************************************************)
(* The rest of the system, and no step.                                    *)
(***************************************************************************)

LEMMA RunMovesKeeps ==
    ASSUME Inv, RunMoves
    PROVE  Inv' /\ run'.version = run.version + 1
<1>1. run # NoRun /\ run \in Run
      /\ UNCHANGED <<draft, authority, event, commands, tombstone, dedupe, request, plans>>
  BY DEF RunMoves, Inv, TypeOK
<1>2. run' \in {BudgetExhausted(run), Evidenced(run, "ACCEPTED"), Bounced(run)}
  BY DEF RunMoves
<1>3. run' \in Run /\ run'.version = run.version + 1
  BY <1>1, <1>2, RunnerRewrites, EventRewrites DEF Verdicts
<1>4. TypeOK'
  BY <1>1, <1>3 DEF Inv, TypeOK
<1>5. \A u \in Requests : Quoted(request[u])'
  BY <1>1 DEF Inv, Quoted, Passed
<1> QED
  BY <1>1, <1>3, <1>4, <1>5 DEF Inv, Newest, PlanVersionsUnique, RunHasEvent, EmailNeedsIdentity,
                                DeletedStaysDeleted, KeysTakeEffectOnce

LEMMA StutterKeeps ==
    ASSUME Inv, UNCHANGED vars
    PROVE  Inv'
<1>1. UNCHANGED <<draft, run, authority, event, commands, tombstone, dedupe, request, plans>>
  BY DEF vars, documents
<1>2. TypeOK'
  BY <1>1 DEF Inv, TypeOK
<1>3. \A u \in Requests : Quoted(request[u])'
  BY <1>1 DEF Inv, Quoted, Passed
<1> QED
  BY <1>1, <1>2, <1>3 DEF Inv, Newest, PlanVersionsUnique, RunHasEvent, EmailNeedsIdentity,
                          DeletedStaysDeleted, KeysTakeEffectOnce

\* A run that stands, stands at a version that is no smaller.
NoSmaller == run # NoRun /\ run' # NoRun => run'.version >= run.version

LEMMA RunVersionsGrow ==
    ASSUME Inv, run' = run \/ run' = NoRun \/ run'.version = run.version + 1
    PROVE  NoSmaller
<1>1. run.version \in Nat
  BY RunFields DEF Inv, TypeOK
<1> QED
  BY <1>1 DEF NoSmaller

LEMMA PlanStepKeeps ==
    ASSUME Inv, NEW r \in Requests, PlanStep(r)
    PROVE  Inv' /\ NoSmaller
<1>1. ASSUME NEW kind \in PlanRequests, NEW plan \in plans, Ask(r, kind, plan)
      PROVE  Inv' /\ run' = run
  BY <1>1, AskKeeps DEF Ask, ReadsOnly, documents
<1>2. ASSUME Check(r) \/ Approve(r) \/ Reject(r) \/ DeleteDraft(r) \/ GiveUp(r)
      PROVE  Inv' /\ run' = run
  <2>1. ReadsOnly
    BY <1>2 DEF Check, Approve, Reject, DeleteDraft, GiveUp
  <2>2. GiveUp(r) => Ends(r)
    BY DEF GiveUp
  <2> QED
    BY <1>2, <2>1, <2>2, CheckKeeps, ApproveKeeps, RejectKeeps, DeleteDraftKeeps, IdleKeeps
       DEF ReadsOnly, documents
<1>3. ASSUME NEW blocked \in BOOLEAN, NEW channel \in Channels,
             Revise(r, blocked) \/ SelectChannel(r, channel, blocked)
      PROVE  Inv' /\ run' = run
  BY <1>3, ReviseKeeps, SelectChannelKeeps DEF Revise, SelectChannel, ReadsOnly, documents
<1>4. ASSUME Replace(r) \/ RemoveDraft(r)
      PROVE  Inv' /\ run' = run
  BY <1>4, ReplaceKeeps, RemoveDraftKeeps DEF Replace, RemoveDraft
<1>5. CASE Activate(r)
  <2>1. run = NoRun
    BY <1>5 DEF Activate, Creates, Inv, RunHasEvent
  <2> QED
    BY <1>5, <2>1, ActivateKeeps DEF NoSmaller
<1>6. Channels # {}
  BY DEF Channels
<1> QED
  BY <1>1, <1>2, <1>3, <1>4, <1>5, <1>6, RunVersionsGrow DEF PlanStep

LEMMA ControlStepKeeps ==
    ASSUME Inv, NEW r \in Requests, ControlStep(r)
    PROVE  Inv' /\ NoSmaller
<1>1. ASSUME NEW action \in Actions, NEW version \in 1..(MaxVersion - 1), NEW key \in Keys,
             Command(r, action, version, key)
      PROVE  Inv' /\ run' = run
  BY <1>1, CommandKeeps DEF Command, ReadsOnly, documents
<1>2. ASSUME Lookup(r) \/ FindsTaken(r) \/ \E expired \in BOOLEAN : ReadRun(r, expired)
      PROVE  Inv' /\ run' = run
  <2>1. ReadsOnly
    BY <1>2 DEF Lookup, FindsTaken, ReadRun
  <2> QED
    BY <1>2, <2>1, LookupKeeps DEF ReadsOnly, documents
<1> QED
  BY <1>1, <1>2, TransitionKeeps, BeginReapprovalKeeps, DeletionKeeps, RunVersionsGrow
     DEF ControlStep

LEMMA NextKeeps ==
    ASSUME Inv, [Next]_vars
    PROVE  Inv' /\ NoSmaller
<1>1. CASE UNCHANGED vars
  <2>1. run' = run
    BY <1>1 DEF vars, documents
  <2> QED
    BY <1>1, <2>1, StutterKeeps, RunVersionsGrow
<1>2. CASE RunMoves
  BY <1>2, RunMovesKeeps, RunVersionsGrow
<1>3. ASSUME NEW r \in Requests, PlanStep(r) \/ ControlStep(r)
      PROVE  Inv' /\ NoSmaller
  BY <1>3, PlanStepKeeps, ControlStepKeeps
<1> QED
  BY <1>1, <1>2, <1>3 DEF Next

\* In every reachable state the draft's plan is the newest of its versions, requests under
\* way quote plans that were the draft's, and a run stands under its activation's event.
THEOREM Invariance == Spec => []Inv
<1>1. Inv /\ [Next]_vars => Inv'
  BY NextKeeps
<1> QED
  BY <1>1, InitInv, PTL DEF Spec

\* The documents of the review, of the run and of the requests keep their shapes.
THEOREM TypeCorrect == Spec => []TypeOK
<1>1. Inv => TypeOK
  BY DEF Inv
<1> QED
  BY <1>1, Invariance, PTL

\* FirestoreIntakeStore.replace gives a version to one plan: of two edits that race one is
\* refused, for any number of requests.
THEOREM VersionsNamePlans == Spec => []PlanVersionsUnique
<1>1. Inv => PlanVersionsUnique
  BY DEF Inv
<1> QED
  BY <1>1, Invariance, PTL

\* A case runs over managed email for an identified owner only, although the controller
\* and PlanService.approve read the draft one after the other.
THEOREM OwnersAreIdentified == Spec => []EmailNeedsIdentity
<1>1. Inv => EmailNeedsIdentity
  BY DEF Inv
<1> QED
  BY <1>1, Invariance, PTL

\* After requestDeletion has recorded the deletion nothing brings the case back.
THEOREM DeletionIsFinal == Spec => []DeletedStaysDeleted
<1>1. Inv => DeletedStaysDeleted
  BY DEF Inv
<1> QED
  BY <1>1, Invariance, PTL

\* An idempotency key has one effect, for any number of repetitions.
THEOREM KeysActOnce == Spec => []KeysTakeEffectOnce
<1>1. Inv => KeysTakeEffectOnce
  BY DEF Inv
<1> QED
  BY <1>1, Invariance, PTL

\* No approval, command, event or evidence takes a run back to an earlier version.
THEOREM RunsGoForward == Spec => RunNeverStartsOver
<1>1. Inv /\ [Next]_vars => [run # NoRun /\ run' # NoRun => run'.version >= run.version]_vars
  BY NextKeeps DEF NoSmaller
<1> QED
  BY <1>1, Invariance, PTL DEF Spec, RunNeverStartsOver
=============================================================================
