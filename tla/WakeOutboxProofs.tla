--------------------------- MODULE WakeOutboxProofs ---------------------------
(***************************************************************************)
(* Proofs about WakeOutbox for every number of invocations, versions,      *)
(* tries and faults.                                                       *)
(*                                                                         *)
(* OutboxInv is inductive.  What a step does to the case, to the queue and *)
(* to the invocation that takes it is stated once as CaseMoves, TaskMoves  *)
(* and InvocationMoves; StepKeeps shows that a step of this kind preserves *)
(* OutboxInv, and each action is shown to be one.                          *)
(***************************************************************************)
EXTENDS WakeOutbox, TLAPS

USE DEF caseVars, queueVars, localVars

-----------------------------------------------------------------------------
\* What a step may do.

CaseType ==
    /\ version \in Versions
    /\ state \in States
    /\ since \in Versions
    /\ record \in Invocations \cup RecordStates
    /\ intent \in [Versions -> {"ABSENT", "PENDING", "DISPATCHED"}]
    /\ resumed \subseteq Versions
    /\ faults \in 0..MaxFaults

QueueType ==
    /\ task \in [Tasks -> TaskStates]
    /\ tries \in [Tasks -> 0..MaxTries]

LocalType ==
    /\ pc \in [Invocations -> Steps]
    /\ from \in [Invocations -> Tasks \cup {Request, Sweep}]
    /\ read \in [Invocations -> Versions]
    /\ wake \in [Invocations -> Tasks]
    /\ todo \in [Invocations -> SUBSET Versions]

\* The case keeps its version, and intents that exist change between the two statuses.
IntentMoves ==
    /\ UNCHANGED <<version, state, resumed>>
    /\ \A v \in Versions :
            \/ intent'[v] = intent[v]
            \/ /\ intent[v] # "ABSENT" /\ intent'[v] # "ABSENT"
               /\ intent'[v] = "DISPATCHED" => HasTask(v)

\* The case gets its next version, with an intent exactly if that wants a wake.
CaseMoves ==
    /\ version' = version + 1
    /\ version' \in Versions
    /\ \A v \in Versions :
            intent'[v] = IF v = version' /\ wants' THEN "PENDING" ELSE intent[v]
    /\ \A v \in resumed' : v \in resumed \/ (v = version' /\ wants')

\* Tasks are created for stored wakes, and a running one is answered by its delivery i.
TaskMoves(i) ==
    \A t \in Tasks :
        \/ task'[t] = task[t] /\ tries'[t] = tries[t]
        \/ /\ task'[t] # "NONE"
           /\ task[t] # "NONE" \/ intent[t[1]] # "ABSENT"
           /\ task[t] = "RUNNING" => i \in Invocations /\ t = from[i]
           /\ task'[t] = "DONE" => t[1] < version'
           /\ task'[t] \in {"QUEUED", "RUNNING"} => tries'[t] < MaxTries

Stays(j) ==
    /\ pc'[j] = pc[j]
    /\ from'[j] = from[j]
    /\ read'[j] = read[j]
    /\ wake'[j] = wake[j]
    /\ todo'[j] = todo[j]

\* Only i moves, and it takes no task that another one delivers.
InvocationMoves(i) ==
    /\ \A j \in Invocations : j # i => Stays(j)
    /\ i \in Invocations =>
            /\ from'[i] = from[i] \/ from'[i] \notin Tasks \/ task[from'[i]] = "QUEUED"
            /\ InvocationInv(i)'

LEMMA StepKeeps ==
    ASSUME OutboxInv, TypeOK', CaseMoves \/ IntentMoves,
           NEW i, TaskMoves(i), InvocationMoves(i)
    PROVE  OutboxInv'
<1>0. CaseType /\ QueueType /\ LocalType /\ CaseType' /\ QueueType' /\ LocalType'
  BY DEF OutboxInv, TypeOK, CaseType, QueueType, LocalType
<1>1. /\ version \in Nat /\ version' \in Nat /\ version <= version'
      /\ \A v \in Versions : intent[v] # "ABSENT" => intent'[v] # "ABSENT"
  BY <1>0, WakeAssumption DEF CaseType, Versions, CaseMoves, IntentMoves
<1>2. \A t \in Tasks : task[t] # "NONE" => task'[t] # "NONE"
  BY DEF TaskMoves
<1>t. \A t \in Tasks : t[1] \in Versions /\ t[2] \in Names /\ t = <<t[1], t[2]>>
  BY DEF Tasks
<1>3. IntentsOfVersions'
  <2>1. CASE CaseMoves
    <3>1. \A v \in Versions : intent'[v] # "ABSENT" => v <= version'
      BY <2>1, <1>0, <1>1 DEF CaseMoves, OutboxInv, IntentsOfVersions, CaseType, Versions
    <3>2. wants' <=> intent'[version'] # "ABSENT"
      BY <2>1, <1>0, <1>1 DEF CaseMoves, OutboxInv, IntentsOfVersions, CaseType, Versions
    <3>3. resumed' \subseteq {v \in Versions : intent'[v] # "ABSENT"}
      BY <2>1, <1>0, <1>1 DEF CaseMoves, OutboxInv, IntentsOfVersions, CaseType
    <3> QED
      BY <3>1, <3>2, <3>3 DEF IntentsOfVersions
  <2>2. CASE IntentMoves
    BY <2>2, <1>0, <1>1 DEF IntentMoves, OutboxInv, IntentsOfVersions, CaseType, Versions, wants
  <2> QED
    BY <2>1, <2>2
<1>4. TasksFollowIntents'
  <2> SUFFICES ASSUME NEW v \in Versions, NEW n \in Names, task'[<<v, n>>] # "NONE"
               PROVE  v <= version' /\ intent'[v] # "ABSENT"
    BY DEF TasksFollowIntents, HasTask
  <2>1. <<v, n>> \in Tasks
    BY DEF Tasks
  <2>2. task[<<v, n>>] # "NONE" \/ intent[v] # "ABSENT"
    BY <2>1 DEF TaskMoves
  <2>3. intent[v] # "ABSENT"
    BY <2>2 DEF OutboxInv, TasksFollowIntents, HasTask
  <2> QED
    BY <2>3, <1>1, <1>3 DEF IntentsOfVersions
<1>5. DispatchedHasTask'
  <2> SUFFICES ASSUME NEW v \in Versions, intent'[v] = "DISPATCHED"
               PROVE  HasTask(v)'
    BY DEF DispatchedHasTask
  <2>1. HasTask(v)
    BY DEF CaseMoves, IntentMoves, OutboxInv, DispatchedHasTask
  <2>2. PICK n \in Names : task[<<v, n>>] # "NONE"
    BY <2>1 DEF HasTask
  <2> QED
    BY <2>2, <1>2 DEF HasTask, Tasks
<1>6. TasksOfQueue'
  <2> SUFFICES ASSUME NEW t \in Tasks
               PROVE  /\ task'[t] \in {"NONE", "QUEUED", "RUNNING"} => tries'[t] < MaxTries
                      /\ task'[t] = "DONE" => t[1] < version'
    BY DEF TasksOfQueue
  <2> QED
    BY <1>0, <1>1, <1>t DEF TaskMoves, OutboxInv, TasksOfQueue, Versions
<1>7. ASSUME NEW j \in Invocations
      PROVE  InvocationInv(j)'
  <2>1. CASE j = i
    BY <2>1 DEF InvocationMoves
  <2>2. CASE j # i
    <3>1. Stays(j) /\ InvocationInv(j)
      BY <2>2 DEF InvocationMoves, OutboxInv
    <3>2. /\ from[j] \in Tasks \cup {Request, Sweep}
          /\ wake[j] \in Tasks
          /\ read[j] \in Versions
          /\ todo[j] \subseteq Versions
      BY <1>0 DEF LocalType
    <3>3. from'[j] \in Tasks => task'[from'[j]] = "RUNNING"
      BY <3>1, <2>2 DEF Stays, InvocationInv, TaskMoves, OutboxInv, OneDelivery
    <3>4. pc'[j] \in {"work", "act", "sent", "failed"} =>
            from'[j] \in Tasks /\ from'[j][1] = read'[j] /\ read'[j] <= version'
      BY <3>1, <3>2, <1>1 DEF Stays, InvocationInv, Versions
    <3>5. pc'[j] \in {"create", "mark", "fail"} =>
            /\ intent'[wake'[j][1]] # "ABSENT"
            /\ from'[j] \in Tasks => from'[j][1] < version'
      BY <3>1, <3>2, <1>1, <1>t DEF Stays, InvocationInv, Versions
    <3>6. pc'[j] = "mark" => task'[wake'[j]] # "NONE"
      BY <3>1, <3>2, <1>2 DEF Stays, InvocationInv
    <3>7. /\ pc'[j] = "list" => from'[j] = Sweep
          /\ \A v \in todo'[j] : intent'[v] # "ABSENT"
      BY <3>1, <3>2, <1>1 DEF Stays, InvocationInv
    <3> QED
      BY <3>3, <3>4, <3>5, <3>6, <3>7 DEF InvocationInv
  <2> QED
    BY <2>1, <2>2
<1>8. OneDelivery'
  <2> SUFFICES ASSUME NEW j \in Invocations, NEW k \in Invocations, j # k, from'[j] \in Tasks
               PROVE  from'[j] # from'[k]
    BY DEF OneDelivery
  <2>1. \A l \in Invocations : from[l] \in Tasks => task[from[l]] = "RUNNING"
    BY DEF OutboxInv, InvocationInv
  <2>2. CASE j = i
    BY <2>1, <2>2 DEF InvocationMoves, Stays, OutboxInv, OneDelivery
  <2>3. CASE k = i
    BY <2>1, <2>3 DEF InvocationMoves, Stays, OutboxInv, OneDelivery
  <2>4. CASE j # i /\ k # i
    BY <2>4 DEF InvocationMoves, Stays, OutboxInv, OneDelivery
  <2> QED
    BY <2>2, <2>3, <2>4
<1> QED
  BY <1>3, <1>4, <1>5, <1>6, <1>7, <1>8 DEF OutboxInv

-----------------------------------------------------------------------------
\* What the parts of a step do.

LEMMA TasksAre ==
    /\ Request \notin Tasks /\ Sweep \notin Tasks
    /\ FirstWake \in Tasks /\ 1 \in Versions
    /\ \A t \in Tasks : t[1] \in Versions
    /\ \A v \in Versions, n \in Names : <<v, n>> \in Tasks /\ <<v, n>>[1] = v
BY WakeAssumption DEF Request, Sweep, FirstWake, Tasks, Versions, Names

LEMMA TypesOf ==
    ASSUME OutboxInv
    PROVE  CaseType /\ QueueType /\ LocalType
BY DEF OutboxInv, TypeOK, CaseType, QueueType, LocalType

\* The summary every action is brought to.
LEMMA StepKept ==
    ASSUME OutboxInv, CaseType', QueueType', LocalType', CaseMoves \/ IntentMoves,
           NEW i, TaskMoves(i), InvocationMoves(i)
    PROVE  OutboxInv'
<1>1. TypeOK'
  BY DEF TypeOK, CaseType, QueueType, LocalType
<1> QED
  BY <1>1, StepKeeps

LEMMA QueueStays ==
    ASSUME OutboxInv, UNCHANGED queueVars, NEW i
    PROVE  QueueType' /\ TaskMoves(i)
BY TypesOf DEF QueueType, TaskMoves

LEMMA CaseStays ==
    ASSUME OutboxInv, UNCHANGED <<version, state, since, intent, resumed>>,
           record' \in Invocations \cup RecordStates, faults' \in 0..MaxFaults
    PROVE  CaseType' /\ IntentMoves
BY TypesOf DEF CaseType, IntentMoves

LEMMA FaultCounts ==
    ASSUME OutboxInv, NEW kind, Fault(kind) \/ UNCHANGED faults
    PROVE  faults' \in 0..MaxFaults
BY TypesOf, WakeAssumption DEF CaseType, Fault

LEMMA MoveEffect ==
    ASSUME OutboxInv, NEW next \in States, MayMove(next), Move(next),
           since' = since \/ since' = version',
           record' \in Invocations \cup RecordStates,
           resumed' = resumed \/ (next \in Dispatchable /\ resumed' = resumed \cup {version'}),
           faults' \in 0..MaxFaults
    PROVE  /\ CaseType' /\ CaseMoves
           /\ version' = version + 1 /\ version < version' /\ version \in Nat
           /\ next \in Dispatchable => intent'[version'] # "ABSENT"
<1>1. CaseType
  BY TypesOf
<1>2. /\ version' = version + 1 /\ version' \in Versions /\ version < version'
      /\ version \in Nat
  BY <1>1, WakeAssumption DEF Move, MayMove, CaseType, Versions
<1>3. state' = next /\ (wants' <=> next \in Dispatchable)
  BY DEF Move, wants
<1>4. /\ intent' \in [Versions -> {"ABSENT", "PENDING", "DISPATCHED"}]
      /\ \A v \in Versions :
            intent'[v] = IF v = version' /\ next \in Dispatchable THEN "PENDING" ELSE intent[v]
  <2>1. CASE next \in Dispatchable
    <3>1. intent' = [intent EXCEPT ![version'] = "PENDING"]
      BY <2>1, <1>2 DEF Move
    <3> QED
      BY <3>1, <2>1, <1>1, <1>2 DEF CaseType
  <2>2. CASE next \notin Dispatchable
    BY <2>2, <1>1 DEF Move, CaseType
  <2> QED
    BY <2>1, <2>2
<1>5. CaseType'
  BY <1>1, <1>2, <1>3, <1>4 DEF CaseType
<1>6. CaseMoves
  BY <1>2, <1>3, <1>4 DEF CaseMoves
<1> QED
  BY <1>2, <1>4, <1>5, <1>6

LEMMA EndsEffect ==
    ASSUME OutboxInv, NEW i \in Invocations, Ends(i)
    PROVE  LocalType' /\ InvocationMoves(i)
<1>1. LocalType'
  BY TypesOf, TasksAre DEF LocalType, Ends, Steps
<1>2. /\ pc'[i] = "idle" /\ from'[i] = Request /\ todo'[i] = {}
      /\ \A j \in Invocations : j # i => Stays(j)
  BY TypesOf DEF LocalType, Ends, Stays
<1> QED
  BY <1>1, <1>2, TasksAre DEF InvocationMoves, InvocationInv

LEMMA SucceedEffect ==
    ASSUME OutboxInv, NEW i \in Invocations, NEW outcome \in {"DONE", "SWALLOWED"},
           Succeed(i, outcome),
           from[i] \in Tasks /\ outcome = "DONE" => from[i][1] < version'
    PROVE  QueueType' /\ LocalType' /\ TaskMoves(i) /\ InvocationMoves(i)
<1>1. LocalType' /\ InvocationMoves(i)
  BY EndsEffect DEF Succeed
<1>2. CASE from[i] \in Tasks
  <2>1. task' = [task EXCEPT ![from[i]] = outcome] /\ tries' = [tries EXCEPT ![from[i]] = 0]
    BY <1>2 DEF Succeed, Answered
  <2>2. task[from[i]] = "RUNNING"
    BY <1>2 DEF OutboxInv, InvocationInv
  <2>a. outcome \in TaskStates /\ 0 \in 0..MaxTries
    BY WakeAssumption DEF TaskStates
  <2>3. QueueType'
    BY <2>1, <2>a, <1>2, TypesOf DEF QueueType
  <2>4. TaskMoves(i)
    BY <2>1, <2>2, <1>2, WakeAssumption, TypesOf DEF TaskMoves, QueueType
  <2> QED
    BY <1>1, <2>3, <2>4
<1>3. CASE from[i] \notin Tasks
  BY <1>1, <1>3, QueueStays DEF Succeed
<1> QED
  BY <1>2, <1>3

LEMMA FailedDeliveryEffect ==
    ASSUME OutboxInv, NEW i, NEW t \in Tasks, FailedDelivery(t),
           task[t] = "QUEUED" \/ (task[t] = "RUNNING" /\ i \in Invocations /\ t = from[i])
    PROVE  QueueType' /\ TaskMoves(i)
<1>1. tries[t] < MaxTries /\ tries[t] \in Nat
  BY TypesOf DEF OutboxInv, TasksOfQueue, QueueType
<1>2. /\ tries' = [tries EXCEPT ![t] = tries[t] + 1]
      /\ \/ tries[t] + 1 < MaxTries /\ task' = [task EXCEPT ![t] = "QUEUED"]
         \/ task' = [task EXCEPT ![t] = "DROPPED"]
  BY DEF FailedDelivery
<1>3. QueueType'
  BY <1>1, <1>2, TypesOf, WakeAssumption DEF QueueType, TaskStates
<1>4. TaskMoves(i)
  BY <1>1, <1>2, TypesOf DEF TaskMoves, QueueType
<1> QED
  BY <1>3, <1>4

LEMMA FailEffect ==
    ASSUME OutboxInv, NEW i \in Invocations, Fail(i)
    PROVE  QueueType' /\ LocalType' /\ TaskMoves(i) /\ InvocationMoves(i)
<1>1. LocalType' /\ InvocationMoves(i)
  BY EndsEffect DEF Fail
<1>2. CASE from[i] \in Tasks
  <2>1. task[from[i]] = "RUNNING"
    BY <1>2 DEF OutboxInv, InvocationInv
  <2> QED
    BY <1>1, <1>2, <2>1, FailedDeliveryEffect DEF Fail
<1>3. CASE from[i] \notin Tasks
  BY <1>1, <1>3, QueueStays DEF Fail
<1> QED
  BY <1>2, <1>3

\* An invocation that goes on, with its origin kept or none, to dispatch a stored wake.
LEMMA DispatchEffect ==
    ASSUME OutboxInv, NEW i \in Invocations, NEW t \in Tasks, Dispatch(i, t),
           UNCHANGED <<read, queueVars>>,
           todo' = todo \/ \E v : todo' = [todo EXCEPT ![i] = @ \ {v}],
           from' = from \/ from' = [from EXCEPT ![i] = Request],
           version <= version', version \in Nat, version' \in Nat,
           \A v \in Versions : intent[v] # "ABSENT" => intent'[v] # "ABSENT",
           intent'[t[1]] # "ABSENT",
           from'[i] \in Tasks => from'[i][1] < version'
    PROVE  QueueType' /\ LocalType' /\ TaskMoves(i) /\ InvocationMoves(i)
<1>1. LocalType
  BY TypesOf
<1>2. LocalType'
  BY <1>1, TasksAre DEF LocalType, Dispatch, Steps
<1>3. /\ pc'[i] = "create" /\ wake'[i] = t /\ from'[i] \in {from[i], Request}
      /\ todo'[i] \subseteq todo[i] /\ todo[i] \subseteq Versions
      /\ \A j \in Invocations : j # i => Stays(j)
  BY <1>1 DEF LocalType, Dispatch, Stays
<1>4. InvocationInv(i)'
  BY <1>3, TasksAre DEF OutboxInv, InvocationInv
<1>5. InvocationMoves(i)
  BY <1>3, <1>4, TasksAre DEF InvocationMoves
<1> QED
  BY <1>2, <1>5, QueueStays

-----------------------------------------------------------------------------
\* Every action preserves OutboxInv.

LEMMA CreateKeeps ==
    ASSUME OutboxInv, NEW i \in Invocations, Create(i)
    PROVE  OutboxInv'
<1>1. /\ pc[i] = "create" /\ wake[i] \in Tasks /\ intent[wake[i][1]] # "ABSENT"
      /\ from[i] \in Tasks => from[i][1] < version /\ task[from[i]] = "RUNNING"
      /\ \A v \in todo[i] : intent[v] # "ABSENT"
  BY TypesOf DEF Create, OutboxInv, InvocationInv, LocalType
<1>2. CaseType' /\ IntentMoves
  BY CaseStays, FaultCounts, TypesOf DEF Create, CaseType
<1>3. /\ tries' = tries
      /\ \/ task' = task
         \/ task[wake[i]] = "NONE" /\ task' = [task EXCEPT ![wake[i]] = "QUEUED"]
  BY DEF Create
<1>4. QueueType'
  BY <1>1, <1>3, TypesOf DEF QueueType, TaskStates
<1>5. TaskMoves(i)
  BY <1>1, <1>3, TypesOf DEF TaskMoves, QueueType, OutboxInv, TasksOfQueue
<1>6. /\ UNCHANGED <<from, read, wake, todo, intent, version>>
      /\ \/ pc' = [pc EXCEPT ![i] = "mark"] /\ task'[wake[i]] # "NONE"
         \/ pc' = [pc EXCEPT ![i] = "fail"]
  BY <1>1, TypesOf DEF Create, QueueType
<1>7. LocalType' /\ \A j \in Invocations : j # i => Stays(j)
  BY <1>6, TypesOf DEF LocalType, Steps, Stays
<1>8. InvocationInv(i)'
  BY <1>1, <1>3, <1>6, TypesOf DEF InvocationInv, LocalType, QueueType
<1> QED
  BY <1>2, <1>4, <1>5, <1>6, <1>7, <1>8, StepKept DEF InvocationMoves

\* The end of a dispatch.  The reconciler goes on; anyone else has its case behind it.
LEMMA DispatchEnds ==
    ASSUME OutboxInv, NEW i \in Invocations, pc[i] \in {"mark", "fail"},
           Dispatched(i) \/ NotDispatched(i), UNCHANGED version,
           \A v \in Versions : intent[v] # "ABSENT" => intent'[v] # "ABSENT"
    PROVE  QueueType' /\ LocalType' /\ TaskMoves(i) /\ InvocationMoves(i)
<1>1. from[i] \in Tasks => from[i][1] < version' /\ task[from[i]] = "RUNNING"
  BY DEF OutboxInv, InvocationInv
<1>2. CASE from[i] = Sweep
  <2>1. /\ pc' = [pc EXCEPT ![i] = "list"]
        /\ UNCHANGED <<queueVars, from, read, wake, todo>>
    BY <1>2 DEF Dispatched, NotDispatched
  <2>2. LocalType' /\ \A j \in Invocations : j # i => Stays(j)
    BY <2>1, TypesOf DEF LocalType, Steps, Stays
  <2>3. InvocationInv(i)'
    BY <2>1, <1>2, TypesOf, TasksAre DEF LocalType, OutboxInv, InvocationInv
  <2> QED
    BY <2>1, <2>2, <2>3, QueueStays DEF InvocationMoves
<1>3. CASE from[i] # Sweep
  <2>1. Succeed(i, "DONE") \/ Fail(i)
    BY <1>3 DEF Dispatched, NotDispatched
  <2> QED
    BY <2>1, <1>1, SucceedEffect, FailEffect
<1> QED
  BY <1>2, <1>3

LEMMA MarkDispatchedKeeps ==
    ASSUME OutboxInv, NEW i \in Invocations, MarkDispatched(i)
    PROVE  OutboxInv'
<1>1. /\ pc[i] = "mark" /\ wake[i] \in Tasks /\ wake[i][1] \in Versions
      /\ intent[wake[i][1]] # "ABSENT" /\ task[wake[i]] # "NONE"
  BY TypesOf, TasksAre DEF MarkDispatched, OutboxInv, InvocationInv, LocalType
<1>2. UNCHANGED <<version, state, since, record, resumed>> /\ faults' \in 0..MaxFaults
  BY FaultCounts DEF MarkDispatched
<1>3. CASE intent' = [intent EXCEPT ![wake[i][1]] = "DISPATCHED"] /\ Dispatched(i)
  <2>1. HasTask(wake[i][1])
    BY <1>1 DEF HasTask, Tasks
  <2>2. CaseType' /\ IntentMoves
    BY <1>1, <1>2, <1>3, <2>1, TypesOf DEF CaseType, IntentMoves
  <2>3. \A v \in Versions : intent[v] # "ABSENT" => intent'[v] # "ABSENT"
    BY <2>2 DEF IntentMoves
  <2> QED
    BY <1>1, <1>2, <1>3, <2>2, <2>3, DispatchEnds, StepKept
<1>4. CASE /\ pc' = [pc EXCEPT ![i] = "fail"]
           /\ UNCHANGED <<intent, queueVars, from, read, wake, todo>>
  <2>1. CaseType' /\ IntentMoves
    BY <1>2, <1>4, CaseStays, TypesOf DEF CaseType
  <2>2. LocalType' /\ \A j \in Invocations : j # i => Stays(j)
    BY <1>4, TypesOf DEF LocalType, Steps, Stays
  <2>3. InvocationInv(i)'
    BY <1>1, <1>2, <1>4, TypesOf DEF LocalType, OutboxInv, InvocationInv
  <2> QED
    BY <1>4, <2>1, <2>2, <2>3, QueueStays, StepKept DEF InvocationMoves
<1> QED
  BY <1>3, <1>4 DEF MarkDispatched

LEMMA MarkFailedKeeps ==
    ASSUME OutboxInv, NEW i \in Invocations, MarkFailed(i)
    PROVE  OutboxInv'
<1>1. pc[i] = "fail" /\ wake[i][1] \in Versions /\ intent[wake[i][1]] # "ABSENT"
  BY TypesOf, TasksAre DEF MarkFailed, OutboxInv, InvocationInv, LocalType
<1>2. UNCHANGED <<version, state, since, record, resumed>> /\ faults' \in 0..MaxFaults
  BY FaultCounts DEF MarkFailed
<1>3. intent' = [intent EXCEPT ![wake[i][1]] = "PENDING"] \/ intent' = intent
  BY DEF MarkFailed
<1>4. CaseType' /\ IntentMoves
  BY <1>1, <1>2, <1>3, TypesOf DEF CaseType, IntentMoves
<1>5. \A v \in Versions : intent[v] # "ABSENT" => intent'[v] # "ABSENT"
  BY <1>4 DEF IntentMoves
<1> QED
  BY <1>1, <1>2, <1>4, <1>5, DispatchEnds, StepKept DEF MarkFailed

LEMMA DeliverKeeps ==
    ASSUME OutboxInv, NEW i \in Invocations, NEW t \in Tasks, Deliver(i, t)
    PROVE  OutboxInv'
<1>1. /\ pc[i] = "idle" /\ task[t] = "QUEUED" /\ t[1] \in Versions /\ t[1] <= version
      /\ intent[t[1]] # "ABSENT"
  <2>1. HasTask(t[1])
    BY DEF Deliver, HasTask, Tasks
  <2> QED
    BY <2>1, TasksAre DEF Deliver, OutboxInv, TasksFollowIntents
<1>2. /\ version \in Versions /\ version \in Nat /\ <<version, "clean">> \in Tasks
      /\ <<version, "clean">>[1] = version
      /\ wants <=> intent[version] # "ABSENT"
  <2>1. version \in Versions /\ version \in Nat
    BY TypesOf DEF CaseType, Versions
  <2>2. wants <=> intent[version] # "ABSENT"
    BY DEF OutboxInv, IntentsOfVersions
  <2> QED
    BY <2>1, <2>2, TasksAre DEF Names
<1>3. CaseType' /\ IntentMoves
  <2>1. UNCHANGED <<caseVars, faults>>
    BY DEF Deliver
  <2> QED
    BY <2>1, CaseStays, TypesOf DEF CaseType
<1>4. \A v \in todo[i] : intent[v] # "ABSENT"
  BY DEF OutboxInv, InvocationInv
<1>5. CASE wants
  <2>1. task' = [task EXCEPT ![t] = "RUNNING"] /\ from' = [from EXCEPT ![i] = t]
    BY <1>5 DEF Deliver
  <2>2. UNCHANGED <<caseVars, tries, todo>>
    BY <1>5 DEF Deliver
  <2>3. QueueType'
    BY <2>1, <2>2, TypesOf DEF QueueType, TaskStates
  <2>4. TaskMoves(i)
    BY <1>1, <2>1, <2>2, TypesOf DEF TaskMoves, QueueType, OutboxInv, TasksOfQueue
  <2>5. CASE version = t[1]
    <3>1. /\ pc' = [pc EXCEPT ![i] = "work"] /\ read' = [read EXCEPT ![i] = version]
          /\ UNCHANGED wake
      BY <1>5, <2>5 DEF Deliver, Dispatch
    <3>2. LocalType' /\ \A j \in Invocations : j # i => Stays(j)
      BY <2>1, <2>2, <3>1, <1>2, TypesOf DEF LocalType, Steps, Stays
    <3>3. InvocationInv(i)'
      BY <2>1, <2>2, <2>5, <3>1, <1>2, <1>4, TypesOf DEF InvocationInv, LocalType, QueueType
    <3> QED
      BY <1>1, <1>3, <2>1, <2>3, <2>4, <3>2, <3>3, TypesOf, StepKept
      DEF InvocationMoves, LocalType
  <2>6. CASE version # t[1]
    <3>1. Dispatch(i, <<version, "clean">>) /\ UNCHANGED read
      BY <1>5, <2>6 DEF Deliver
    <3>2. LocalType' /\ \A j \in Invocations : j # i => Stays(j)
      BY <2>1, <2>2, <3>1, <1>2, TypesOf DEF LocalType, Steps, Stays, Dispatch
    <3>3. pc'[i] = "create" /\ wake'[i] = <<version, "clean">> /\ from'[i] = t
          /\ todo'[i] = todo[i] /\ task'[t] = "RUNNING" /\ t[1] < version
      BY <1>1, <1>2, <2>1, <2>2, <2>6, <3>1, TypesOf DEF LocalType, QueueType, Dispatch, Versions
    <3>4. InvocationInv(i)'
      BY <1>2, <1>4, <1>5, <2>2, <3>3 DEF InvocationInv
    <3> QED
      BY <1>1, <1>3, <2>1, <2>3, <2>4, <3>2, <3>3, <3>4, TypesOf, StepKept
      DEF InvocationMoves
  <2> QED
    BY <2>5, <2>6
<1>6. CASE ~wants
  <2>1. /\ task' = [task EXCEPT ![t] = "DONE"] /\ tries' = [tries EXCEPT ![t] = 0]
        /\ UNCHANGED <<caseVars, localVars>>
    BY <1>6 DEF Deliver, Answered
  <2>2. t[1] < version
    BY <1>1, <1>2, <1>6 DEF Versions
  <2>3. QueueType'
    BY <2>1, TypesOf, WakeAssumption DEF QueueType, TaskStates
  <2>4. TaskMoves(i)
    BY <1>1, <2>1, <2>2, TypesOf, WakeAssumption DEF TaskMoves, QueueType
  <2>5. LocalType' /\ \A j \in Invocations : j # i => Stays(j)
    BY <2>1, TypesOf DEF LocalType, Stays
  <2>6. InvocationInv(i)'
    BY <1>1, <1>4, <2>1, TypesOf DEF OutboxInv, InvocationInv, QueueType
  <2> QED
    BY <1>3, <2>1, <2>3, <2>4, <2>5, <2>6, StepKept DEF InvocationMoves
<1> QED
  BY <1>5, <1>6

LEMMA DeliverFailsKeeps ==
    ASSUME OutboxInv, NEW t \in Tasks, DeliverFails(t)
    PROVE  OutboxInv'
<1>1. PICK i : i \notin Invocations
  BY RecordsAssumption DEF RecordStates
<1>2. CaseType' /\ IntentMoves
  BY CaseStays, FaultCounts, TypesOf DEF DeliverFails, CaseType
<1>3. QueueType' /\ TaskMoves(i)
  BY FailedDeliveryEffect DEF DeliverFails
<1>4. LocalType' /\ InvocationMoves(i)
  BY <1>1, TypesOf DEF DeliverFails, LocalType, InvocationMoves, Stays
<1> QED
  BY <1>2, <1>3, <1>4, StepKept

LEMMA ReserveKeeps ==
    ASSUME OutboxInv, NEW i \in Invocations, Reserve(i)
    PROVE  OutboxInv'
<1>1. CaseType' /\ IntentMoves
  <2>1. record' \in Invocations \cup RecordStates
    BY TypesOf DEF Reserve, CaseType
  <2> QED
    BY <2>1, CaseStays, TypesOf DEF Reserve, CaseType
<1>2. CASE /\ pc[i] = "work" /\ pc'[i] \in {"sent", "act"}
           /\ \E s \in {"sent", "act"} : pc' = [pc EXCEPT ![i] = s]
           /\ UNCHANGED <<queueVars, from, read, wake, todo, version, intent>>
  <2>1. LocalType' /\ \A j \in Invocations : j # i => Stays(j)
    BY <1>2, TypesOf DEF LocalType, Steps, Stays
  <2>2. InvocationInv(i)'
    BY <1>2 DEF OutboxInv, InvocationInv
  <2> QED
    BY <1>1, <1>2, <2>1, <2>2, QueueStays, StepKept DEF InvocationMoves
<1>3. CASE Succeed(i, "SWALLOWED")
  BY <1>1, <1>3, SucceedEffect, StepKept
<1> QED
  BY <1>2, <1>3, TypesOf DEF Reserve, LocalType

\* A run goes from one step to the next.
LEMMA RunGoesOn ==
    ASSUME OutboxInv, NEW i \in Invocations, NEW s \in {"act", "sent", "failed"},
           pc[i] \in {"work", "act", "sent", "failed"},
           pc' = [pc EXCEPT ![i] = s],
           UNCHANGED <<version, state, since, intent, resumed, queueVars>>,
           UNCHANGED <<from, read, wake, todo>>,
           record' \in Invocations \cup RecordStates, faults' \in 0..MaxFaults
    PROVE  OutboxInv'
<1>1. CaseType' /\ IntentMoves
  BY CaseStays
<1>2. LocalType' /\ \A j \in Invocations : j # i => Stays(j)
  BY TypesOf DEF LocalType, Steps, Stays
<1>3. InvocationInv(i)'
  BY TypesOf DEF OutboxInv, InvocationInv, LocalType
<1> QED
  BY <1>1, <1>2, <1>3, QueueStays, StepKept DEF InvocationMoves

LEMMA AnswerKeeps ==
    ASSUME OutboxInv, NEW i \in Invocations, Answer(i)
    PROVE  OutboxInv'
<1>1. \E s \in {"act", "sent", "failed"} : pc' = [pc EXCEPT ![i] = s]
  BY DEF Answer
<1>2. record' \in Invocations \cup RecordStates
  BY DEF Answer, RecordStates
<1>3. faults' \in 0..MaxFaults
  BY FaultCounts DEF Answer
<1> QED
  BY <1>1, <1>2, <1>3, RunGoesOn DEF Answer

\* A run's transaction moves the case and leaves its own task's version behind.
LEMMA RunMoves ==
    ASSUME OutboxInv, NEW i \in Invocations, NEW next \in Dispatchable,
           pc[i] \in {"sent", "failed"}, version = read[i],
           MayMove(next), Move(next), Dispatch(i, <<version + 1, "direct">>),
           since' = since \/ since' = version', record' \in Invocations \cup RecordStates,
           UNCHANGED <<resumed, queueVars, from, read, todo, faults>>
    PROVE  OutboxInv'
<1>1. /\ CaseType' /\ CaseMoves
      /\ version' = version + 1 /\ version < version' /\ version \in Nat
      /\ intent'[version'] # "ABSENT"
  BY MoveEffect, TypesOf DEF CaseType, States
<1>2. /\ from[i] \in Tasks /\ from[i][1] = version
  BY DEF OutboxInv, InvocationInv
<1>3. <<version + 1, "direct">> \in Tasks
  BY <1>1, TasksAre DEF CaseMoves, Names
<1>4. \A v \in Versions : intent[v] # "ABSENT" => intent'[v] # "ABSENT"
  BY <1>1 DEF CaseMoves
<1>5. QueueType' /\ LocalType' /\ TaskMoves(i) /\ InvocationMoves(i)
  BY <1>1, <1>2, <1>3, <1>4, DispatchEffect
<1> QED
  BY <1>1, <1>5, StepKept

LEMMA PublishKeeps ==
    ASSUME OutboxInv, NEW i \in Invocations, Publish(i)
    PROVE  OutboxInv'
<1>1. since' = version' /\ record' \in Invocations \cup RecordStates
  BY DEF Publish, Move, RecordStates
<1> QED
  BY <1>1, RunMoves DEF Publish, Dispatchable

LEMMA RetryKeeps ==
    ASSUME OutboxInv, NEW i \in Invocations, Retry(i)
    PROVE  OutboxInv'
BY RunMoves, TypesOf DEF Retry, Dispatchable, CaseType

LEMMA ConcludeKeeps ==
    ASSUME OutboxInv, NEW i \in Invocations, Conclude(i)
    PROVE  OutboxInv'
<1>1. PICK next \in {"NEEDS_ATTENTION", "FAILED"} : MayMove(next) /\ Move(next)
  BY DEF Conclude
<1>2. faults' \in 0..MaxFaults
  BY FaultCounts DEF Conclude
<1>3. CaseType' /\ CaseMoves /\ version < version'
  BY <1>1, <1>2, MoveEffect, TypesOf DEF Conclude, States, CaseType
<1>4. from[i] \in Tasks /\ from[i][1] < version'
  BY <1>3 DEF Conclude, OutboxInv, InvocationInv
<1>5. QueueType' /\ LocalType' /\ TaskMoves(i) /\ InvocationMoves(i)
  BY <1>4, SucceedEffect, FailEffect DEF Conclude
<1> QED
  BY <1>3, <1>5, StepKept

LEMMA ConflictKeeps ==
    ASSUME OutboxInv, NEW i \in Invocations, Conflict(i)
    PROVE  OutboxInv'
<1>1. CaseType' /\ IntentMoves
  BY CaseStays, TypesOf DEF Conflict, CaseType
<1> QED
  BY <1>1, FailEffect, StepKept DEF Conflict

LEMMA StoreFailsKeeps ==
    ASSUME OutboxInv, NEW i \in Invocations, StoreFails(i)
    PROVE  OutboxInv'
<1>1. record' \in Invocations \cup RecordStates /\ faults' \in 0..MaxFaults
  BY FaultCounts, TypesOf DEF StoreFails, CaseType, RecordStates
<1>2. CASE pc[i] \in {"work", "act", "sent"} /\ pc' = [pc EXCEPT ![i] = "failed"]
  BY <1>1, <1>2, RunGoesOn DEF StoreFails
<1>3. CASE pc[i] = "failed" /\ Fail(i)
  BY <1>1, <1>3, CaseStays, FailEffect, StepKept DEF StoreFails
<1> QED
  BY <1>2, <1>3 DEF StoreFails

LEMMA CrashKeeps ==
    ASSUME OutboxInv, NEW i \in Invocations, Crash(i)
    PROVE  OutboxInv'
<1>1. record' \in Invocations \cup RecordStates /\ faults' \in 0..MaxFaults
  BY FaultCounts, TypesOf DEF Crash, CaseType, RecordStates
<1> QED
  BY <1>1, CaseStays, FailEffect, StepKept DEF Crash

LEMMA ReconcileKeeps ==
    ASSUME OutboxInv, NEW i \in Invocations, Reconcile(i)
    PROVE  OutboxInv'
<1>1. PICK batch \in SUBSET Pending : todo' = [todo EXCEPT ![i] = batch]
  BY DEF Reconcile
<1>2. /\ pc' = [pc EXCEPT ![i] = "list"] /\ from' = [from EXCEPT ![i] = Sweep]
      /\ UNCHANGED <<caseVars, queueVars, read, wake, faults>>
  BY DEF Reconcile
<1>3. CaseType' /\ IntentMoves
  BY <1>2, CaseStays, TypesOf DEF CaseType
<1>4. batch \subseteq Versions /\ \A v \in batch : intent[v] # "ABSENT"
  BY DEF Pending
<1>5. LocalType' /\ \A j \in Invocations : j # i => Stays(j)
  BY <1>1, <1>2, <1>4, TypesOf DEF LocalType, Steps, Stays
<1>6. InvocationInv(i)' /\ from'[i] = Sweep
  BY <1>1, <1>2, <1>4, TypesOf, TasksAre DEF LocalType, InvocationInv
<1> QED
  BY <1>2, <1>3, <1>5, <1>6, TasksAre, QueueStays, StepKept DEF InvocationMoves

LEMMA NextIntentKeeps ==
    ASSUME OutboxInv, NEW i \in Invocations, NextIntent(i)
    PROVE  OutboxInv'
<1>1. UNCHANGED <<caseVars, queueVars, faults>>
  BY DEF NextIntent
<1>2. CaseType' /\ IntentMoves
  BY <1>1, CaseStays, TypesOf DEF CaseType
<1>3. CASE Ends(i)
  BY <1>1, <1>2, <1>3, QueueStays, EndsEffect, StepKept
<1>4. ASSUME NEW v \in todo[i], todo' = [todo EXCEPT ![i] = @ \ {v}],
             Dispatch(i, <<v, "clean">>), UNCHANGED <<from, read>>
      PROVE  OutboxInv'
  <2>1. v \in Versions /\ intent[v] # "ABSENT"
    BY TypesOf DEF LocalType, OutboxInv, InvocationInv
  <2>2. /\ pc' = [pc EXCEPT ![i] = "create"] /\ wake' = [wake EXCEPT ![i] = <<v, "clean">>]
        /\ <<v, "clean">> \in Tasks
    BY <1>4, <2>1 DEF Dispatch, Tasks, Names
  <2>3. LocalType' /\ \A j \in Invocations : j # i => Stays(j)
    BY <1>4, <2>2, TypesOf DEF LocalType, Steps, Stays
  <2>4. from[i] \notin Tasks
    BY TasksAre DEF NextIntent, OutboxInv, InvocationInv
  <2>5. InvocationInv(i)'
    BY <1>1, <1>4, <2>1, <2>2, <2>4, TypesOf DEF LocalType, OutboxInv, InvocationInv
  <2> QED
    BY <1>1, <1>2, <1>4, <2>3, <2>5, QueueStays, StepKept DEF InvocationMoves
<1> QED
  BY <1>3, <1>4 DEF NextIntent

\* A writer that is not a run moves the case, and then dispatches as a request.
LEMMA RequestMoves ==
    ASSUME OutboxInv, NEW i \in Invocations, NEW next \in Dispatchable, NEW n \in Names,
           MayMove(next), Move(next), Dispatch(i, <<version + 1, n>>),
           from' = [from EXCEPT ![i] = Request],
           resumed' = resumed \/ resumed' = resumed \cup {version + 1},
           UNCHANGED <<since, record, queueVars, read, todo, faults>>
    PROVE  OutboxInv'
<1>1. version' = version + 1
  BY DEF Move
<1>2. /\ CaseType' /\ CaseMoves
      /\ version' = version + 1 /\ version < version' /\ version \in Nat
      /\ intent'[version'] # "ABSENT"
  BY <1>1, MoveEffect, TypesOf DEF CaseType, States
<1>3. <<version + 1, n>> \in Tasks /\ intent'[<<version + 1, n>>[1]] # "ABSENT"
  BY <1>2, TasksAre DEF CaseMoves
<1>4. \A v \in Versions : intent[v] # "ABSENT" => intent'[v] # "ABSENT"
  BY <1>2 DEF CaseMoves
<1>5. from'[i] \notin Tasks
  BY TypesOf, TasksAre DEF LocalType
<1>6. version <= version' /\ version' \in Nat
  BY <1>2
<1>7. QueueType' /\ LocalType' /\ TaskMoves(i) /\ InvocationMoves(i)
  <2> DEFINE t == <<version + 1, n>>
  <2>1. t \in Tasks /\ Dispatch(i, t) /\ intent'[t[1]] # "ABSENT"
    BY <1>3
  <2> HIDE DEF t
  <2> QED
    BY <1>2, <1>4, <1>5, <1>6, <2>1, DispatchEffect
<1> QED
  BY <1>2, <1>7, StepKept

LEMMA InsufficientKeeps ==
    ASSUME OutboxInv, NEW i \in Invocations, Insufficient(i)
    PROVE  OutboxInv'
BY RequestMoves DEF Insufficient, Dispatchable, Names

LEMMA ResumeKeeps ==
    ASSUME OutboxInv, NEW i \in Invocations, Resume(i)
    PROVE  OutboxInv'
BY RequestMoves DEF Resume, Dispatchable, Names

LEMMA ResumeAgainKeeps ==
    ASSUME OutboxInv, NEW i \in Invocations, ResumeAgain(i)
    PROVE  OutboxInv'
<1>1. PICK v \in resumed : Dispatch(i, <<v, "clean">>)
  BY DEF ResumeAgain
<1>2. /\ UNCHANGED <<caseVars, queueVars, read, todo, faults>>
      /\ from' = [from EXCEPT ![i] = Request]
  BY DEF ResumeAgain
<1>3. /\ v \in Versions /\ intent[v] # "ABSENT" /\ <<v, "clean">> \in Tasks
      /\ intent'[<<v, "clean">>[1]] # "ABSENT"
  BY <1>2 DEF OutboxInv, IntentsOfVersions, Tasks, Names
<1>4. from'[i] \notin Tasks /\ version \in Nat /\ version <= version'
  BY <1>2, TypesOf, TasksAre DEF LocalType, CaseType, Versions
<1>5. CaseType' /\ IntentMoves
  BY <1>2, CaseStays, TypesOf DEF CaseType
<1>6. QueueType' /\ LocalType' /\ TaskMoves(i) /\ InvocationMoves(i)
  BY <1>1, <1>2, <1>3, <1>4, DispatchEffect
<1> QED
  BY <1>5, <1>6, StepKept

LEMMA RestKeeps ==
    ASSUME OutboxInv, NEW next \in States, Rest(next)
    PROVE  OutboxInv'
<1>1. PICK i : i \notin Invocations
  BY RecordsAssumption DEF RecordStates
<1>2. CaseType' /\ CaseMoves
  BY MoveEffect, TypesOf DEF Rest, CaseType
<1>3. LocalType' /\ InvocationMoves(i)
  BY <1>1, TypesOf DEF Rest, LocalType, InvocationMoves, Stays
<1>4. QueueType' /\ TaskMoves(i)
  BY QueueStays DEF Rest
<1> QED
  BY <1>2, <1>3, <1>4, StepKept

LEMMA OtherWritersKeep ==
    ASSUME OutboxInv, Evidence \/ Bounce \/ Control
    PROVE  OutboxInv'
<1>1. PICK next \in {"DONE", "NEEDS_ATTENTION", "CANCELLED", "EXPIRED"} : Rest(next)
  BY DEF Evidence, Bounce, Control
<1> QED
  BY <1>1, RestKeeps DEF States

-----------------------------------------------------------------------------
(***************************************************************************)
(* The theorems.                                                           *)
(***************************************************************************)

LEMMA OutboxInvInit == Init => OutboxInv
<1> SUFFICES ASSUME Init
             PROVE  OutboxInv
  OBVIOUS
<1>1. TypeOK
  BY WakeAssumption, TasksAre
  DEF Init, TypeOK, States, Dispatchable, RecordStates, TaskStates, Steps, Versions
<1>2. /\ 1 \in Versions /\ FirstWake[1] = 1 /\ wants
      /\ \A v \in Versions : v >= 1 /\ (intent[v] # "ABSENT" <=> v = 1)
      /\ \A t \in Tasks : task[t] = "NONE" /\ tries[t] = 0
  BY WakeAssumption, TasksAre DEF Init, FirstWake, wants, Dispatchable, Versions
<1>3. IntentsOfVersions
  BY <1>2 DEF Init, IntentsOfVersions
<1>4. TasksFollowIntents /\ TasksOfQueue
  <2>1. \A v \in Versions : ~HasTask(v)
    BY <1>2, TasksAre DEF HasTask
  <2> QED
    BY <1>2, <2>1, WakeAssumption DEF TasksFollowIntents, TasksOfQueue
<1>5. DispatchedHasTask
  BY DEF Init, DispatchedHasTask
<1>6. \A i \in Invocations :
        /\ pc[i] \in {"create", "idle"} /\ from[i] = Request /\ wake[i] = FirstWake
        /\ todo[i] = {}
  BY DEF Init
<1>7. \A i \in Invocations : InvocationInv(i)
  BY <1>2, <1>6, TasksAre DEF InvocationInv
<1>8. OneDelivery
  BY <1>6, TasksAre DEF OneDelivery
<1> QED
  BY <1>1, <1>3, <1>4, <1>5, <1>7, <1>8 DEF OutboxInv

LEMMA OutboxInvNext == OutboxInv /\ [Next]_vars => OutboxInv'
<1> SUFFICES ASSUME OutboxInv, [Next]_vars
             PROVE  OutboxInv'
  OBVIOUS
<1>1. ASSUME NEW i \in Invocations, Step(i)
      PROVE  OutboxInv'
  BY <1>1, CreateKeeps, MarkDispatchedKeeps, MarkFailedKeeps, ReserveKeeps, AnswerKeeps,
     PublishKeeps, RetryKeeps, ConcludeKeeps, ConflictKeeps, NextIntentKeeps DEF Step
<1>2. ASSUME NEW i \in Invocations, StoreFails(i) \/ Crash(i) \/ Reconcile(i)
      PROVE  OutboxInv'
  BY <1>2, StoreFailsKeeps, CrashKeeps, ReconcileKeeps
<1>3. ASSUME NEW i \in Invocations, Insufficient(i) \/ Resume(i) \/ ResumeAgain(i)
      PROVE  OutboxInv'
  BY <1>3, InsufficientKeeps, ResumeKeeps, ResumeAgainKeeps
<1>4. ASSUME NEW t \in Tasks, DeliverFails(t) \/ \E i \in Invocations : Deliver(i, t)
      PROVE  OutboxInv'
  BY <1>4, DeliverKeeps, DeliverFailsKeeps
<1>5. CASE Evidence \/ Bounce \/ Control
  BY <1>5, OtherWritersKeep
<1>6. CASE UNCHANGED vars
  <2>1. PICK i : i \notin Invocations
    BY RecordsAssumption DEF RecordStates
  <2>2. CaseType' /\ IntentMoves
    BY <1>6, CaseStays, TypesOf DEF vars, CaseType
  <2>3. QueueType' /\ TaskMoves(i)
    BY <1>6, QueueStays DEF vars
  <2>4. LocalType' /\ InvocationMoves(i)
    BY <1>6, <2>1, TypesOf DEF vars, LocalType, InvocationMoves, Stays
  <2> QED
    BY <2>2, <2>3, <2>4, StepKept
<1> QED
  BY <1>1, <1>2, <1>3, <1>4, <1>5, <1>6 DEF Next

\* The invariant of the outbox: of stored intents, of the tasks made from them, and of
\* every invocation between them.
THEOREM OutboxInvariant == Spec => []OutboxInv
BY OutboxInvInit, OutboxInvNext, PTL DEF Spec

\* No failed, lost or overtaken dispatch hides an intent from the reconciler.
THEOREM DispatchedIsQueued == Spec => []DispatchedHasTask
<1>1. OutboxInv => DispatchedHasTask
  BY DEF OutboxInv
<1> QED
  BY <1>1, OutboxInvariant, PTL

\* Only a stored version that wants a wake is ever woken.
THEOREM TasksHaveIntents == Spec => []TasksFollowIntents
<1>1. OutboxInv => TasksFollowIntents
  BY DEF OutboxInv
<1> QED
  BY <1>1, OutboxInvariant, PTL

\* A case that wants a wake has one pending or queued, or lost it in one of two ways:
\* to a delivery that found the action in flight, or to the queue's last try.
THEOREM WakesAccountedFor == Spec => []WakeAccounted
<1>1. OutboxInv => WakeAccounted
  <2> SUFFICES ASSUME OutboxInv, wants, intent[version] # "PENDING"
               PROVE  \E n \in Names : task[<<version, n>>] \in
                            {"QUEUED", "RUNNING", "SWALLOWED", "DROPPED"}
    BY DEF WakeAccounted
  <2>1. version \in Versions /\ version \in Nat
    BY TypesOf DEF CaseType, Versions
  <2>2. intent[version] = "DISPATCHED"
    BY <2>1, TypesOf DEF CaseType, OutboxInv, IntentsOfVersions
  <2>3. PICK n \in Names : task[<<version, n>>] # "NONE"
    BY <2>1, <2>2 DEF OutboxInv, DispatchedHasTask, HasTask
  <2>4. <<version, n>> \in Tasks /\ <<version, n>>[1] = version
    BY <2>1, TasksAre
  <2>5. task[<<version, n>>] # "DONE"
    BY <2>1, <2>4 DEF OutboxInv, TasksOfQueue
  <2>6. task[<<version, n>>] \in TaskStates
    BY <2>4, TypesOf DEF QueueType
  <2> QED
    BY <2>3, <2>5, <2>6 DEF TaskStates
<1> QED
  BY <1>1, OutboxInvariant, PTL
=============================================================================
