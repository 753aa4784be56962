------------------------- MODULE FollowThroughProofs -------------------------
(***************************************************************************)
(* Proofs about FollowThrough for every number of workers, handlers,       *)
(* evidence identities, sends, attempts and faults.                        *)
(*                                                                         *)
(* Every safety theorem follows from IInv, which every action preserves.   *)
(* The steps fall into three kinds: those that leave the run document      *)
(* alone, those of a worker that commit, and those of anybody else that    *)
(* commit.                                                                 *)
(***************************************************************************)
EXTENDS FollowThrough, CaseRunsProofs, FiniteSetTheorems

USE DEF storeVars, approvalVars, actionVars, workerVars, handlerVars, boundVars

-----------------------------------------------------------------------------
\* A counted action moves the ordinal by one, which the plan's limit leaves room for.
LEMMA SentRewrites ==
    ASSUME NEW r \in Run, r.ordinal \in Ordinals
    PROVE  /\ Sent(r) \in Run
           /\ Sent(r).version = r.version + 1
           /\ Sent(r).state = "WAITING_EXTERNAL"
           /\ Sent(r).ordinal = r.ordinal + 1
           /\ Sent(r).revoked = r.revoked
BY LimitsAssumption DEF Run, RunStates, Sent, Ordinals

-----------------------------------------------------------------------------
\* The invariant holds initially.

LEMMA InitTypeOK == Init => TypeOK
<1> SUFFICES ASSUME Init PROVE TypeOK
  OBVIOUS
<1>1. run \in Run /\ snap \in [Workers -> Run]
  BY ActivatedRunType DEF Init
<1>2. /\ deleted \in BOOLEAN
      /\ expired \in BOOLEAN
      /\ permitted \in BOOLEAN
  BY DEF Init
<1>3. /\ record \in [Ordinals -> {"ABSENT", "RESERVED", "UNKNOWN", "SUCCEEDED"}]
      /\ reached \subseteq Ordinals
  BY DEF Init
<1>4. /\ pc \in [Workers -> WorkerSteps]
      /\ hpc \in [Handlers -> HandlerSteps]
      /\ hver \in [Handlers -> Nat]
  BY DEF Init, WorkerSteps, HandlerSteps
<1>5. /\ evidence \in [EvidenceIds -> Verdicts \cup {NoVerdict}]
      /\ events \subseteq Nat
      /\ intents \subseteq Nat
      /\ interventions \subseteq InterventionKinds
  BY DEF Init
<1>6. /\ faults \in 0..MaxFaults
      /\ controls \in 0..MaxControls
      /\ bounces \in 0..MaxBounces
  BY BoundsAssumption DEF Init
<1> QED
  BY <1>1, <1>2, <1>3, <1>4, <1>5, <1>6 DEF TypeOK

LEMMA InitIInv == Init => IInv
<1> SUFFICES ASSUME Init PROVE IInv
  OBVIOUS
<1>1. TypeOK
  BY InitTypeOK
<1>2. /\ SnapshotsAgree
      /\ AttemptsInPlan
      /\ RecordsHeld
  BY DEF Init, SnapshotsAgree, AttemptsInPlan, RecordsHeld, Attempting, Holds
<1>3. /\ ReceiptsTrue
      /\ ReachedInOrder
      /\ CountedMeansPerformed
  BY DEF Init, ReceiptsTrue, ReachedInOrder, CountedMeansPerformed, ActivatedRun, Ordinals
<1>4. /\ DispatchableIsAuthorized
      /\ WakeRetained
      /\ EventsKnown
  BY DEF Init, DispatchableIsAuthorized, WakeRetained, EventsKnown, ActivatedRun, Dispatchable
<1> QED
  BY <1>1, <1>2, <1>3, <1>4 DEF IInv

-----------------------------------------------------------------------------
(***************************************************************************)
(* What every step shares.                                                 *)
(***************************************************************************)

\* No invocation reads a document in this step, except to forget what it read.
NoNewReads ==
    /\ \A w \in Workers : pc'[w] # "idle" => pc[w] # "idle" /\ snap'[w] = snap[w]
    /\ \A h \in Handlers : hpc'[h] = "record" => hpc[h] = "record" /\ hver'[h] = hver[h]

\* The run document stays as it is, or moves on to a later version.
MovesOn ==
    \/ run' = run
    \/ run'.version = run.version + 1 /\ run'.ordinal >= run.ordinal

LEMMA SnapshotsStay ==
    ASSUME IInv, TypeOK', NoNewReads, MovesOn
    PROVE  /\ SnapshotsAgree'
           /\ \A w \in Workers : pc'[w] # "idle" => snap'[w].ordinal <= run'.ordinal
<1>1. /\ \A w \in Workers : snap[w] \in Run /\ snap[w].version \in Nat /\ snap[w].ordinal \in Nat
      /\ \A h \in Handlers : hver[h] \in Nat
      /\ run.version \in Nat /\ run.ordinal \in Nat /\ run'.version \in Nat /\ run'.ordinal \in Nat
  BY LimitsAssumption DEF IInv, TypeOK, Run
<1>2. ASSUME NEW w \in Workers, pc'[w] # "idle"
      PROVE  /\ snap'[w].version <= run'.version
             /\ snap'[w].version = run'.version => snap'[w] = run'
             /\ snap'[w].state \in Dispatchable
             /\ snap'[w].ordinal <= run'.ordinal
  BY <1>1, <1>2 DEF NoNewReads, MovesOn, IInv, SnapshotsAgree, AttemptsInPlan
<1>3. ASSUME NEW h \in Handlers, hpc'[h] = "record"
      PROVE  /\ hver'[h] <= run'.version
             /\ hver'[h] = run'.version => run'.state = "WAITING_EXTERNAL"
  BY <1>1, <1>3 DEF NoNewReads, MovesOn, IInv, SnapshotsAgree
<1> QED
  BY <1>2, <1>3 DEF SnapshotsAgree

\* A step that leaves the case's documents alone keeps what is said about them.
LEMMA DocumentsStay ==
    ASSUME IInv, UNCHANGED <<run, events, intents, evidence>>
    PROVE  /\ DispatchableIsAuthorized'
           /\ WakeRetained'
           /\ EventsKnown'
BY DEF IInv, DispatchableIsAuthorized, WakeRetained, EventsKnown

-----------------------------------------------------------------------------
(***************************************************************************)
(* Steps that leave the run document alone.                                *)
(***************************************************************************)

LEMMA StartStep ==
    ASSUME IInv, NEW w \in Workers, NEW v \in intents, Start(w, v)
    PROVE  IInv'
<1>1. TypeOK'
  BY DEF IInv, TypeOK, Start, WorkerSteps
<1>2. SnapshotsAgree'
  BY DEF IInv, TypeOK, SnapshotsAgree, Start, WorkerSteps, Run
<1>3. AttemptsInPlan'
  BY DEF IInv, TypeOK, AttemptsInPlan, Start, WorkerSteps, Run, Attempting, Key, Ordinals
<1>4. RecordsHeld' /\ ReceiptsTrue'
  BY DEF IInv, TypeOK, RecordsHeld, ReceiptsTrue, Start, WorkerSteps, Holds, Key
<1>5. ReachedInOrder' /\ CountedMeansPerformed'
  BY DEF IInv, ReachedInOrder, CountedMeansPerformed, Start
<1>6. DispatchableIsAuthorized' /\ WakeRetained' /\ EventsKnown'
  BY DocumentsStay DEF Start
<1> QED
  BY <1>1, <1>2, <1>3, <1>4, <1>5, <1>6 DEF IInv

LEMMA ReceiveStep ==
    ASSUME IInv, NEW h \in Handlers, Receive(h)
    PROVE  IInv'
<1>1. TypeOK'
  BY DEF IInv, TypeOK, Receive, HandlerSteps, Run
<1>2. SnapshotsAgree'
  BY DEF IInv, TypeOK, SnapshotsAgree, Receive, Run
<1>3. AttemptsInPlan' /\ RecordsHeld' /\ ReceiptsTrue'
  BY DEF IInv, AttemptsInPlan, RecordsHeld, ReceiptsTrue, Receive, Attempting, Holds, Key
<1>4. ReachedInOrder' /\ CountedMeansPerformed'
  BY DEF IInv, ReachedInOrder, CountedMeansPerformed, Receive
<1>5. DispatchableIsAuthorized' /\ WakeRetained' /\ EventsKnown'
  BY DocumentsStay DEF Receive
<1> QED
  BY <1>1, <1>2, <1>3, <1>4, <1>5 DEF IInv

LEMMA ReserveStep ==
    ASSUME IInv, NEW w \in Workers, Reserve(w)
    PROVE  IInv'
<1> USE DEF Reserve, HasReceipt, Free, Goto, Finish
<1>1. TypeOK'
  BY ActivatedRunType, BoundsAssumption DEF IInv, TypeOK, WorkerSteps, AttemptsInPlan, Attempting, Key, InterventionKinds
<1>2. NoNewReads /\ MovesOn
  BY DEF NoNewReads, MovesOn, IInv, TypeOK
<1>3. SnapshotsAgree' /\ AttemptsInPlan'
  BY <1>1, <1>2, SnapshotsStay DEF IInv, TypeOK, AttemptsInPlan, Attempting, Key
<1>4. RecordsHeld'
  BY DEF IInv, TypeOK, RecordsHeld, AttemptsInPlan, Attempting, Holds, Key
<1>5. ReceiptsTrue'
  BY DEF IInv, TypeOK, ReceiptsTrue, AttemptsInPlan, Attempting, Key
<1>6. ReachedInOrder' /\ CountedMeansPerformed'
  BY DEF IInv, TypeOK, ReachedInOrder, CountedMeansPerformed, AttemptsInPlan, Attempting, Key
<1>7. DispatchableIsAuthorized' /\ WakeRetained' /\ EventsKnown'
  BY DocumentsStay
<1> QED
  BY <1>1, <1>3, <1>4, <1>5, <1>6, <1>7 DEF IInv

LEMMA CallAcceptedStep ==
    ASSUME IInv, NEW w \in Workers, CallAccepted(w)
    PROVE  IInv'
<1> USE DEF CallAccepted, Goto, Reaches
<1>1. TypeOK'
  BY ActivatedRunType, BoundsAssumption DEF IInv, TypeOK, WorkerSteps, AttemptsInPlan, Attempting, Key, InterventionKinds
<1>2. NoNewReads /\ MovesOn
  BY DEF NoNewReads, MovesOn, IInv, TypeOK
<1>3. SnapshotsAgree' /\ AttemptsInPlan'
  BY <1>1, <1>2, SnapshotsStay DEF IInv, TypeOK, AttemptsInPlan, Attempting, Key
<1>4. RecordsHeld'
  BY DEF IInv, TypeOK, RecordsHeld, AttemptsInPlan, Attempting, Holds, Key
<1>5. ReceiptsTrue'
  BY DEF IInv, TypeOK, ReceiptsTrue, AttemptsInPlan, Attempting, Key
<1>6. ReachedInOrder' /\ CountedMeansPerformed'
  BY DEF IInv, TypeOK, ReachedInOrder, CountedMeansPerformed, AttemptsInPlan, Attempting, Key
<1>7. DispatchableIsAuthorized' /\ WakeRetained' /\ EventsKnown'
  BY DocumentsStay
<1> QED
  BY <1>1, <1>3, <1>4, <1>5, <1>6, <1>7 DEF IInv

LEMMA CallRefusedStep ==
    ASSUME IInv, NEW w \in Workers, CallRefused(w)
    PROVE  IInv'
<1> USE DEF CallRefused, Goto
<1>1. TypeOK'
  BY ActivatedRunType, BoundsAssumption DEF IInv, TypeOK, WorkerSteps, AttemptsInPlan, Attempting, Key, InterventionKinds
<1>2. NoNewReads /\ MovesOn
  BY DEF NoNewReads, MovesOn, IInv, TypeOK
<1>3. SnapshotsAgree' /\ AttemptsInPlan'
  BY <1>1, <1>2, SnapshotsStay DEF IInv, TypeOK, AttemptsInPlan, Attempting, Key
<1>4. RecordsHeld'
  BY DEF IInv, TypeOK, RecordsHeld, AttemptsInPlan, Attempting, Holds, Key
<1>5. ReceiptsTrue'
  BY DEF IInv, TypeOK, ReceiptsTrue, AttemptsInPlan, Attempting, Key
<1>6. ReachedInOrder' /\ CountedMeansPerformed'
  BY DEF IInv, TypeOK, ReachedInOrder, CountedMeansPerformed, AttemptsInPlan, Attempting, Key
<1>7. DispatchableIsAuthorized' /\ WakeRetained' /\ EventsKnown'
  BY DocumentsStay
<1> QED
  BY <1>1, <1>3, <1>4, <1>5, <1>6, <1>7 DEF IInv

LEMMA CallOutcomeUnknownStep ==
    ASSUME IInv, NEW w \in Workers, CallOutcomeUnknown(w)
    PROVE  IInv'
<1> USE DEF CallOutcomeUnknown, Goto, Fault, Reaches
<1>1. TypeOK'
  BY ActivatedRunType, BoundsAssumption DEF IInv, TypeOK, WorkerSteps, AttemptsInPlan, Attempting, Key, InterventionKinds
<1>2. NoNewReads /\ MovesOn
  BY DEF NoNewReads, MovesOn, IInv, TypeOK
<1>3. SnapshotsAgree' /\ AttemptsInPlan'
  BY <1>1, <1>2, SnapshotsStay DEF IInv, TypeOK, AttemptsInPlan, Attempting, Key
<1>4. RecordsHeld'
  BY DEF IInv, TypeOK, RecordsHeld, AttemptsInPlan, Attempting, Holds, Key
<1>5. ReceiptsTrue'
  BY DEF IInv, TypeOK, ReceiptsTrue, AttemptsInPlan, Attempting, Key
<1>6. ReachedInOrder' /\ CountedMeansPerformed'
  BY DEF IInv, TypeOK, ReachedInOrder, CountedMeansPerformed, AttemptsInPlan, Attempting, Key
<1>7. DispatchableIsAuthorized' /\ WakeRetained' /\ EventsKnown'
  BY DocumentsStay
<1> QED
  BY <1>1, <1>3, <1>4, <1>5, <1>6, <1>7 DEF IInv

LEMMA SettleStep ==
    ASSUME IInv, NEW w \in Workers, Settle(w)
    PROVE  IInv'
<1> USE DEF Settle, Goto
<1>1. TypeOK'
  BY ActivatedRunType, BoundsAssumption DEF IInv, TypeOK, WorkerSteps, AttemptsInPlan, Attempting, Key, InterventionKinds
<1>2. NoNewReads /\ MovesOn
  BY DEF NoNewReads, MovesOn, IInv, TypeOK
<1>3. SnapshotsAgree' /\ AttemptsInPlan'
  BY <1>1, <1>2, SnapshotsStay DEF IInv, TypeOK, AttemptsInPlan, Attempting, Key
<1>4. RecordsHeld'
  BY DEF IInv, TypeOK, RecordsHeld, AttemptsInPlan, Attempting, Holds, Key
<1>5. ReceiptsTrue'
  BY DEF IInv, TypeOK, ReceiptsTrue, AttemptsInPlan, Attempting, Key
<1>6. ReachedInOrder' /\ CountedMeansPerformed'
  BY DEF IInv, TypeOK, ReachedInOrder, CountedMeansPerformed, AttemptsInPlan, Attempting, Key
<1>7. DispatchableIsAuthorized' /\ WakeRetained' /\ EventsKnown'
  BY DocumentsStay
<1> QED
  BY <1>1, <1>3, <1>4, <1>5, <1>6, <1>7 DEF IInv

LEMMA MarkUnknownStep ==
    ASSUME IInv, NEW w \in Workers, MarkUnknown(w)
    PROVE  IInv'
<1> USE DEF MarkUnknown, Goto
<1>1. TypeOK'
  BY ActivatedRunType, BoundsAssumption DEF IInv, TypeOK, WorkerSteps, AttemptsInPlan, Attempting, Key, InterventionKinds
<1>2. NoNewReads /\ MovesOn
  BY DEF NoNewReads, MovesOn, IInv, TypeOK
<1>3. SnapshotsAgree' /\ AttemptsInPlan'
  BY <1>1, <1>2, SnapshotsStay DEF IInv, TypeOK, AttemptsInPlan, Attempting, Key
<1>4. RecordsHeld'
  BY DEF IInv, TypeOK, RecordsHeld, AttemptsInPlan, Attempting, Holds, Key
<1>5. ReceiptsTrue'
  BY DEF IInv, TypeOK, ReceiptsTrue, AttemptsInPlan, Attempting, Key
<1>6. ReachedInOrder' /\ CountedMeansPerformed'
  BY DEF IInv, TypeOK, ReachedInOrder, CountedMeansPerformed, AttemptsInPlan, Attempting, Key
<1>7. DispatchableIsAuthorized' /\ WakeRetained' /\ EventsKnown'
  BY DocumentsStay
<1> QED
  BY <1>1, <1>3, <1>4, <1>5, <1>6, <1>7 DEF IInv

LEMMA ReleaseStep ==
    ASSUME IInv, NEW w \in Workers, Release(w)
    PROVE  IInv'
<1> USE DEF Release, Goto
<1>1. TypeOK'
  BY ActivatedRunType, BoundsAssumption DEF IInv, TypeOK, WorkerSteps, AttemptsInPlan, Attempting, Key, InterventionKinds
<1>2. NoNewReads /\ MovesOn
  BY DEF NoNewReads, MovesOn, IInv, TypeOK
<1>3. SnapshotsAgree' /\ AttemptsInPlan'
  BY <1>1, <1>2, SnapshotsStay DEF IInv, TypeOK, AttemptsInPlan, Attempting, Key
<1>4. RecordsHeld'
  BY DEF IInv, TypeOK, RecordsHeld, AttemptsInPlan, Attempting, Holds, Key
<1>5. ReceiptsTrue'
  BY DEF IInv, TypeOK, ReceiptsTrue, AttemptsInPlan, Attempting, Key
<1>6. ReachedInOrder' /\ CountedMeansPerformed'
  BY DEF IInv, TypeOK, ReachedInOrder, CountedMeansPerformed, AttemptsInPlan, Attempting, Key
<1>7. DispatchableIsAuthorized' /\ WakeRetained' /\ EventsKnown'
  BY DocumentsStay
<1> QED
  BY <1>1, <1>3, <1>4, <1>5, <1>6, <1>7 DEF IInv

LEMMA RaiseStep ==
    ASSUME IInv, NEW w \in Workers, Raise(w)
    PROVE  IInv'
<1> USE DEF Raise, Finish
<1>1. TypeOK'
  BY ActivatedRunType, BoundsAssumption DEF IInv, TypeOK, WorkerSteps, AttemptsInPlan, Attempting, Key, InterventionKinds
<1>2. NoNewReads /\ MovesOn
  BY DEF NoNewReads, MovesOn, IInv, TypeOK
<1>3. SnapshotsAgree' /\ AttemptsInPlan'
  BY <1>1, <1>2, SnapshotsStay DEF IInv, TypeOK, AttemptsInPlan, Attempting, Key
<1>4. RecordsHeld'
  BY DEF IInv, TypeOK, RecordsHeld, AttemptsInPlan, Attempting, Holds, Key
<1>5. ReceiptsTrue'
  BY DEF IInv, TypeOK, ReceiptsTrue, AttemptsInPlan, Attempting, Key
<1>6. ReachedInOrder' /\ CountedMeansPerformed'
  BY DEF IInv, TypeOK, ReachedInOrder, CountedMeansPerformed, AttemptsInPlan, Attempting, Key
<1>7. DispatchableIsAuthorized' /\ WakeRetained' /\ EventsKnown'
  BY DocumentsStay
<1> QED
  BY <1>1, <1>3, <1>4, <1>5, <1>6, <1>7 DEF IInv

LEMMA CrashStep ==
    ASSUME IInv, NEW w \in Workers, Crash(w)
    PROVE  IInv'
<1> USE DEF Crash, Finish, Fault
<1>1. TypeOK'
  BY ActivatedRunType, BoundsAssumption DEF IInv, TypeOK, WorkerSteps, AttemptsInPlan, Attempting, Key, InterventionKinds
<1>2. NoNewReads /\ MovesOn
  BY DEF NoNewReads, MovesOn, IInv, TypeOK
<1>3. SnapshotsAgree' /\ AttemptsInPlan'
  BY <1>1, <1>2, SnapshotsStay DEF IInv, TypeOK, AttemptsInPlan, Attempting, Key
<1>4. RecordsHeld'
  BY DEF IInv, TypeOK, RecordsHeld, AttemptsInPlan, Attempting, Holds, Key
<1>5. ReceiptsTrue'
  BY DEF IInv, TypeOK, ReceiptsTrue, AttemptsInPlan, Attempting, Key
<1>6. ReachedInOrder' /\ CountedMeansPerformed'
  BY DEF IInv, TypeOK, ReachedInOrder, CountedMeansPerformed, AttemptsInPlan, Attempting, Key
<1>7. DispatchableIsAuthorized' /\ WakeRetained' /\ EventsKnown'
  BY DocumentsStay
<1> QED
  BY <1>1, <1>3, <1>4, <1>5, <1>6, <1>7 DEF IInv

LEMMA StoreFailsStep ==
    ASSUME IInv, NEW w \in Workers, StoreFails(w)
    PROVE  IInv'
<1> USE DEF StoreFails, Goto, Finish, Fault
<1>1. TypeOK'
  BY ActivatedRunType, BoundsAssumption DEF IInv, TypeOK, WorkerSteps, AttemptsInPlan, Attempting, Key, InterventionKinds
<1>2. NoNewReads /\ MovesOn
  BY DEF NoNewReads, MovesOn, IInv, TypeOK
<1>3. SnapshotsAgree' /\ AttemptsInPlan'
  BY <1>1, <1>2, SnapshotsStay DEF IInv, TypeOK, AttemptsInPlan, Attempting, Key
<1>4. RecordsHeld'
  BY DEF IInv, TypeOK, RecordsHeld, AttemptsInPlan, Attempting, Holds, Key
<1>5. ReceiptsTrue'
  BY DEF IInv, TypeOK, ReceiptsTrue, AttemptsInPlan, Attempting, Key
<1>6. ReachedInOrder' /\ CountedMeansPerformed'
  BY DEF IInv, TypeOK, ReachedInOrder, CountedMeansPerformed, AttemptsInPlan, Attempting, Key
<1>7. DispatchableIsAuthorized' /\ WakeRetained' /\ EventsKnown'
  BY DocumentsStay
<1> QED
  BY <1>1, <1>3, <1>4, <1>5, <1>6, <1>7 DEF IInv
LEMMA RaiseConflictStep ==
    ASSUME IInv, NEW h \in Handlers, RaiseConflict(h)
    PROVE  IInv'
<1> USE DEF RaiseConflict, HandlerGoto
<1>1. TypeOK'
  BY BoundsAssumption DEF IInv, TypeOK, HandlerSteps, InterventionKinds
<1>2. NoNewReads /\ MovesOn
  BY DEF NoNewReads, MovesOn, IInv, TypeOK
<1>3. SnapshotsAgree' /\ AttemptsInPlan'
  BY <1>1, <1>2, SnapshotsStay DEF IInv, AttemptsInPlan, Attempting, Key
<1>4. RecordsHeld' /\ ReceiptsTrue'
  BY DEF IInv, RecordsHeld, ReceiptsTrue, Holds, Key
<1>5. ReachedInOrder' /\ CountedMeansPerformed'
  BY DEF IInv, ReachedInOrder, CountedMeansPerformed
<1>6. DispatchableIsAuthorized' /\ WakeRetained' /\ EventsKnown'
  BY DocumentsStay
<1> QED
  BY <1>1, <1>3, <1>4, <1>5, <1>6 DEF IInv

LEMMA HandlerFailsStep ==
    ASSUME IInv, NEW h \in Handlers, HandlerFails(h)
    PROVE  IInv'
<1> USE DEF HandlerFails, HandlerGoto, Fault
<1>1. TypeOK'
  BY BoundsAssumption DEF IInv, TypeOK, HandlerSteps, InterventionKinds
<1>2. NoNewReads /\ MovesOn
  BY DEF NoNewReads, MovesOn, IInv, TypeOK
<1>3. SnapshotsAgree' /\ AttemptsInPlan'
  BY <1>1, <1>2, SnapshotsStay DEF IInv, AttemptsInPlan, Attempting, Key
<1>4. RecordsHeld' /\ ReceiptsTrue'
  BY DEF IInv, RecordsHeld, ReceiptsTrue, Holds, Key
<1>5. ReachedInOrder' /\ CountedMeansPerformed'
  BY DEF IInv, ReachedInOrder, CountedMeansPerformed
<1>6. DispatchableIsAuthorized' /\ WakeRetained' /\ EventsKnown'
  BY DocumentsStay
<1> QED
  BY <1>1, <1>3, <1>4, <1>5, <1>6 DEF IInv

LEMMA DeleteStep ==
    ASSUME IInv, Delete
    PROVE  IInv'
<1> USE DEF Delete
<1>1. TypeOK'
  BY BoundsAssumption DEF IInv, TypeOK, HandlerSteps, InterventionKinds
<1>2. NoNewReads /\ MovesOn
  BY DEF NoNewReads, MovesOn, IInv, TypeOK
<1>3. SnapshotsAgree' /\ AttemptsInPlan'
  BY <1>1, <1>2, SnapshotsStay DEF IInv, AttemptsInPlan, Attempting, Key
<1>4. RecordsHeld' /\ ReceiptsTrue'
  BY DEF IInv, RecordsHeld, ReceiptsTrue, Holds, Key
<1>5. ReachedInOrder' /\ CountedMeansPerformed'
  BY DEF IInv, ReachedInOrder, CountedMeansPerformed
<1>6. DispatchableIsAuthorized' /\ WakeRetained' /\ EventsKnown'
  BY DocumentsStay
<1> QED
  BY <1>1, <1>3, <1>4, <1>5, <1>6 DEF IInv

LEMMA ApprovalExpiresStep ==
    ASSUME IInv, ApprovalExpires
    PROVE  IInv'
<1> USE DEF ApprovalExpires
<1>1. TypeOK'
  BY BoundsAssumption DEF IInv, TypeOK, HandlerSteps, InterventionKinds
<1>2. NoNewReads /\ MovesOn
  BY DEF NoNewReads, MovesOn, IInv, TypeOK
<1>3. SnapshotsAgree' /\ AttemptsInPlan'
  BY <1>1, <1>2, SnapshotsStay DEF IInv, AttemptsInPlan, Attempting, Key
<1>4. RecordsHeld' /\ ReceiptsTrue'
  BY DEF IInv, RecordsHeld, ReceiptsTrue, Holds, Key
<1>5. ReachedInOrder' /\ CountedMeansPerformed'
  BY DEF IInv, ReachedInOrder, CountedMeansPerformed
<1>6. DispatchableIsAuthorized' /\ WakeRetained' /\ EventsKnown'
  BY DocumentsStay
<1> QED
  BY <1>1, <1>3, <1>4, <1>5, <1>6 DEF IInv

-----------------------------------------------------------------------------
(***************************************************************************)
(* Steps that write the next version of the run document.                  *)
(***************************************************************************)

\* What the commits below establish.
DocumentsInOrder ==
    /\ MovesOn
    /\ run' \in Run /\ deleted' \in BOOLEAN /\ events' \subseteq Nat /\ intents' \subseteq Nat
    /\ ReachedInOrder' /\ CountedMeansPerformed'
    /\ DispatchableIsAuthorized' /\ WakeRetained' /\ EventsKnown'

LEMMA EventsGrow ==
    ASSUME IInv, run.version \in Nat, run'.version = run.version + 1,
           events' \subseteq events \cup {run'.version}
    PROVE  EventsKnown'
<1> SUFFICES ASSUME NEW n \in events' PROVE n \in 1..run'.version
  BY DEF EventsKnown
<1>1. n \in 1..run.version \/ n = run.version + 1
  BY DEF IInv, EventsKnown
<1> QED
  BY <1>1

\* What a commit has to show for the documents to stay in order.
LEMMA CommitKeeps ==
    ASSUME IInv, NEW next \in Run, NEW wake \in BOOLEAN, Commit(next, wake),
           next.version = run.version + 1,
           next.ordinal = run.ordinal,
           next.state \in Dispatchable => wake,
           next.state \in Dispatchable \cup {"DONE"} => ~next.revoked,
           next.state \in {"WAITING_EXTERNAL", "DONE"} => run.state = "WAITING_EXTERNAL",
           next.state = "DONE" => \E e \in EvidenceIds : evidence'[e] = "ACCEPTED",
           UNCHANGED reached
    PROVE  DocumentsInOrder
<1>1. /\ run.version \in Nat /\ run.ordinal \in Nat
      /\ next.version \in Nat
  BY LimitsAssumption DEF IInv, TypeOK, Run
<1>2. /\ run' = next
      /\ events' = events \cup {next.version}
      /\ intents' = IF wake THEN intents \cup {next.version} ELSE intents
      /\ deleted' = deleted
  BY DEF Commit
<1>3. MovesOn
  BY <1>1, <1>2 DEF MovesOn
<1>4. run' \in Run /\ deleted' \in BOOLEAN /\ events' \subseteq Nat /\ intents' \subseteq Nat
  BY <1>1, <1>2 DEF IInv, TypeOK
<1>5. ReachedInOrder' /\ CountedMeansPerformed'
  BY <1>2 DEF IInv, ReachedInOrder, CountedMeansPerformed
<1>6. DispatchableIsAuthorized'
  BY <1>2 DEF IInv, DispatchableIsAuthorized
<1>7. WakeRetained'
  BY <1>2 DEF WakeRetained
<1>8. EventsKnown'
  BY <1>1, <1>2, EventsGrow
<1> QED
  BY <1>3, <1>4, <1>5, <1>6, <1>7, <1>8 DEF DocumentsInOrder

\* A worker that finds its version unchanged read the document that stands.
LEMMA CurrentIsSnapshot ==
    ASSUME IInv, NEW w \in Workers, pc[w] # "idle", Current(snap[w].version)
    PROVE  snap[w] = run /\ run.state \in Dispatchable /\ ~run.revoked
BY DEF IInv, SnapshotsAgree, DispatchableIsAuthorized, Current

\* The runner's commits that do not count an action.
LEMMA RunnerCommit ==
    ASSUME IInv, NEW w \in Workers, pc[w] # "idle", Current(snap[w].version),
           NEW next \in {Retried(snap[w]), RecoveryExhausted(snap[w]),
                         BudgetExhausted(snap[w]), Denied(snap[w])},
           NEW wake \in BOOLEAN, Commit(next, wake),
           next.state \in Dispatchable => wake,
           UNCHANGED <<reached, evidence>>
    PROVE  DocumentsInOrder
<1>1. snap[w] = run /\ run.state \in Dispatchable /\ ~run.revoked /\ run \in Run
  BY CurrentIsSnapshot DEF IInv, TypeOK
<1>2. /\ next \in Run
      /\ next.version = run.version + 1
      /\ next.ordinal = run.ordinal
      /\ ~next.revoked
      /\ next.state \in {"WAITING_RETRY", "NEEDS_ATTENTION", "FAILED"}
  BY <1>1, RunnerRewrites
<1> QED
  BY <1>2, CommitKeeps

LEMMA PublishCommit ==
    ASSUME IInv, NEW w \in Workers, pc[w] = "publish", Current(snap[w].version),
           Commit(Sent(snap[w]), TRUE), UNCHANGED <<reached, evidence>>
    PROVE  DocumentsInOrder
<1>1. /\ snap[w] = run /\ ~run.revoked /\ run \in Run
      /\ run.ordinal \in Ordinals
      /\ run.ordinal \in reached
  BY CurrentIsSnapshot DEF IInv, TypeOK, AttemptsInPlan, Attempting, Key, ReceiptsTrue
<1>2. /\ run' \in Run
      /\ run'.version = run.version + 1
      /\ run'.ordinal = run.ordinal + 1
      /\ run'.state = "WAITING_EXTERNAL"
      /\ ~run'.revoked
      /\ events' = events \cup {run'.version}
      /\ intents' = intents \cup {run'.version}
      /\ deleted' = deleted
  BY <1>1, SentRewrites DEF Commit
<1>3. /\ run.version \in Nat /\ run.ordinal \in Nat \ {0}
      /\ run'.version \in Nat
  BY <1>1, <1>2 DEF Run, Ordinals
<1>4. MovesOn
  BY <1>2, <1>3 DEF MovesOn
<1>5. deleted' \in BOOLEAN /\ events' \subseteq Nat /\ intents' \subseteq Nat
  BY <1>2, <1>3 DEF IInv, TypeOK
<1>6. ReachedInOrder'
  BY <1>2, <1>3 DEF IInv, ReachedInOrder, Ordinals
<1>7. CountedMeansPerformed'
  BY <1>1, <1>2, <1>3 DEF IInv, CountedMeansPerformed, Ordinals
<1>8. DispatchableIsAuthorized' /\ WakeRetained'
  BY <1>2, <1>3 DEF DispatchableIsAuthorized, WakeRetained
<1>9. EventsKnown'
  BY <1>2, <1>3, EventsGrow
<1> QED
  BY <1>2, <1>4, <1>5, <1>6, <1>7, <1>8, <1>9 DEF DocumentsInOrder

\* After a commit a worker is done with its record, and no other worker moves.
LEMMA RecordsStay ==
    ASSUME IInv, UNCHANGED actionVars,
           \A w \in Workers : pc'[w] \in {"call", "settle", "unknown", "release", "publish"}
                => pc'[w] = pc[w] /\ snap'[w] = snap[w]
    PROVE  RecordsHeld' /\ ReceiptsTrue'
BY DEF IInv, RecordsHeld, ReceiptsTrue, Holds, Key

LEMMA PublishStep ==
    ASSUME IInv, NEW w \in Workers, Publish(w)
    PROVE  IInv'
<1>1. UNCHANGED storeVars \/ DocumentsInOrder
  BY PublishCommit DEF Publish
<1>2. /\ ReachedInOrder' /\ CountedMeansPerformed'
      /\ DispatchableIsAuthorized' /\ WakeRetained' /\ EventsKnown'
  BY <1>1, DocumentsStay DEF IInv, ReachedInOrder, CountedMeansPerformed, DocumentsInOrder, Publish
<1>3. NoNewReads /\ MovesOn
  BY <1>1 DEF NoNewReads, MovesOn, IInv, TypeOK, DocumentsInOrder, Publish, Goto, Finish
<1>4. TypeOK'
  BY <1>1, ActivatedRunType, BoundsAssumption DEF IInv, TypeOK, WorkerSteps, DocumentsInOrder, Publish, Goto, Finish
<1>5. SnapshotsAgree' /\ AttemptsInPlan'
  BY <1>3, <1>4, SnapshotsStay DEF IInv, TypeOK, AttemptsInPlan, Attempting, Key, Publish, Goto, Finish
<1>6. RecordsHeld' /\ ReceiptsTrue'
  BY RecordsStay DEF IInv, TypeOK, Publish, Goto, Finish
<1> QED
  BY <1>2, <1>4, <1>5, <1>6 DEF IInv

LEMMA RecoverStep ==
    ASSUME IInv, NEW w \in Workers, Recover(w)
    PROVE  IInv'
<1>1. UNCHANGED storeVars \/ DocumentsInOrder
  <2>1. snap[w] \in Run
    BY DEF IInv, TypeOK
  <2>2. CASE Current(snap[w].version) /\ Commit(Retried(snap[w]), TRUE)
    BY <2>2, RunnerCommit DEF Recover
  <2>3. CASE Current(snap[w].version) /\ Commit(RecoveryExhausted(snap[w]), FALSE)
    <3>1. RecoveryExhausted(snap[w]).state \notin Dispatchable
      BY <2>1, RunnerStates DEF Dispatchable
    <3> QED
      BY <2>3, <3>1, RunnerCommit DEF Recover
  <2> QED
    BY <2>2, <2>3 DEF Recover
<1>2. /\ ReachedInOrder' /\ CountedMeansPerformed'
      /\ DispatchableIsAuthorized' /\ WakeRetained' /\ EventsKnown'
  BY <1>1, DocumentsStay DEF IInv, ReachedInOrder, CountedMeansPerformed, DocumentsInOrder, Recover
<1>3. NoNewReads /\ MovesOn
  BY <1>1 DEF NoNewReads, MovesOn, IInv, TypeOK, DocumentsInOrder, Recover, Goto, Finish
<1>4. TypeOK'
  BY <1>1, ActivatedRunType, BoundsAssumption DEF IInv, TypeOK, WorkerSteps, DocumentsInOrder, Recover, Goto, Finish
<1>5. SnapshotsAgree' /\ AttemptsInPlan'
  BY <1>3, <1>4, SnapshotsStay DEF IInv, TypeOK, AttemptsInPlan, Attempting, Key, Recover, Goto, Finish
<1>6. RecordsHeld' /\ ReceiptsTrue'
  BY RecordsStay DEF IInv, TypeOK, Recover, Goto, Finish
<1> QED
  BY <1>2, <1>4, <1>5, <1>6 DEF IInv

LEMMA ExhaustStep ==
    ASSUME IInv, NEW w \in Workers, Exhaust(w)
    PROVE  IInv'
<1>1. UNCHANGED storeVars \/ DocumentsInOrder
  <2>1. BudgetExhausted(snap[w]).state \notin Dispatchable
    BY RunnerStates DEF IInv, TypeOK, Dispatchable
  <2> QED
    BY <2>1, RunnerCommit DEF Exhaust
<1>2. /\ ReachedInOrder' /\ CountedMeansPerformed'
      /\ DispatchableIsAuthorized' /\ WakeRetained' /\ EventsKnown'
  BY <1>1, DocumentsStay DEF IInv, ReachedInOrder, CountedMeansPerformed, DocumentsInOrder, Exhaust
<1>3. NoNewReads /\ MovesOn
  BY <1>1 DEF NoNewReads, MovesOn, IInv, TypeOK, DocumentsInOrder, Exhaust, Goto, Finish
<1>4. TypeOK'
  BY <1>1, ActivatedRunType, BoundsAssumption DEF IInv, TypeOK, WorkerSteps, DocumentsInOrder, Exhaust, Goto, Finish
<1>5. SnapshotsAgree' /\ AttemptsInPlan'
  BY <1>3, <1>4, SnapshotsStay DEF IInv, TypeOK, AttemptsInPlan, Attempting, Key, Exhaust, Goto, Finish
<1>6. RecordsHeld' /\ ReceiptsTrue'
  BY RecordsStay DEF IInv, TypeOK, Exhaust, Goto, Finish
<1> QED
  BY <1>2, <1>4, <1>5, <1>6 DEF IInv

LEMMA DenyStep ==
    ASSUME IInv, NEW w \in Workers, Deny(w)
    PROVE  IInv'
<1>1. UNCHANGED storeVars \/ DocumentsInOrder
  <2>1. Denied(snap[w]).state \notin Dispatchable
    BY RunnerStates DEF IInv, TypeOK, Dispatchable
  <2> QED
    BY <2>1, RunnerCommit DEF Deny
<1>2. /\ ReachedInOrder' /\ CountedMeansPerformed'
      /\ DispatchableIsAuthorized' /\ WakeRetained' /\ EventsKnown'
  BY <1>1, DocumentsStay DEF IInv, ReachedInOrder, CountedMeansPerformed, DocumentsInOrder, Deny
<1>3. NoNewReads /\ MovesOn
  BY <1>1 DEF NoNewReads, MovesOn, IInv, TypeOK, DocumentsInOrder, Deny, Finish
<1>4. TypeOK'
  BY <1>1, ActivatedRunType, BoundsAssumption DEF IInv, TypeOK, WorkerSteps, DocumentsInOrder, Deny, Finish
<1>5. SnapshotsAgree' /\ AttemptsInPlan'
  BY <1>3, <1>4, SnapshotsStay DEF IInv, TypeOK, AttemptsInPlan, Attempting, Key, Deny, Finish
<1>6. RecordsHeld' /\ ReceiptsTrue'
  BY RecordsStay DEF IInv, TypeOK, Deny, Finish
<1> QED
  BY <1>2, <1>4, <1>5, <1>6 DEF IInv
\* A lost acknowledgement leaves a reservation nobody works on, a receipt that is
\* about to be released, or a published version whose worker goes on to recover.
LEMMA StoreAckLostStep ==
    ASSUME IInv, NEW w \in Workers, StoreAckLost(w)
    PROVE  IInv'
<1>1. UNCHANGED storeVars \/ (pc[w] = "publish" /\ UNCHANGED record /\ DocumentsInOrder)
  BY PublishCommit DEF StoreAckLost
<1>2. /\ ReachedInOrder' /\ CountedMeansPerformed'
      /\ DispatchableIsAuthorized' /\ WakeRetained' /\ EventsKnown'
  BY <1>1, DocumentsStay
     DEF IInv, ReachedInOrder, CountedMeansPerformed, DocumentsInOrder, StoreAckLost
<1>3. NoNewReads /\ MovesOn
  BY <1>1 DEF NoNewReads, MovesOn, IInv, TypeOK, DocumentsInOrder, StoreAckLost, Goto, Finish
<1>4. TypeOK'
  <2>1. pc' \in [Workers -> WorkerSteps] /\ snap' \in [Workers -> Run]
    <3>1. Goto(w, "recover") \/ Goto(w, "release") \/ Finish(w)
      BY DEF StoreAckLost
    <3> QED
      BY <3>1, ActivatedRunType DEF IInv, TypeOK, WorkerSteps, Goto, Finish
  <2>4. faults' \in 0..MaxFaults /\ controls' = controls /\ bounces' = bounces
    BY BoundsAssumption DEF IInv, TypeOK, StoreAckLost, Fault
  <2>2. record' \in [Ordinals -> {"ABSENT", "RESERVED", "UNKNOWN", "SUCCEEDED"}]
    BY DEF IInv, TypeOK, AttemptsInPlan, Attempting, Key, StoreAckLost
  <2>3. run' \in Run /\ deleted' \in BOOLEAN /\ events' \subseteq Nat /\ intents' \subseteq Nat
    BY <1>1 DEF IInv, TypeOK, DocumentsInOrder
  <2> QED
    BY <2>1, <2>2, <2>3, <2>4 DEF IInv, TypeOK, StoreAckLost
<1>5. SnapshotsAgree' /\ AttemptsInPlan'
  <2>1. SnapshotsAgree' /\ \A x \in Workers : pc'[x] # "idle" => snap'[x].ordinal <= run'.ordinal
    BY <1>3, <1>4, SnapshotsStay
  <2>2. \A x \in Workers : Attempting(x)' => Attempting(x) /\ snap'[x] = snap[x]
    <3>1. /\ Goto(w, "recover") \/ Goto(w, "release") \/ Finish(w)
          /\ Attempting(w)
      BY DEF StoreAckLost, Attempting
    <3> QED
      BY <3>1 DEF Attempting, Goto, Finish, IInv, TypeOK
  <2> QED
    BY <2>1, <2>2 DEF IInv, AttemptsInPlan, Key
<1>6. RecordsHeld' /\ ReceiptsTrue'
  <2>1. CASE pc[w] = "reserve"
    BY <1>1, <2>1 DEF StoreAckLost, Goto, Finish, IInv, TypeOK, RecordsHeld, ReceiptsTrue,
                AttemptsInPlan, Attempting, Holds, Key
  <2>2. CASE pc[w] = "settle"
    BY <1>1, <2>2 DEF StoreAckLost, Goto, Finish, IInv, TypeOK, RecordsHeld, ReceiptsTrue,
                AttemptsInPlan, Attempting, Holds, Key
  <2>3. CASE pc[w] = "publish"
    BY <2>3, RecordsStay DEF StoreAckLost, Goto, IInv, TypeOK
  <2> QED
    BY <2>1, <2>2, <2>3 DEF StoreAckLost
<1> QED
  BY <1>2, <1>4, <1>5, <1>6 DEF IInv

\* What the steps of everybody but the workers leave alone.
LEMMA WorkersStay ==
    ASSUME IInv, TypeOK', NoNewReads, MovesOn, UNCHANGED <<workerVars, actionVars>>
    PROVE  SnapshotsAgree' /\ AttemptsInPlan' /\ RecordsHeld' /\ ReceiptsTrue'
<1>1. SnapshotsAgree' /\ AttemptsInPlan'
  BY SnapshotsStay DEF IInv, AttemptsInPlan, Attempting, Key
<1>2. RecordsHeld' /\ ReceiptsTrue'
  BY RecordsStay
<1> QED
  BY <1>1, <1>2

\* A candidate is stored and decides the case only in the version the handler read,
\* which was waiting for the counterparty.
LEMMA RecordEvidenceStep ==
    ASSUME IInv, NEW h \in Handlers, NEW e \in EvidenceIds, NEW verdict \in Verdicts,
           RecordEvidence(h, e, verdict)
    PROVE  IInv'
<1>1. CASE evidence[e] = NoVerdict /\ Current(hver[h])
  <2>1. /\ Commit(Evidenced(run, verdict), verdict = "INSUFFICIENT")
        /\ evidence' = [evidence EXCEPT ![e] = verdict]
        /\ hpc[h] = "record"
        /\ HandlerGoto(h, IF verdict = "CONFLICT" THEN "raise" ELSE "idle")
        /\ UNCHANGED <<approvalVars, actionVars, workerVars, interventions, boundVars>>
    BY <1>1 DEF RecordEvidence, Current
  <2>2. /\ run \in Run /\ run.state = "WAITING_EXTERNAL" /\ ~run.revoked
    BY <1>1, <2>1
       DEF IInv, TypeOK, SnapshotsAgree, DispatchableIsAuthorized, Current, Dispatchable
  <2>3. /\ Evidenced(run, verdict) \in Run
        /\ Evidenced(run, verdict).version = run.version + 1
        /\ Evidenced(run, verdict).state = StateFor(verdict)
        /\ Evidenced(run, verdict).ordinal = run.ordinal
        /\ Evidenced(run, verdict).revoked = run.revoked
    BY <2>2, EventRewrites
  <2>4. /\ StateFor(verdict) \in Dispatchable => verdict = "INSUFFICIENT"
        /\ StateFor(verdict) = "DONE" => verdict = "ACCEPTED"
    BY DEF StateFor, Verdicts, Dispatchable
  <2>5. StateFor(verdict) = "DONE" => evidence'[e] = "ACCEPTED"
    BY <2>1, <2>4 DEF IInv, TypeOK
  <2>6. (verdict = "INSUFFICIENT") \in BOOLEAN
    OBVIOUS
  <2>7. DocumentsInOrder
    BY <2>1, <2>2, <2>3, <2>4, <2>5, <2>6, CommitKeeps
  <2>8. NoNewReads /\ MovesOn
    BY <2>1, <2>7 DEF NoNewReads, DocumentsInOrder, HandlerGoto, IInv, TypeOK
  <2>9. TypeOK'
    <3>1. evidence' \in [EvidenceIds -> Verdicts \cup {NoVerdict}]
      BY <2>1 DEF IInv, TypeOK
    <3>2. hpc' \in [Handlers -> HandlerSteps] /\ hver' \in [Handlers -> Nat]
      BY <2>1 DEF IInv, TypeOK, HandlerGoto, HandlerSteps
    <3> QED
      BY <2>1, <2>7, <3>1, <3>2 DEF IInv, TypeOK, DocumentsInOrder
  <2> QED
    BY <2>1, <2>7, <2>8, <2>9, WorkersStay DEF IInv, DocumentsInOrder
<1>2. CASE ~(evidence[e] = NoVerdict /\ Current(hver[h]))
  <2>1. /\ hpc[h] = "record"
        /\ HandlerGoto(h, "raise") \/ HandlerGoto(h, "idle")
        /\ UNCHANGED <<storeVars, evidence, approvalVars, actionVars, workerVars, interventions,
                       boundVars>>
    BY <1>2 DEF RecordEvidence
  <2>2. NoNewReads /\ MovesOn
    BY <2>1 DEF NoNewReads, MovesOn, HandlerGoto, IInv, TypeOK
  <2>3. TypeOK'
    BY <2>1 DEF IInv, TypeOK, HandlerGoto, HandlerSteps
  <2>4. ReachedInOrder' /\ CountedMeansPerformed'
    BY <2>1 DEF IInv, ReachedInOrder, CountedMeansPerformed
  <2>5. DispatchableIsAuthorized' /\ WakeRetained' /\ EventsKnown'
    BY <2>1, DocumentsStay
  <2> QED
    BY <2>1, <2>2, <2>3, <2>4, <2>5, WorkersStay DEF IInv
<1> QED
  BY <1>1, <1>2

LEMMA ControlStep ==
    ASSUME IInv, NEW command \in Commands, Control(command)
    PROVE  IInv'
<1>1. /\ run \in Run
      /\ command = "RESUME" => ~run.revoked
      /\ Commit(Controlled(run, command), command = "RESUME")
  BY DEF IInv, TypeOK, Control, CommandAllowed
<1>2. /\ Controlled(run, command) \in Run
      /\ Controlled(run, command).version = run.version + 1
      /\ Controlled(run, command).ordinal = run.ordinal
      /\ Controlled(run, command).state \in Dispatchable =>
            command = "RESUME" /\ ~Controlled(run, command).revoked
      /\ Controlled(run, command).state \notin {"WAITING_EXTERNAL", "DONE"}
  BY <1>1, ControlRewrites DEF Dispatchable
<1>3. (command = "RESUME") \in BOOLEAN
  OBVIOUS
<1>4. DocumentsInOrder
  BY <1>1, <1>2, <1>3, CommitKeeps DEF Control
<1>5. NoNewReads /\ MovesOn
  BY <1>4 DEF NoNewReads, DocumentsInOrder, Control
<1>6. TypeOK'
  BY <1>4, BoundsAssumption DEF IInv, TypeOK, DocumentsInOrder, Control
<1> QED
  BY <1>4, <1>5, <1>6, WorkersStay DEF IInv, DocumentsInOrder, Control

\* A bounce writes no event and asks for no wake, and need not: it parks the case.
LEMMA BounceStep ==
    ASSUME IInv, Bounce
    PROVE  IInv'
<1>1. /\ run \in Run /\ run.version \in Nat
      /\ run' \in Run
      /\ run'.version = run.version + 1
      /\ run'.ordinal = run.ordinal
      /\ run'.state = "NEEDS_ATTENTION"
  <2>1. run \in Run
    BY DEF IInv, TypeOK
  <2>2. "ACCEPTED" \in Verdicts
    BY DEF Verdicts
  <2> QED
    BY <2>1, <2>2, RunFields, EventRewrites DEF Bounce
<1>2. NoNewReads /\ MovesOn
  BY <1>1, RunFields DEF NoNewReads, MovesOn, Bounce
<1>3. TypeOK'
  BY <1>1, BoundsAssumption DEF IInv, TypeOK, Bounce, InterventionKinds
<1>4. ReachedInOrder' /\ CountedMeansPerformed'
  BY <1>1 DEF IInv, ReachedInOrder, CountedMeansPerformed, Bounce
<1>5. DispatchableIsAuthorized' /\ WakeRetained'
  BY <1>1 DEF DispatchableIsAuthorized, WakeRetained, Dispatchable
<1>6. EventsKnown'
  BY <1>1, EventsGrow DEF Bounce
<1> QED
  BY <1>2, <1>3, <1>4, <1>5, <1>6, WorkersStay DEF IInv, Bounce

-----------------------------------------------------------------------------
(***************************************************************************)
(* The theorems.                                                           *)
(***************************************************************************)

LEMMA StutterStep == ASSUME IInv, UNCHANGED vars PROVE IInv'
BY DEF IInv, TypeOK, SnapshotsAgree, AttemptsInPlan, RecordsHeld, ReceiptsTrue, ReachedInOrder,
       CountedMeansPerformed, DispatchableIsAuthorized, WakeRetained, EventsKnown, vars,
       Attempting, Holds, Key

\* IInv is inductive.
LEMMA NextIInv == IInv /\ [Next]_vars => IInv'
<1> SUFFICES ASSUME IInv, [Next]_vars PROVE IInv'
  OBVIOUS
<1>1. ASSUME NEW w \in Workers, NEW v \in intents, Start(w, v) PROVE IInv'
  BY <1>1, StartStep
<1>2. ASSUME NEW w \in Workers, WorkerStep(w) PROVE IInv'
  BY <1>2, ReserveStep, CallAcceptedStep, CallRefusedStep, SettleStep, MarkUnknownStep,
     ReleaseStep, PublishStep, RecoverStep, ExhaustStep, DenyStep, RaiseStep
     DEF WorkerStep
<1>3. ASSUME NEW w \in Workers, WorkerFault(w) PROVE IInv'
  BY <1>3, CallOutcomeUnknownStep, CrashStep, StoreFailsStep, StoreAckLostStep DEF WorkerFault
<1>4. ASSUME NEW h \in Handlers, Receive(h) \/ HandlerStep(h) \/ HandlerFails(h) PROVE IInv'
  BY <1>4, ReceiveStep, RecordEvidenceStep, RaiseConflictStep, HandlerFailsStep DEF HandlerStep
<1>5. ASSUME NEW command \in Commands, Control(command) PROVE IInv'
  BY <1>5, ControlStep
<1>6. CASE Delete \/ Bounce \/ ApprovalExpires
  BY <1>6, DeleteStep, BounceStep, ApprovalExpiresStep
<1>7. CASE UNCHANGED vars
  BY <1>7, StutterStep
<1> QED
  BY <1>1, <1>2, <1>3, <1>4, <1>5, <1>6, <1>7 DEF Next

\* In every reachable state of every instance, the parts of IInv hold.
THEOREM Invariance == Spec => []IInv
<1>1. Init => IInv
  BY InitIInv
<1>2. IInv /\ [Next]_vars => IInv'
  BY NextIInv
<1> QED
  BY <1>1, <1>2, PTL DEF Spec

\* Documents, records and invocations stay within their types; in particular the
\* case never counts more actions than the plan allows.
THEOREM TypeCorrect == Spec => []TypeOK
<1>1. IInv => TypeOK
  BY DEF IInv
<1> QED
  BY <1>1, Invariance, PTL

\* The version check of every transaction makes what an invocation decided on the
\* document it rewrites.
THEOREM VersionsProtectDecisions == Spec => []SnapshotsAgree
<1>1. IInv => SnapshotsAgree
  BY DEF IInv
<1> QED
  BY <1>1, Invariance, PTL

\* The action records let one invocation at a time carry out a logical action.
THEOREM ActionsHaveOneOwner == Spec => []OneOwner
<1>1. IInv => OneOwner
  BY DEF IInv, RecordsHeld, OneOwner, Owns, Holds
<1> QED
  BY <1>1, Invariance, PTL

\* An action the case counts was performed by the provider.
THEOREM CountsAreTrue == Spec => []CountedMeansPerformed
<1>1. IInv => CountedMeansPerformed
  BY DEF IInv
<1> QED
  BY <1>1, Invariance, PTL

\* A case with work to do has a wake intent for its version.
THEOREM WakesAreRetained == Spec => []WakeRetained
<1>1. IInv => WakeRetained
  BY DEF IInv
<1> QED
  BY <1>1, Invariance, PTL

\* A case that is done was answered with an accepted candidate, after it asked.
THEOREM CompletionIsProven == Spec => []DoneMeansProven
<1>1. ASSUME IInv, run.state = "DONE"
      PROVE  (\E e \in EvidenceIds : evidence[e] = "ACCEPTED") /\ 1 \in reached
  <2>1. run.ordinal > 1 /\ \E e \in EvidenceIds : evidence[e] = "ACCEPTED"
    BY <1>1 DEF IInv, DispatchableIsAuthorized
  <2>2. 1 \in Ordinals
    BY LimitsAssumption DEF Ordinals
  <2> QED
    BY <1>1, <2>1, <2>2 DEF IInv, CountedMeansPerformed
<1>2. IInv => DoneMeansProven
  BY <1>1 DEF DoneMeansProven
<1> QED
  BY <1>2, Invariance, PTL

-----------------------------------------------------------------------------
(***************************************************************************)
(* Withdrawal is final.                                                    *)
(***************************************************************************)

\* After withdrawal nobody commits but the owner and the mail provider: a worker or
\* handler whose version is current holds a document with the approval standing.
LEMMA WithdrawnStep ==
    ASSUME IInv, Next, run.revoked
    PROVE  \/ run' = run
           \/ \E command \in Commands : Control(command)
           \/ Bounce
<1>1. ASSUME NEW w \in Workers, pc[w] # "idle" PROVE ~Current(snap[w].version)
  BY <1>1, CurrentIsSnapshot
<1>2. ASSUME NEW h \in Handlers, hpc[h] = "record" PROVE ~Current(hver[h])
  BY <1>2 DEF IInv, SnapshotsAgree, DispatchableIsAuthorized, Current, Dispatchable
<1>3. ASSUME NEW w \in Workers, WorkerStep(w) \/ WorkerFault(w) PROVE run' = run
  BY <1>1, <1>3
     DEF WorkerStep, Reserve, CallAccepted, CallRefused, Settle, MarkUnknown, Release, Publish,
         Recover, Exhaust, Deny, Raise, WorkerFault, CallOutcomeUnknown, Crash, StoreFails,
         StoreAckLost
<1>4. ASSUME NEW h \in Handlers, Receive(h) \/ HandlerStep(h) \/ HandlerFails(h)
      PROVE  run' = run
  BY <1>2, <1>4 DEF HandlerStep, Receive, RecordEvidence, RaiseConflict, HandlerFails
<1>5. ASSUME NEW w \in Workers, NEW v \in intents, Start(w, v) PROVE run' = run
  BY <1>5 DEF Start
<1>6. Delete \/ ApprovalExpires => run' = run
  BY DEF Delete, ApprovalExpires
<1> QED
  BY <1>3, <1>4, <1>5, <1>6 DEF Next

\* Once the owner withdrew authority, nothing counts, completes or revives the case.
THEOREM WithdrawalIsFinal == Spec => WithdrawnIsFinal
<1> DEFINE Final == /\ run'.revoked
                    /\ run'.ordinal = run.ordinal
                    /\ run'.state \notin Dispatchable \cup {"DONE"}
<1>1. ASSUME IInv, [Next]_vars, run.revoked PROVE Final
  <2>1. CASE run' = run
    BY <1>1, <2>1 DEF IInv, DispatchableIsAuthorized
  <2>2. ASSUME NEW command \in Commands, Control(command) PROVE Final
    <3>1. /\ run \in Run /\ command # "RESUME"
          /\ run' = Controlled(run, command)
      BY <1>1, <2>2 DEF IInv, TypeOK, Control, CommandAllowed, Commit
    <3>2. /\ run'.ordinal = run.ordinal
          /\ run'.revoked
          /\ run'.state \in {"NEEDS_ATTENTION", "CANCELLED", "EXPIRED"}
      BY <1>1, <3>1, ControlRewrites
    <3> QED
      BY <3>2 DEF Dispatchable
  <2>3. CASE Bounce
    <3>1. run \in Run /\ "ACCEPTED" \in Verdicts /\ run' = Bounced(run)
      BY <1>1, <2>3 DEF IInv, TypeOK, Bounce, Verdicts
    <3>2. run'.ordinal = run.ordinal /\ run'.revoked = run.revoked /\ run'.state = "NEEDS_ATTENTION"
      BY <3>1, EventRewrites
    <3> QED
      BY <1>1, <3>2 DEF Dispatchable
  <2>4. UNCHANGED vars => run' = run
    BY DEF vars
  <2> QED
    BY <1>1, <2>1, <2>2, <2>3, <2>4, WithdrawnStep
<1>2. IInv /\ [Next]_vars => [run.revoked => Final]_vars
  BY <1>1
<1> QED
  BY <1>2, Invariance, PTL DEF Spec, WithdrawnIsFinal

-----------------------------------------------------------------------------
(***************************************************************************)
(* The history.                                                            *)
(***************************************************************************)

\* Everyone's next version is told of in the same transaction, except a transport event's.
Tells == /\ run'.version = run.version + 1
         /\ events' = events \cup {run'.version}
         /\ bounces' = bounces
TellsNot == run'.version = run.version + 1 /\ events' = events /\ bounces' = bounces + 1

LEMMA CommitTells ==
    ASSUME NEW next, NEW wake, Commit(next, wake), next.version = run.version + 1,
           UNCHANGED bounces
    PROVE  Tells
BY DEF Commit, Tells

LEMMA WorkerTells ==
    ASSUME IInv, NEW w \in Workers, WorkerStep(w) \/ WorkerFault(w)
    PROVE  Tells \/ UNCHANGED <<run, events, bounces>>
<1>1. CASE Reserve(w) \/ CallAccepted(w) \/ CallRefused(w) \/ Settle(w) \/ MarkUnknown(w)
           \/ Release(w) \/ Raise(w) \/ CallOutcomeUnknown(w) \/ Crash(w) \/ StoreFails(w)
  BY <1>1 DEF Reserve, CallAccepted, CallRefused, Settle, MarkUnknown, Release, Raise,
              CallOutcomeUnknown, Crash, StoreFails, Fault
<1>2. CASE Publish(w) \/ StoreAckLost(w)
  <2>1. /\ UNCHANGED bounces
        /\ \/ UNCHANGED <<run, events>>
           \/ pc[w] = "publish" /\ Current(snap[w].version) /\ Commit(Sent(snap[w]), TRUE)
    BY <1>2 DEF Publish, StoreAckLost, Fault
  <2>2. ASSUME pc[w] = "publish", Current(snap[w].version)
        PROVE  Sent(snap[w]).version = run.version + 1
    <3>1. snap[w] = run /\ run \in Run /\ run.ordinal \in Ordinals
      BY <2>2, CurrentIsSnapshot DEF IInv, TypeOK, AttemptsInPlan, Attempting, Key
    <3> QED
      BY <3>1, SentRewrites
  <2> QED
    BY <2>1, <2>2, CommitTells
<1>3. CASE Recover(w) \/ Exhaust(w) \/ Deny(w)
  <2>1. pc[w] # "idle" /\ UNCHANGED bounces
    BY <1>3 DEF Recover, Exhaust, Deny
  <2>2. \/ UNCHANGED <<run, events>>
        \/ /\ Current(snap[w].version)
           /\ \/ Commit(Retried(snap[w]), TRUE)
              \/ Commit(RecoveryExhausted(snap[w]), FALSE)
              \/ Commit(BudgetExhausted(snap[w]), FALSE)
              \/ Commit(Denied(snap[w]), FALSE)
    BY <1>3 DEF Recover, Exhaust, Deny
  <2>3. ASSUME Current(snap[w].version),
               NEW next \in {Retried(snap[w]), RecoveryExhausted(snap[w]),
                             BudgetExhausted(snap[w]), Denied(snap[w])}
        PROVE  next.version = run.version + 1
    <3>1. snap[w] = run /\ run \in Run
      BY <2>1, <2>3, CurrentIsSnapshot DEF IInv, TypeOK
    <3> QED
      BY <3>1, RunnerRewrites
  <2> QED
    BY <2>1, <2>2, <2>3, CommitTells
<1> QED
  BY <1>1, <1>2, <1>3 DEF WorkerStep, WorkerFault

LEMMA HandlerTells ==
    ASSUME IInv, NEW h \in Handlers, Receive(h) \/ HandlerStep(h) \/ HandlerFails(h)
    PROVE  Tells \/ UNCHANGED <<run, events, bounces>>
<1>1. CASE Receive(h) \/ RaiseConflict(h) \/ HandlerFails(h)
  BY <1>1 DEF Receive, RaiseConflict, HandlerFails, Fault
<1>2. ASSUME NEW e \in EvidenceIds, NEW verdict \in Verdicts, RecordEvidence(h, e, verdict)
      PROVE  Tells \/ UNCHANGED <<run, events, bounces>>
  <2>1. /\ UNCHANGED bounces
        /\ \/ UNCHANGED <<run, events>>
           \/ Commit(Evidenced(run, verdict), verdict = "INSUFFICIENT")
    BY <1>2 DEF RecordEvidence
  <2>2. run \in Run
    BY DEF IInv, TypeOK
  <2>3. Evidenced(run, verdict).version = run.version + 1
    BY <2>2, EventRewrites
  <2> QED
    BY <2>1, <2>3, CommitTells
<1> QED
  BY <1>1, <1>2 DEF HandlerStep

LEMMA VersionsAreTold ==
    ASSUME IInv, [Next]_vars
    PROVE  Tells \/ TellsNot \/ UNCHANGED <<run, events, bounces>>
<1>1. ASSUME NEW w \in Workers, NEW v \in intents, Start(w, v)
      PROVE  UNCHANGED <<run, events, bounces>>
  BY <1>1 DEF Start
<1>2. ASSUME NEW command \in Commands, Control(command) PROVE Tells
  <2>1. UNCHANGED bounces /\ \E wake : Commit(Controlled(run, command), wake)
    BY <1>2 DEF Control
  <2>2. Controlled(run, command).version = run.version + 1
    BY <1>2, ControlRewrites DEF IInv, TypeOK, Control
  <2> QED
    BY <2>1, <2>2, CommitTells
<1>3. CASE Bounce
  <2>1. run \in Run /\ "ACCEPTED" \in Verdicts
    BY DEF IInv, TypeOK, Verdicts
  <2>2. Bounced(run).version = run.version + 1
    BY <2>1, EventRewrites
  <2> QED
    BY <1>3, <2>2 DEF Bounce, TellsNot
<1>4. CASE Delete \/ ApprovalExpires \/ UNCHANGED vars
  BY <1>4 DEF Delete, ApprovalExpires, vars
<1> QED
  BY <1>1, <1>2, <1>3, <1>4, WorkerTells, HandlerTells DEF Next

LEMMA NextVersionTold ==
    ASSUME NEW n \in Nat, NEW told, told \subseteq 1..n
    PROVE  /\ (1..(n + 1)) \ (told \cup {n + 1}) = (1..n) \ told
           /\ told \cup {n + 1} \subseteq 1..(n + 1)
<1>1. 1..(n + 1) = (1..n) \cup {n + 1} /\ n + 1 \notin 1..n
  OBVIOUS
<1> QED
  BY <1>1

LEMMA HistoryStep ==
    ASSUME IInv, [Next]_vars, HistoryAccountsForVersions
    PROVE  HistoryAccountsForVersions'
<1> DEFINE v == run.version
           untold == (1..v) \ events
<1>1. v \in Nat /\ events \subseteq 1..v /\ Cardinality(untold) = bounces /\ bounces \in Nat
  BY LimitsAssumption, BoundsAssumption DEF IInv, TypeOK, Run, HistoryAccountsForVersions
<1>2. IsFiniteSet(untold)
  <2>1. IsFiniteSet(1..v)
    BY <1>1, FS_Interval
  <2> QED
    BY <2>1, FS_Subset
<1>3. v + 1 \notin untold /\ v + 1 \notin events
  BY <1>1
<1>4. CASE UNCHANGED <<run, events, bounces>>
  BY <1>4 DEF HistoryAccountsForVersions
<1>5. CASE Tells
  <2>1. run'.version = v + 1 /\ events' = events \cup {v + 1} /\ bounces' = bounces
    BY <1>5 DEF Tells
  <2>2. (1..(v + 1)) \ (events \cup {v + 1}) = untold /\ events \cup {v + 1} \subseteq 1..(v + 1)
    BY <1>1, NextVersionTold
  <2>3. (1..run'.version) \ events' = untold /\ events' \subseteq 1..run'.version
    BY <2>1, <2>2
  <2>4. Cardinality((1..run'.version) \ events') = bounces'
    BY <1>1, <2>1, <2>3
  <2> QED
    BY <2>3, <2>4 DEF HistoryAccountsForVersions
<1>6. CASE TellsNot
  <2>1. (1..run'.version) \ events' = untold \cup {v + 1} /\ events' \subseteq 1..run'.version
    BY <1>1, <1>3, <1>6 DEF TellsNot
  <2>2. Cardinality(untold \cup {v + 1}) = bounces + 1
    BY <1>1, <1>2, <1>3, FS_AddElement
  <2> QED
    BY <1>6, <2>1, <2>2 DEF TellsNot, HistoryAccountsForVersions
<1> QED
  BY <1>4, <1>5, <1>6, VersionsAreTold

\* The timeline tells of every version once, except of those that transport events wrote
\* (recordTransportEvent writes no event).
THEOREM HistoryIsComplete == Spec => []HistoryAccountsForVersions
<1>1. Init => HistoryAccountsForVersions
  <2>1. ASSUME Init PROVE (1..run.version) \ events = {} /\ events \subseteq 1..run.version
                          /\ bounces = 0
    BY <2>1 DEF Init, ActivatedRun
  <2> QED
    BY <2>1, FS_EmptySet DEF HistoryAccountsForVersions
<1>2. IInv /\ HistoryAccountsForVersions /\ [Next]_vars => HistoryAccountsForVersions'
  BY HistoryStep
<1> QED
  BY <1>1, <1>2, Invariance, PTL DEF Spec

-----------------------------------------------------------------------------
(***************************************************************************)
(* FollowThrough implements CaseLifecycle.                                 *)
(***************************************************************************)

\* What CaseLifecycle sees of a state, as in the INSTANCE of FollowThrough.
Phase == IF deleted THEN "Gone" ELSE PhaseOf(run.state)

LEMMA PhaseValues ==
    /\ PhaseOf("READY") = "Live"
    /\ PhaseOf("WAITING_RETRY") = "Live"
    /\ PhaseOf("WAITING_EXTERNAL") = "Live"
    /\ PhaseOf("NEEDS_ATTENTION") = "Attention"
    /\ PhaseOf("DONE") = "Done"
    /\ PhaseOf("CANCELLED") = "Cancelled"
    /\ PhaseOf("EXPIRED") = "Expired"
    /\ PhaseOf("FAILED") = "Failed"
BY DEF PhaseOf, Dispatchable

LEMMA LiveIsDispatchable ==
    ASSUME NEW s \in RunStates
    PROVE  /\ s \in Dispatchable <=> PhaseOf(s) = "Live"
           /\ PhaseOf(s) # "Gone"
           /\ s # "DONE" <=> PhaseOf(s) # "Done"
BY DEF PhaseOf, Dispatchable, RunStates

LEMMA RefinesInit == Init => Lifecycle!Init
<1> SUFFICES ASSUME Init PROVE Lifecycle!Init
  OBVIOUS
<1>1. /\ ~deleted /\ run.state = "READY" /\ run.ordinal = 1 /\ run.revoked = FALSE
      /\ reached = {}
  BY DEF Init, ActivatedRun
<1> QED
  BY <1>1, PhaseValues DEF Lifecycle!Init

\* A step that keeps what CaseLifecycle sees stutters.
LEMMA Stutters ==
    ASSUME UNCHANGED <<run, deleted, reached>>
    PROVE  UNCHANGED Lifecycle!vars
BY DEF Lifecycle!vars, PhaseOf, Ordinals

\* A step of the case that moves only its phase.
LEMMA PhaseStep ==
    ASSUME UNCHANGED <<deleted, reached>>, ~deleted,
           run'.ordinal = run.ordinal, run'.revoked = run.revoked,
           NEW p, PhaseOf(run'.state) = p
    PROVE  /\ Lifecycle!MoveTo(p)
           /\ PhaseOf(run.state) = p => UNCHANGED Lifecycle!vars
BY DEF Lifecycle!MoveTo, Lifecycle!vars, Ordinals

-----------------------------------------------------------------------------
\* The provider acts on a request: the action under way is acted on.
LEMMA ReachesActs ==
    ASSUME IInv, NEW w \in Workers, pc[w] = "call", Reaches(Key(w)), UNCHANGED <<run, deleted>>
    PROVE  \E k \in 1..MaxLogicalSends : Lifecycle!Act(k)
<1>1. /\ Key(w) \in 1..MaxLogicalSends
      /\ Key(w) <= run.ordinal
      /\ run.ordinal \in Int /\ Key(w) \in Int
      /\ reached \subseteq 1..MaxLogicalSends
  BY LimitsAssumption DEF IInv, TypeOK, Run, AttemptsInPlan, Attempting, Key, Ordinals
<1>2. Lifecycle!Act(Key(w))
  BY <1>1 DEF Lifecycle!Act, Reaches
<1> QED
  BY <1>1, <1>2

\* Publishing a receipt counts the action under way.
LEMMA PublishCounts ==
    ASSUME IInv, NEW w \in Workers, pc[w] = "publish", Current(snap[w].version),
           Commit(Sent(snap[w]), TRUE), UNCHANGED reached
    PROVE  Lifecycle!Count
<1>1. /\ snap[w] = run /\ ~run.revoked /\ run \in Run
      /\ run.state \in Dispatchable
      /\ run.ordinal \in Ordinals
      /\ run.ordinal \in reached
  BY CurrentIsSnapshot DEF IInv, TypeOK, AttemptsInPlan, Attempting, Key, ReceiptsTrue
<1>2. /\ run'.ordinal = run.ordinal + 1
      /\ run'.state = "WAITING_EXTERNAL"
      /\ run'.revoked = run.revoked
      /\ ~deleted /\ deleted' = deleted
  BY <1>1, SentRewrites DEF Commit, Current
<1>3. PhaseOf(run.state) = "Live" /\ PhaseOf(run'.state) = "Live"
  BY <1>1, <1>2, PhaseValues DEF Dispatchable
<1>4. run.ordinal \in Int
  BY <1>1 DEF Ordinals
<1> QED
  BY <1>1, <1>2, <1>3, <1>4 DEF Lifecycle!Count, Ordinals

\* A failed attempt leaves the case live, asks the owner, or fails the case.
LEMMA RunnerMoves ==
    ASSUME IInv, NEW w \in Workers, pc[w] # "idle", Current(snap[w].version),
           NEW next \in {Retried(snap[w]), RecoveryExhausted(snap[w]),
                         BudgetExhausted(snap[w]), Denied(snap[w])},
           NEW wake, Commit(next, wake), UNCHANGED reached
    PROVE  Lifecycle!Next \/ UNCHANGED Lifecycle!vars
<1>1. snap[w] = run /\ run \in Run /\ PhaseOf(run.state) = "Live"
  BY CurrentIsSnapshot, PhaseValues DEF IInv, TypeOK, Dispatchable
<1>2. /\ run'.ordinal = run.ordinal
      /\ run'.revoked = run.revoked
      /\ run'.state \in {"WAITING_RETRY", "NEEDS_ATTENTION", "FAILED"}
      /\ ~deleted /\ deleted' = deleted
  BY <1>1, RunnerRewrites DEF Commit, Current
<1>3. CASE run'.state = "WAITING_RETRY"
  BY <1>1, <1>2, <1>3, PhaseStep, PhaseValues
<1>4. CASE run'.state = "NEEDS_ATTENTION"
  BY <1>1, <1>2, <1>4, PhaseStep, PhaseValues DEF Lifecycle!Next, Lifecycle!Ask
<1>5. CASE run'.state = "FAILED"
  BY <1>1, <1>2, <1>5, PhaseStep, PhaseValues DEF Lifecycle!Next, Lifecycle!Fail
<1> QED
  BY <1>2, <1>3, <1>4, <1>5

\* Evidence completes a live case that has asked, or puts it before the owner.
LEMMA EvidenceMoves ==
    ASSUME IInv, NEW h \in Handlers, hpc[h] = "record", Current(hver[h]), NEW verdict \in Verdicts,
           NEW wake, Commit(Evidenced(run, verdict), wake), UNCHANGED reached
    PROVE  Lifecycle!Next \/ UNCHANGED Lifecycle!vars
<1>1. /\ run \in Run /\ run.state = "WAITING_EXTERNAL" /\ PhaseOf(run.state) = "Live"
      /\ run.ordinal > 1 /\ run.ordinal \in Int
  BY PhaseValues, LimitsAssumption
     DEF IInv, TypeOK, Run, SnapshotsAgree, DispatchableIsAuthorized, Current
<1>2. /\ run'.ordinal = run.ordinal
      /\ run'.revoked = run.revoked
      /\ run'.state = StateFor(verdict)
      /\ ~deleted /\ deleted' = deleted
  BY <1>1, EventRewrites DEF Commit, Current
<1>3. CASE verdict = "INSUFFICIENT"
  BY <1>1, <1>2, <1>3, PhaseStep, PhaseValues DEF StateFor
<1>4. CASE verdict = "CONFLICT"
  BY <1>1, <1>2, <1>4, PhaseStep, PhaseValues DEF StateFor, Lifecycle!Next, Lifecycle!Ask
<1>5. CASE verdict = "ACCEPTED"
  <2>1. run'.state = "DONE" /\ run.ordinal - 1 > 0
    BY <1>1, <1>2, <1>5 DEF StateFor
  <2> QED
    BY <1>1, <1>2, <2>1, PhaseStep, PhaseValues DEF Lifecycle!Next, Lifecycle!Complete
<1> QED
  BY <1>3, <1>4, <1>5 DEF Verdicts

\* The owner's commands withdraw, reopen or resume.
LEMMA ControlMoves ==
    ASSUME IInv, NEW command \in Commands, Control(command)
    PROVE  Lifecycle!Next \/ UNCHANGED Lifecycle!vars
<1>1. /\ run \in Run /\ run' = Controlled(run, command)
      /\ ~deleted /\ deleted' = deleted
      /\ reached' = reached
      /\ CommandAllowed(run, expired, command)
      /\ run.state \in RunStates /\ run.revoked \in BOOLEAN
  BY RunFields DEF IInv, TypeOK, Control, Commit
<1>2. run'.ordinal = run.ordinal
  BY <1>1, ControlRewrites
<1>3. CASE command = "REOPEN"
  <2>1. run.state = "DONE" /\ run'.state = "NEEDS_ATTENTION" /\ run'.revoked = run.revoked
    BY <1>1, <1>3, ControlRewrites DEF CommandAllowed
  <2> QED
    BY <1>1, <1>2, <2>1, PhaseStep, PhaseValues DEF Lifecycle!Next, Lifecycle!Reopen
<1>4. CASE command = "RESUME"
  <2>1. run.state = "NEEDS_ATTENTION" /\ run'.state = "READY"
    BY <1>1, <1>4, ControlRewrites DEF CommandAllowed
  <2>2. ~run.revoked /\ run'.revoked = run.revoked
    BY <1>1, <1>4, ControlRewrites DEF CommandAllowed
  <2> QED
    BY <1>1, <1>2, <2>1, <2>2, PhaseStep, PhaseValues DEF Lifecycle!Next, Lifecycle!Resume
<1>5. CASE command \notin {"REOPEN", "RESUME"}
  <2>1. run.state # "DONE"
    BY <1>1, <1>5 DEF CommandAllowed, Commands
  <2>2. /\ run'.state \in {"CANCELLED", "EXPIRED"}
        /\ run'.revoked
    BY <1>1, <1>5, ControlRewrites
  <2>3. PhaseOf(run.state) \notin {"Done", "Gone"}
    BY <1>1, <2>1, LiveIsDispatchable
  <2>4. PhaseOf(run'.state) \in {"Cancelled", "Expired"}
    BY <2>2, PhaseValues
  <2>5. Lifecycle!Withdraw
    BY <1>1, <1>2, <2>2, <2>3, <2>4 DEF Lifecycle!Withdraw, Ordinals
  <2> QED
    BY <2>5 DEF Lifecycle!Next
<1> QED
  BY <1>3, <1>4, <1>5

\* A failed route puts the case before the owner, also when it failed or expired.
LEMMA BounceMoves ==
    ASSUME IInv, Bounce
    PROVE  Lifecycle!Next \/ UNCHANGED Lifecycle!vars
<1>1. /\ run \in Run /\ "ACCEPTED" \in Verdicts /\ run' = Bounced(run)
      /\ ~deleted /\ deleted' = deleted
      /\ reached' = reached
  BY DEF IInv, TypeOK, Bounce, Verdicts
<1>2. /\ run'.ordinal = run.ordinal
      /\ run'.revoked = run.revoked
      /\ run'.state = "NEEDS_ATTENTION"
  BY <1>1, EventRewrites
<1>3. PhaseOf(run.state) \in {"Live", "Expired", "Failed", "Attention"}
  BY <1>1, PhaseValues DEF Bounce, Run, RunStates
<1>4. PhaseOf(run'.state) = "Attention"
  BY <1>2, PhaseValues
<1> QED
  BY <1>1, <1>2, <1>3, <1>4, PhaseStep DEF Lifecycle!Next, Lifecycle!Ask

LEMMA DeleteMoves ==
    ASSUME IInv, Delete
    PROVE  Lifecycle!Next
<1>1. /\ ~deleted /\ deleted' /\ run' = run /\ reached' = reached
      /\ PhaseOf(run.state) # "Gone"
  BY LiveIsDispatchable, RunFields DEF IInv, TypeOK, Delete
<1> QED
  BY <1>1 DEF Lifecycle!Next, Lifecycle!Erase, Lifecycle!MoveTo, Ordinals

-----------------------------------------------------------------------------
\* Workers: the call acts, a publication counts, the other commits move the phase,
\* and nothing else shows.
LEMMA WorkerMoves ==
    ASSUME IInv, NEW w \in Workers, WorkerStep(w) \/ WorkerFault(w)
    PROVE  Lifecycle!Next \/ UNCHANGED Lifecycle!vars
<1>1. CASE Reserve(w) \/ CallRefused(w) \/ Settle(w) \/ MarkUnknown(w) \/ Release(w)
           \/ Raise(w) \/ Crash(w) \/ StoreFails(w)
  <2>1. UNCHANGED <<run, deleted, reached>>
    BY <1>1 DEF Reserve, CallRefused, Settle, MarkUnknown, Release, Raise, Crash, StoreFails
  <2> QED
    BY <2>1, Stutters
<1>2. CASE CallAccepted(w)
  BY <1>2, ReachesActs DEF CallAccepted, Lifecycle!Next
<1>3. CASE CallOutcomeUnknown(w)
  <2>1. CASE Reaches(Key(w))
    BY <1>3, <2>1, ReachesActs DEF CallOutcomeUnknown, Lifecycle!Next
  <2>2. CASE UNCHANGED reached
    BY <1>3, <2>2, Stutters DEF CallOutcomeUnknown
  <2> QED
    BY <1>3, <2>1, <2>2 DEF CallOutcomeUnknown
<1>4. CASE Publish(w) \/ StoreAckLost(w)
  <2>1. \/ UNCHANGED <<run, deleted, reached>>
        \/ /\ pc[w] = "publish"
           /\ Current(snap[w].version)
           /\ Commit(Sent(snap[w]), TRUE)
           /\ UNCHANGED reached
    BY <1>4 DEF Publish, StoreAckLost
  <2> QED
    BY <2>1, Stutters, PublishCounts DEF Lifecycle!Next
<1>5. CASE Recover(w) \/ Exhaust(w) \/ Deny(w)
  <2>1. pc[w] # "idle" /\ UNCHANGED reached
    BY <1>5 DEF Recover, Exhaust, Deny
  <2>2. \/ UNCHANGED <<run, deleted>>
        \/ /\ Current(snap[w].version)
           /\ \/ Commit(Retried(snap[w]), TRUE)
              \/ Commit(RecoveryExhausted(snap[w]), FALSE)
              \/ Commit(BudgetExhausted(snap[w]), FALSE)
              \/ Commit(Denied(snap[w]), FALSE)
    BY <1>5 DEF Recover, Exhaust, Deny
  <2> QED
    BY <2>1, <2>2, Stutters, RunnerMoves
<1> QED
  BY <1>1, <1>2, <1>3, <1>4, <1>5 DEF WorkerStep, WorkerFault

LEMMA HandlerMoves ==
    ASSUME IInv, NEW h \in Handlers, Receive(h) \/ HandlerStep(h) \/ HandlerFails(h)
    PROVE  Lifecycle!Next \/ UNCHANGED Lifecycle!vars
<1>1. CASE Receive(h) \/ RaiseConflict(h) \/ HandlerFails(h)
  <2>1. UNCHANGED <<run, deleted, reached>>
    BY <1>1 DEF Receive, RaiseConflict, HandlerFails
  <2> QED
    BY <2>1, Stutters
<1>2. ASSUME NEW e \in EvidenceIds, NEW verdict \in Verdicts, RecordEvidence(h, e, verdict)
      PROVE  Lifecycle!Next \/ UNCHANGED Lifecycle!vars
  <2>1. /\ hpc[h] = "record" /\ UNCHANGED reached
        /\ \/ UNCHANGED <<run, deleted>>
           \/ /\ Current(hver[h])
              /\ Commit(Evidenced(run, verdict), verdict = "INSUFFICIENT")
    BY <1>2 DEF RecordEvidence
  <2> QED
    BY <2>1, Stutters, EvidenceMoves
<1> QED
  BY <1>1, <1>2 DEF HandlerStep

\* Every step maps to a step of CaseLifecycle or to a stutter.
LEMMA RefinesNext ==
    IInv /\ [Next]_vars => [Lifecycle!Next]_(Lifecycle!vars)
<1> SUFFICES ASSUME IInv, [Next]_vars
             PROVE  Lifecycle!Next \/ UNCHANGED Lifecycle!vars
  OBVIOUS
<1>1. ASSUME NEW w \in Workers, NEW v \in intents, Start(w, v)
      PROVE  UNCHANGED Lifecycle!vars
  BY <1>1, Stutters DEF Start
<1>2. CASE ApprovalExpires
  BY <1>2, Stutters DEF ApprovalExpires
<1>3. CASE UNCHANGED vars
  BY <1>3, Stutters DEF vars
<1> QED
  BY <1>1, <1>2, <1>3, WorkerMoves, HandlerMoves, ControlMoves, BounceMoves, DeleteMoves DEF Next

\* Workers, handlers and documents together keep the promise of CaseLifecycle.
THEOREM ImplementsLifecycle == Spec => KeepsLifecycle
<1>1. Init => Lifecycle!Init
  BY RefinesInit
<1>2. IInv /\ [Next]_vars => [Lifecycle!Next]_(Lifecycle!vars)
  BY RefinesNext
<1> QED
  BY <1>1, <1>2, Invariance, PTL DEF Spec, KeepsLifecycle, Lifecycle!Spec

-----------------------------------------------------------------------------
(***************************************************************************)
(* What CaseLifecycle promises, and FollowThrough with it.                 *)
(***************************************************************************)

\* Withdrawal and the actions counted so far are what keeps a live case legitimate.
LEMMA LifecycleStep ==
    /\ Lifecycle!LifecycleTypeOK /\ Lifecycle!LiveUnderAuthority
    /\ [Lifecycle!Next]_(Lifecycle!vars)
    => Lifecycle!LifecycleTypeOK' /\ Lifecycle!LiveUnderAuthority'
<1> DEFINE phase == Phase
           performed == run.ordinal - 1
           acted == reached
           authority == ~run.revoked
           Kept == Lifecycle!LifecycleTypeOK' /\ Lifecycle!LiveUnderAuthority'
<1> SUFFICES ASSUME Lifecycle!LifecycleTypeOK, Lifecycle!LiveUnderAuthority,
                    [Lifecycle!Next]_(Lifecycle!vars)
             PROVE  Kept
  OBVIOUS
<1>0. MaxLogicalSends \in Nat
  BY LimitsAssumption
<1>1. /\ phase \in Lifecycle!Phases /\ performed \in 0..MaxLogicalSends
      /\ acted \subseteq 1..MaxLogicalSends
      /\ phase = "Live" => authority
      /\ 1..performed \subseteq acted /\ acted \subseteq 1..(performed + 1)
  BY DEF Lifecycle!LifecycleTypeOK, Lifecycle!LiveUnderAuthority, Phase
<1>2. ASSUME phase' \in Lifecycle!Phases, performed' \in 0..MaxLogicalSends,
             acted' \subseteq 1..MaxLogicalSends,
             phase' = "Live" => authority',
             1..performed' \subseteq acted', acted' \subseteq 1..(performed' + 1)
      PROVE  Kept
  BY <1>2 DEF Lifecycle!LifecycleTypeOK, Lifecycle!LiveUnderAuthority, Phase
<1>3. ASSUME NEW k \in 1..MaxLogicalSends, Lifecycle!Act(k) PROVE Kept
  <2>1. /\ k <= performed + 1 /\ acted' = acted \cup {k}
        /\ phase' = phase /\ performed' = performed /\ authority' = authority
    BY <1>3 DEF Lifecycle!Act, Phase
  <2> HIDE DEF phase, performed, acted, authority, Kept
  <2> QED
    BY <1>0, <1>1, <1>2, <2>1
<1>4. CASE Lifecycle!Count
  <2>1. /\ phase = "Live" /\ performed + 1 \in acted /\ performed' = performed + 1
        /\ phase' = phase /\ acted' = acted /\ authority' = authority
    BY <1>4 DEF Lifecycle!Count, Phase
  <2> HIDE DEF phase, performed, acted, authority, Kept
  <2> QED
    BY <1>0, <1>1, <1>2, <2>1
<1>5. CASE Lifecycle!Complete \/ Lifecycle!Fail \/ Lifecycle!Ask \/ Lifecycle!Reopen
           \/ Lifecycle!Resume \/ Lifecycle!Erase
  <2>1. /\ phase' \in Lifecycle!Phases /\ (phase' = "Live" => authority)
        /\ performed' = performed /\ acted' = acted /\ authority' = authority
    BY <1>5
       DEF Lifecycle!Complete, Lifecycle!Fail, Lifecycle!Ask, Lifecycle!Reopen, Lifecycle!Resume,
           Lifecycle!Erase, Lifecycle!MoveTo, Lifecycle!Phases, Phase
  <2> HIDE DEF phase, performed, acted, authority, Kept
  <2> QED
    BY <1>1, <1>2, <2>1
<1>6. CASE Lifecycle!Withdraw
  <2>1. /\ phase' \in {"Cancelled", "Expired"}
        /\ performed' = performed /\ acted' = acted
    BY <1>6 DEF Lifecycle!Withdraw, Phase
  <2> HIDE DEF phase, performed, acted, authority, Kept
  <2> QED
    BY <1>1, <1>2, <2>1 DEF Lifecycle!Phases
<1>7. CASE UNCHANGED Lifecycle!vars
  <2>1. phase' = phase /\ performed' = performed /\ acted' = acted /\ authority' = authority
    BY <1>7 DEF Lifecycle!vars, Phase
  <2> HIDE DEF phase, performed, acted, authority, Kept
  <2> QED
    BY <1>1, <1>2, <2>1
<1> QED
  BY <1>3, <1>4, <1>5, <1>6, <1>7 DEF Lifecycle!Next

\* In CaseLifecycle a live case has the approval, and the counterparty acted on what the
\* case counted plus at most the action under way.
THEOREM LifecycleIsAuthorized == KeepsLifecycle => []Lifecycle!LiveUnderAuthority
<1>1. Lifecycle!Init => Lifecycle!LifecycleTypeOK /\ Lifecycle!LiveUnderAuthority
  <2>1. Lifecycle!Init => /\ Phase = "Live" /\ run.ordinal - 1 = 0 /\ reached = {}
                          /\ (~run.revoked) = TRUE
    BY DEF Lifecycle!Init, Phase
  <2> QED
    BY <2>1, LimitsAssumption
       DEF Lifecycle!LifecycleTypeOK, Lifecycle!LiveUnderAuthority, Lifecycle!Phases, Phase
<1> QED
  BY <1>1, LifecycleStep, PTL DEF KeepsLifecycle, Lifecycle!Spec

\* So it is with FollowThrough, whatever crashes, is lost or comes late.
COROLLARY CasesActUnderAuthority == Spec => []Lifecycle!LiveUnderAuthority
BY ImplementsLifecycle, LifecycleIsAuthorized, PTL

-----------------------------------------------------------------------------
(***************************************************************************)
(* FollowThrough implements CaseDocument.                                  *)
(***************************************************************************)

\* Why a worker is on its branch: what it read has not changed while its version stands,
\* an approval that ran out stays so, and the plan lets every follow-up share its fields
\* or none.
BranchesTrue ==
    \A w \in Workers :
        /\ Attempting(w) => permitted
        /\ pc[w] = "deny" => (expired \/ ~permitted) /\ Key(w) \in Ordinals
        /\ pc[w] = "exhaust" => snap[w].ordinal > MaxLogicalSends

LEMMA PermissionStays == [Next]_vars => permitted' = permitted
<1>1. ASSUME NEW w \in Workers, NEW v \in intents, Start(w, v) PROVE permitted' = permitted
  BY <1>1 DEF Start
<1>2. ASSUME NEW w \in Workers, WorkerStep(w) \/ WorkerFault(w) PROVE permitted' = permitted
  BY <1>2
     DEF WorkerStep, WorkerFault, Reserve, CallAccepted, CallRefused, Settle, MarkUnknown,
         Release, Publish, Recover, Exhaust, Deny, Raise, CallOutcomeUnknown, Crash, StoreFails,
         StoreAckLost
<1>3. ASSUME NEW h \in Handlers, Receive(h) \/ HandlerStep(h) \/ HandlerFails(h)
      PROVE  permitted' = permitted
  BY <1>3 DEF HandlerStep, Receive, RecordEvidence, RaiseConflict, HandlerFails
<1>4. ASSUME NEW command \in Commands, Control(command) PROVE permitted' = permitted
  BY <1>4 DEF Control
<1>5. Delete \/ Bounce \/ ApprovalExpires \/ UNCHANGED vars => permitted' = permitted
  BY DEF Delete, Bounce, ApprovalExpires, vars
<1> QED
  BY <1>1, <1>2, <1>3, <1>4, <1>5 DEF Next

AttemptSteps == {"reserve", "call", "settle", "unknown", "release", "publish", "recover"}

LEMMA BranchesStep ==
    ASSUME IInv, BranchesTrue, [Next]_vars
    PROVE  BranchesTrue'
<1> SUFFICES ASSUME NEW x \in Workers
             PROVE  /\ pc'[x] \in AttemptSteps => permitted'
                    /\ pc'[x] = "deny" => (expired' \/ ~permitted') /\ Key(x)' \in Ordinals
                    /\ pc'[x] = "exhaust" => snap'[x].ordinal > MaxLogicalSends
  BY DEF BranchesTrue, Attempting, AttemptSteps
<1>0. permitted' = permitted
  BY PermissionStays
<1>1. ASSUME NEW w \in Workers, NEW v \in intents, Start(w, v)
      PROVE  \/ pc'[x] = pc[x] /\ snap'[x] = snap[x] /\ (expired => expired')
             \/ /\ snap'[x] = run /\ expired' = expired
                /\ pc'[x] \in AttemptSteps => permitted
                /\ pc'[x] = "deny" => (expired \/ ~permitted) /\ run.ordinal \in Ordinals
                /\ pc'[x] = "exhaust" => run.ordinal > MaxLogicalSends
  <2>1. CASE x # w
    BY <1>1, <2>1 DEF Start, IInv, TypeOK
  <2>2. CASE x = w
    <3>1. ~run.revoked
      BY <1>1 DEF Start, IInv, DispatchableIsAuthorized
    <3>2. pc'[x] = "deny" => expired \/ ~permitted
      BY <1>1, <2>2, <3>1 DEF Start, IInv, TypeOK, Authorized
    <3>3. pc'[x] \in AttemptSteps => permitted
      BY <1>1, <2>2 DEF Start, IInv, TypeOK, Authorized, AttemptSteps
    <3> QED
      BY <1>1, <2>2, <3>2, <3>3 DEF Start, IInv, TypeOK
  <2> QED
    BY <2>1, <2>2
<1>2. ASSUME NEW w \in Workers, WorkerStep(w) \/ WorkerFault(w)
      PROVE  \/ pc'[x] = pc[x] /\ snap'[x] = snap[x] /\ expired' = expired
             \/ pc'[x] \in {"idle", "raise"}
             \/ pc[x] \in AttemptSteps /\ pc'[x] \in AttemptSteps
  <2>1. expired' = expired
    BY <1>2
       DEF WorkerStep, WorkerFault, Reserve, CallAccepted, CallRefused, Settle, MarkUnknown,
           Release, Publish, Recover, Exhaust, Deny, Raise, CallOutcomeUnknown, Crash, StoreFails,
           StoreAckLost
  <2>2. \/ Finish(w)
        \/ Goto(w, "raise")
        \/ pc[w] \in AttemptSteps /\ \E step \in AttemptSteps : Goto(w, step)
    BY <1>2
       DEF WorkerStep, WorkerFault, Reserve, CallAccepted, CallRefused, Settle, MarkUnknown,
           Release, Publish, Recover, Exhaust, Deny, Raise, CallOutcomeUnknown, Crash, StoreFails,
           StoreAckLost, AttemptSteps
  <2> QED
    BY <2>1, <2>2 DEF Finish, Goto, IInv, TypeOK
<1>3. ASSUME NEW h \in Handlers, Receive(h) \/ HandlerStep(h) \/ HandlerFails(h)
      PROVE  UNCHANGED <<pc, snap, expired>>
  BY <1>3 DEF HandlerStep, Receive, RecordEvidence, RaiseConflict, HandlerFails
<1>4. ASSUME NEW command \in Commands, Control(command)
      PROVE  UNCHANGED <<pc, snap, expired>>
  BY <1>4 DEF Control
<1>5. Delete \/ Bounce \/ UNCHANGED vars => UNCHANGED <<pc, snap, expired>>
  BY DEF Delete, Bounce, vars
<1>6. ApprovalExpires => UNCHANGED <<pc, snap>> /\ expired'
  BY DEF ApprovalExpires
<1>7. \/ pc'[x] = pc[x] /\ snap'[x] = snap[x] /\ (expired => expired')
      \/ /\ snap'[x] = run /\ expired' = expired
         /\ pc'[x] \in AttemptSteps => permitted
         /\ pc'[x] = "deny" => (expired \/ ~permitted) /\ run.ordinal \in Ordinals
         /\ pc'[x] = "exhaust" => run.ordinal > MaxLogicalSends
      \/ pc'[x] \in {"idle", "raise"}
      \/ pc[x] \in AttemptSteps /\ pc'[x] \in AttemptSteps
  BY <1>1, <1>2, <1>3, <1>4, <1>5, <1>6 DEF Next
<1> QED
  BY <1>0, <1>7 DEF Key, BranchesTrue, Attempting, AttemptSteps

\* The instance has copies of the definitions of CaseRuns.
LEMMA SameDispatchable == Document!Dispatchable = Dispatchable
BY DEF Dispatchable, Document!Dispatchable

LEMMA SameRewrites ==
    /\ Document!ActivatedRun = ActivatedRun
    /\ \A r : /\ Document!Sent(r) = Sent(r)
              /\ Document!Retried(r) = Retried(r)
              /\ Document!RecoveryExhausted(r) = RecoveryExhausted(r)
              /\ Document!BudgetExhausted(r) = BudgetExhausted(r)
              /\ Document!Denied(r) = Denied(r)
              /\ Document!Bounced(r) = Bounced(r)
<1>1. \A r, s, wake : /\ Document!Moved(r, s, wake) = Moved(r, s, wake)
                      /\ Document!Attempted(r, s, wake) = Attempted(r, s, wake)
  BY Zenon DEF Moved, Document!Moved, Attempted, Document!Attempted
<1>2. ASSUME NEW r
      PROVE  /\ Document!Sent(r) = Sent(r)
             /\ Document!Retried(r) = Retried(r)
             /\ Document!RecoveryExhausted(r) = RecoveryExhausted(r)
             /\ Document!BudgetExhausted(r) = BudgetExhausted(r)
             /\ Document!Denied(r) = Denied(r)
             /\ Document!Bounced(r) = Bounced(r)
  BY <1>1, Zenon
     DEF Sent, Document!Sent, Retried, Document!Retried,
         RecoveryExhausted, Document!RecoveryExhausted, BudgetExhausted, Document!BudgetExhausted,
         Denied, Document!Denied, Bounced, Document!Bounced
<1>3. Document!ActivatedRun = ActivatedRun
  BY DEF ActivatedRun, Document!ActivatedRun
<1> QED
  BY <1>2, <1>3

LEMMA SameAnswers ==
    /\ Document!Verdicts = Verdicts
    /\ \A r, verdict : Document!Evidenced(r, verdict) = Evidenced(r, verdict)
<1>1. \A r, s, wake : Document!Moved(r, s, wake) = Moved(r, s, wake)
  BY DEF Moved, Document!Moved
<1>2. \A verdict : Document!StateFor(verdict) = StateFor(verdict)
  BY Zenon DEF StateFor, Document!StateFor
<1>3. \A r, verdict : Document!Evidenced(r, verdict) = Evidenced(r, verdict)
  BY <1>1, <1>2, Zenon DEF Evidenced, Document!Evidenced
<1> QED
  BY <1>3 DEF Verdicts, Document!Verdicts

LEMMA SameCommands ==
    /\ Document!Commands = Commands
    /\ \A r, late, command :
          /\ Document!CommandAllowed(r, late, command) = CommandAllowed(r, late, command)
          /\ Document!Controlled(r, command) = Controlled(r, command)
<1>1. \A r, s, wake : Document!Moved(r, s, wake) = Moved(r, s, wake)
  BY DEF Moved, Document!Moved
<1>2. \A r, s : Document!Withdrawn(r, s) = Withdrawn(r, s)
  BY <1>1, Zenon DEF Withdrawn, Document!Withdrawn
<1>3. \A r, command : Document!Controlled(r, command) = Controlled(r, command)
  BY <1>1, <1>2, Zenon DEF Controlled, Document!Controlled
<1>4. \A r, late, command :
          Document!CommandAllowed(r, late, command) = CommandAllowed(r, late, command)
  BY Zenon DEF CommandAllowed, Document!CommandAllowed
<1> QED
  BY <1>3, <1>4 DEF Commands, Document!Commands

\* The document is left alone.
LEMMA DocumentStands ==
    ASSUME UNCHANGED <<run, deleted, expired, permitted>>
    PROVE  UNCHANGED Document!vars
BY DEF Document!vars

\* A worker's commits rewrite the document as the runner may.
LEMMA WorkerRewrites ==
    ASSUME IInv, BranchesTrue, NEW w \in Workers, WorkerStep(w) \/ WorkerFault(w)
    PROVE  Document!Next \/ UNCHANGED Document!vars
<1>1. CASE Reserve(w) \/ CallAccepted(w) \/ CallRefused(w) \/ Settle(w) \/ MarkUnknown(w)
           \/ Release(w) \/ Raise(w) \/ CallOutcomeUnknown(w) \/ Crash(w) \/ StoreFails(w)
  <2>1. UNCHANGED <<run, deleted, expired, permitted>>
    BY <1>1 DEF Reserve, CallAccepted, CallRefused, Settle, MarkUnknown, Release, Raise,
                CallOutcomeUnknown, Crash, StoreFails, storeVars
  <2> QED
    BY <2>1, DocumentStands
<1>2. ASSUME pc[w] # "idle", Current(snap[w].version)
      PROVE  snap[w] = run /\ run.state \in Dispatchable /\ ~deleted
  BY <1>2, CurrentIsSnapshot DEF Current
<1>3. Attempting(w) \/ pc[w] = "deny" => snap[w].ordinal <= MaxLogicalSends
  BY LimitsAssumption DEF IInv, AttemptsInPlan, BranchesTrue, Key, Ordinals
<1>a. Attempting(w) => permitted
  BY DEF BranchesTrue
<1>4. CASE Publish(w) \/ StoreAckLost(w)
  <2>1. /\ UNCHANGED <<expired, permitted>>
        /\ \/ UNCHANGED <<run, deleted>>
           \/ /\ pc[w] = "publish" /\ Current(snap[w].version)
              /\ run' = Sent(snap[w]) /\ deleted' = deleted
    BY <1>4 DEF Publish, StoreAckLost, Commit, storeVars
  <2>2. ASSUME pc[w] = "publish", Current(snap[w].version),
               run' = Sent(snap[w]), deleted' = deleted
        PROVE  Document!Attempt
    BY <1>2, <1>3, <1>a, <2>1, <2>2, SameDispatchable, SameRewrites
       DEF Document!Attempt, Document!Becomes, Attempting
  <2> QED
    BY <2>1, <2>2, DocumentStands DEF Document!Next
<1>5. CASE Recover(w)
  <2>1. /\ UNCHANGED <<expired, permitted>> /\ pc[w] = "recover"
        /\ \/ UNCHANGED <<run, deleted>>
           \/ /\ Current(snap[w].version) /\ deleted' = deleted
              /\ \/ snap[w].attempts + 1 < MaxAttempts /\ run' = Retried(snap[w])
                 \/ snap[w].attempts + 1 >= MaxAttempts /\ run' = RecoveryExhausted(snap[w])
    BY <1>5 DEF Recover, Commit, storeVars
  <2>2. ASSUME Current(snap[w].version), deleted' = deleted,
               \/ snap[w].attempts + 1 < MaxAttempts /\ run' = Retried(snap[w])
               \/ snap[w].attempts + 1 >= MaxAttempts /\ run' = RecoveryExhausted(snap[w])
        PROVE  Document!Attempt
    BY <1>2, <1>3, <1>a, <2>1, <2>2, SameDispatchable, SameRewrites
       DEF Document!Attempt, Document!Becomes, Attempting
  <2> QED
    BY <2>1, <2>2, DocumentStands DEF Document!Next
<1>6. CASE Exhaust(w)
  <2>1. /\ UNCHANGED <<expired, permitted>> /\ pc[w] = "exhaust"
        /\ \/ UNCHANGED <<run, deleted>>
           \/ /\ Current(snap[w].version) /\ deleted' = deleted
              /\ run' = BudgetExhausted(snap[w])
    BY <1>6 DEF Exhaust, Commit, storeVars
  <2>2. ASSUME Current(snap[w].version), deleted' = deleted, run' = BudgetExhausted(snap[w])
        PROVE  Document!Exhaust
    BY <1>2, <2>1, <2>2, SameDispatchable, SameRewrites
       DEF Document!Exhaust, Document!Becomes, BranchesTrue
  <2> QED
    BY <2>1, <2>2, DocumentStands DEF Document!Next
<1>7. CASE Deny(w)
  <2>1. /\ UNCHANGED <<expired, permitted>> /\ pc[w] = "deny"
        /\ \/ UNCHANGED <<run, deleted>>
           \/ Current(snap[w].version) /\ deleted' = deleted /\ run' = Denied(snap[w])
    BY <1>7 DEF Deny, Commit, storeVars
  <2>2. ASSUME Current(snap[w].version), deleted' = deleted, run' = Denied(snap[w])
        PROVE  Document!Attempt
    BY <1>2, <1>3, <1>a, <2>1, <2>2, SameDispatchable, SameRewrites
       DEF Document!Attempt, Document!Becomes, BranchesTrue
  <2> QED
    BY <2>1, <2>2, DocumentStands DEF Document!Next
<1> QED
  BY <1>1, <1>4, <1>5, <1>6, <1>7 DEF WorkerStep, WorkerFault

LEMMA HandlerRewrites ==
    ASSUME IInv, NEW h \in Handlers, Receive(h) \/ HandlerStep(h) \/ HandlerFails(h)
    PROVE  Document!Next \/ UNCHANGED Document!vars
<1>1. CASE Receive(h) \/ RaiseConflict(h) \/ HandlerFails(h)
  BY <1>1, DocumentStands DEF Receive, RaiseConflict, HandlerFails, storeVars
<1>2. ASSUME NEW e \in EvidenceIds, NEW verdict \in Verdicts, RecordEvidence(h, e, verdict)
      PROVE  Document!Next \/ UNCHANGED Document!vars
  <2>1. /\ UNCHANGED <<expired, permitted>> /\ hpc[h] = "record"
        /\ \/ UNCHANGED <<run, deleted>>
           \/ Current(hver[h]) /\ deleted' = deleted /\ run' = Evidenced(run, verdict)
    BY <1>2 DEF RecordEvidence, Commit, storeVars
  <2>2. ASSUME Current(hver[h]), deleted' = deleted, run' = Evidenced(run, verdict)
        PROVE  Document!Answer(verdict)
    BY <2>1, <2>2, SameAnswers
       DEF Document!Answer, Document!Becomes, Current, IInv, SnapshotsAgree
  <2> QED
    BY <2>1, <2>2, DocumentStands, SameAnswers DEF Document!Next
<1> QED
  BY <1>1, <1>2 DEF HandlerStep

\* Every step rewrites the document as CaseDocument allows, or leaves it alone.
LEMMA DocumentStep ==
    ASSUME IInv, BranchesTrue, [Next]_vars
    PROVE  Document!Next \/ UNCHANGED Document!vars
<1>1. ASSUME NEW w \in Workers, NEW v \in intents, Start(w, v)
      PROVE  UNCHANGED Document!vars
  BY <1>1, DocumentStands DEF Start, storeVars
<1>2. ASSUME NEW command \in Commands, Control(command)
      PROVE  Document!Next
  <2>1. Document!Command(command)
    BY <1>2, SameCommands DEF Control, Commit, Document!Command, Document!Becomes
  <2> QED
    BY <2>1, SameCommands DEF Document!Next
<1>3. Bounce => Document!LoseRoute
  BY SameRewrites DEF Bounce, Document!LoseRoute, Document!Becomes
<1>4. Delete => Document!Erase
  BY DEF Delete, Document!Erase
<1>5. ApprovalExpires => Document!Expire
  BY DEF ApprovalExpires, Document!Expire, storeVars
<1>6. UNCHANGED vars => UNCHANGED Document!vars
  BY DocumentStands DEF vars, storeVars
<1> QED
  BY <1>1, <1>2, <1>3, <1>4, <1>5, <1>6, WorkerRewrites, HandlerRewrites
     DEF Next, Document!Next

\* The version check of compareAndSet, record, transition and beginReapproval makes the
\* document evolve as if every writer decided on the version it rewrites.
THEOREM ImplementsDocument == Spec => KeepsDocument
<1>1. Init => Document!Init
  BY SameRewrites DEF Init, Document!Init
<1>2. Init => BranchesTrue
  BY DEF Init, BranchesTrue, Attempting
<1>3. IInv /\ BranchesTrue /\ [Next]_vars => BranchesTrue'
  BY BranchesStep
<1>4. IInv /\ BranchesTrue /\ [Next]_vars => [Document!Next]_(Document!vars)
  BY DocumentStep
<1> QED
  BY <1>1, <1>2, <1>3, <1>4, Invariance, PTL DEF Spec, KeepsDocument, Document!Spec
=============================================================================
