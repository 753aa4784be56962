-------------------------- MODULE PreparationProofs --------------------------
(***************************************************************************)
(* Proofs about Preparation for every number of uploads, workers, retries, *)
(* attempts and failures.                                                  *)
(*                                                                         *)
(* A job is seen to by whoever holds it: its tasks, the workers that the   *)
(* queue still listens to, uploads and retries.  A worker whose answer     *)
(* nobody hears does not count: the queue has its task again, or has given *)
(* it up.  Until a job expires, everything that is held is the one job of  *)
(* the source.                                                             *)
(***************************************************************************)
EXTENDS Preparation, TLAPS

Queue == [Tries -> Nat]
Hand == [pc : WorkerSteps, job : Uploads \cup {None}, heard : BOOLEAN, try : Tries]
Request == [pc : UploadSteps, job : Uploads \cup {None}, status : Statuses]
Retrier == [pc : RetrySteps, job : Uploads \cup {None}]

\* Workers, uploads and retries know their job from the first await on.
HandKnown(x) ==
    /\ x.pc = "idle" => x.job = None
    /\ x.pc # "idle" => x.job \in Uploads
    /\ x.pc = "busy" => x.heard
RequestKnown(x) ==
    /\ x.pc = "new" => x.job = None
    /\ x.pc # "new" => x.job \in Uploads
RetrierKnown(x) ==
    /\ x.pc = "idle" => x.job = None
    /\ x.pc # "idle" => x.job \in Uploads

JobsKnown ==
    /\ \A w \in Workers : HandKnown(worker[w])
    /\ \A u \in Uploads : RequestKnown(upload[u])
    /\ \A r \in Retriers : RetrierKnown(retry[r])

\* The queue listens to a worker that is at job j.
Listened(j) == \E w \in Workers : worker[w].job = j /\ worker[w].pc # "delete" /\ worker[w].heard

Requested(j) ==
    \/ \E u \in Uploads : upload[u].job = j /\ upload[u].pc # "answered"
    \/ \E r \in Retriers : retry[r].job = j

Awaited(j) == Waits(j) \/ Listened(j) \/ Requested(j) \/ j \in unattended

\* Stronger than JobsAttended: it does without the workers that nobody listens to.
JobsAwaited == \A j \in Uploads : job[j].status \in Unsettled => Awaited(j)

\* Job j exists or has left a trace.
Touched(j) ==
    \/ job[j].status # "ABSENT"
    \/ Waits(j)
    \/ written[j] > 0
    \/ \E w \in Workers : worker[w].job = j
    \/ \E u \in Uploads : upload[u].job = j
    \/ \E r \in Retriers : retry[r].job = j

\* The source has one job until a job expires.
OneJob ==
    outlived \/ /\ \A j \in Uploads : Touched(j) => j = analysisDedupe
                /\ analysisDedupe # None => job[analysisDedupe].status # "ABSENT"

Written(j) == written[j] > 0 \/ outlived

\* Where a job is READY or about to be, its draft was written.
DraftsKnown ==
    /\ OneDraft
    /\ \A c \in draft : written[c] > 0
    /\ \A w \in Workers, j \in Uploads :
           worker[w].pc = "ready" /\ worker[w].job = j => Written(j)
    /\ \A j \in Uploads : job[j].status = "READY" => Written(j)

Inv == TypeOK /\ JobsKnown /\ JobsAwaited /\ OneJob /\ DraftsKnown
-----------------------------------------------------------------------------
LEMMA Limits ==
    /\ MaxAttempts \in Nat /\ MaxAttempts > 0 /\ MaxTries \in Nat /\ MaxTries > 0 /\ 1 \in Tries
    /\ MaxTroubles \in Nat /\ MaxRetries \in Nat
    /\ CaseLimit \in Nat /\ CallLimit \in Nat /\ None \notin Uploads
BY PreparationAssumption DEF Tries

LEMMA Troubles ==
    ASSUME TypeOK, Trouble
    PROVE  troubles' \in 0..MaxTroubles
BY Limits DEF TypeOK, Trouble

LEMMA Types ==
    ASSUME TypeOK
    PROVE  /\ job \in [Uploads -> Job] /\ task \in [Uploads -> Queue]
           /\ upload \in [Uploads -> Request] /\ worker \in [Workers -> Hand]
           /\ retry \in [Retriers -> Retrier] /\ written \in [Uploads -> Nat]
BY DEF TypeOK, Request, Hand, Retrier, Queue

LEMMA IdleTypes ==
    /\ IdleWorker \in Hand /\ IdleWorker.pc = "idle" /\ IdleWorker.job = None
    /\ IdleRetry \in Retrier /\ IdleRetry.pc = "idle" /\ IdleRetry.job = None
BY Limits DEF IdleWorker, IdleRetry, Hand, Retrier, WorkerSteps, RetrySteps

LEMMA JobTypes ==
    /\ NoJob \in Job /\ NewJob \in Job /\ NewJob.status = "QUEUED" /\ NoJob.status = "ABSENT"
BY Limits DEF NoJob, NewJob, Job, Statuses, Leases

LEMMA JobRewrites ==
    ASSUME NEW x \in Job, NEW s \in Statuses, NEW l \in Leases
    PROVE  /\ [x EXCEPT !.status = s, !.lease = l] \in Job
           /\ [x EXCEPT !.status = s, !.lease = l].status = s
BY DEF Job

\* One delivery more of a task of job j is owed, or one less.
LEMMA QueueMoves ==
    ASSUME Inv, NEW j \in Uploads, NEW n \in Tries, NEW k \in Nat,
           task' = [task EXCEPT ![j][n] = k]
    PROVE  /\ task' \in [Uploads -> Queue] /\ \A i \in Uploads \ {j} : task'[i] = task[i]
           /\ k > 0 => Waits(j)'
<1>1. task \in [Uploads -> Queue] /\ task[j] \in Queue
  BY Types DEF Inv
<1>2. PICK q \in Queue : q = [task[j] EXCEPT ![n] = k]
  BY <1>1 DEF Queue
<1>3. task' = [task EXCEPT ![j] = q]
  BY <1>2
<1>4. q[n] = k
  BY <1>1, <1>2 DEF Queue
<1>5. task'[j] = q
  BY <1>1, <1>3
<1> QED
  BY <1>1, <1>3, <1>4, <1>5 DEF Waits

LEMMA Scheduled ==
    ASSUME Inv, NEW j \in Uploads, Schedule(j)
    PROVE  /\ task' \in [Uploads -> Queue] /\ \A i \in Uploads \ {j} : task'[i] = task[i]
           /\ unattended' = unattended \ {j} /\ Waits(j)'
<1>1. PICK k \in Nat : k = task[j][1] + 1 /\ k > 0
  BY Types, Limits DEF Inv, Queue
<1>2. task' = [task EXCEPT ![j][1] = k]
  BY <1>1 DEF Schedule
<1> QED
  BY <1>1, <1>2, QueueMoves, Limits DEF Schedule

\* A delivery that failed is owed again, or the queue has given up.
LEMMA TriedAgain ==
    ASSUME Inv, NEW j \in Uploads, NEW n \in Tries, TryAgain(j, n)
    PROVE  /\ task' \in [Uploads -> Queue] /\ \A i \in Uploads \ {j} : task'[i] = task[i]
           /\ unattended' \in {unattended, unattended \cup {j}}
           /\ Awaited(j)'
<1>1. CASE n < MaxTries
  <2>1. n + 1 \in Tries
    BY <1>1, Limits DEF Tries
  <2>2. PICK k \in Nat : k = task[j][n + 1] + 1 /\ k > 0
    BY <2>1, Types DEF Inv, Queue
  <2>3. task' = [task EXCEPT ![j][n + 1] = k]
    BY <1>1, <2>2 DEF TryAgain
  <2> QED
    BY <1>1, <2>1, <2>2, <2>3, QueueMoves DEF TryAgain, Awaited
<1>2. CASE ~(n < MaxTries)
  BY <1>2, Types DEF TryAgain, Awaited, Inv
<1> QED
  BY <1>1, <1>2

LEMMA InitInv == Init => Inv
<1> SUFFICES ASSUME Init PROVE Inv
  OBVIOUS
<1>1. /\ job \in [Uploads -> Job]
      /\ worker \in [Workers -> Hand]
      /\ retry \in [Retriers -> Retrier]
      /\ upload \in [Uploads -> Request]
  <2>1. [pc |-> "new", job |-> None, status |-> "ABSENT"] \in Request
    BY DEF Request, UploadSteps, Statuses
  <2> QED
    BY <2>1, JobTypes, IdleTypes DEF Init
<1>2. TypeOK
  <2>1. /\ analysisDedupe \in Uploads \cup {None} /\ intakeDedupe \in Uploads \cup {None}
        /\ draft \subseteq Uploads /\ unattended \subseteq Uploads
        /\ artifact \in BOOLEAN /\ outlived \in BOOLEAN
    BY DEF Init
  <2>2. task \in [Uploads -> Queue] /\ written \in [Uploads -> Nat]
    BY DEF Init, Queue
  <2>3. /\ retries \in 0..MaxRetries /\ troubles \in 0..MaxTroubles
        /\ newCases \in 0..CaseLimit /\ callCount \in 0..CallLimit
    BY Limits DEF Init
  <2> QED
    BY <1>1, <2>1, <2>2, <2>3 DEF TypeOK, Hand, Retrier, Request, Queue
<1>3. JobsKnown
  BY IdleTypes DEF Init, JobsKnown, HandKnown, RequestKnown, RetrierKnown
<1>4. \A j \in Uploads : job[j].status = "ABSENT" /\ ~Waits(j)
  BY JobTypes DEF Init, Waits
<1>5. JobsAwaited /\ DraftsKnown
  BY <1>4, IdleTypes DEF Init, JobsAwaited, DraftsKnown, OneDraft, Unsettled
<1>6. \A j \in Uploads : ~Touched(j)
  BY <1>4, IdleTypes, Limits DEF Init, Touched
<1> QED
  BY <1>2, <1>3, <1>5, <1>6 DEF Inv, OneJob, Init

-----------------------------------------------------------------------------
(***************************************************************************)
(* Steps of a worker.                                                      *)
(***************************************************************************)

\* What a step of worker w, who becomes x, has to answer for.
LEMMA WorkerMoves ==
    ASSUME Inv, NEW w \in Workers, NEW x \in Hand, worker' = [worker EXCEPT ![w] = x],
           HandKnown(x), UNCHANGED <<analysisDedupe, upload, retry, retries, outlived>>,
           NEW j \in Uploads, worker[w].job \in {j, None}, x.job \in {j, None},
           Touched(j),
           job' \in [Uploads -> Job], \A i \in Uploads \ {j} : job'[i] = job[i],
           job'[j].status # "ABSENT" \/ job'[j].status = job[j].status,
           task' \in [Uploads -> Queue], \A i \in Uploads \ {j} : task'[i] = task[i],
           written' \in [Uploads -> Nat], \A i \in Uploads \ {j} : written'[i] = written[i],
           written'[j] >= written[j],
           unattended' \in {unattended, unattended \cup {j}, unattended \ {j}},
           artifact' \in BOOLEAN, draft' \subseteq Uploads, intakeDedupe' \in Uploads \cup {None},
           newCases' \in 0..CaseLimit, callCount' \in 0..CallLimit, troubles' \in 0..MaxTroubles,
           job'[j].status \in Unsettled => Awaited(j)',
           OneDraft', \A c \in draft' : written'[c] > 0,
           x.pc = "ready" => Written(j)',
           job'[j].status = "READY" => Written(j)'
    PROVE  Inv'
<1>0. worker'[w] = x /\ \A v \in Workers : v # w => worker'[v] = worker[v]
  BY Types DEF Inv
<1>1. TypeOK'
  BY Types DEF Queue, Inv, TypeOK, Hand
<1>2. JobsKnown'
  BY <1>0 DEF Inv, JobsKnown
<1>3. JobsAwaited'
  <2>1. ASSUME NEW i \in Uploads \ {j}, Awaited(i) PROVE Awaited(i)'
    <3>1. worker[w].job # i
      BY Limits
    <3>2. Listened(i) => Listened(i)'
      BY <1>0, <3>1 DEF Listened
    <3>3. Requested(i) => Requested(i)'
      BY DEF Requested
    <3> QED
      BY <2>1, <3>2, <3>3 DEF Waits, Awaited
  <2> QED
    BY <2>1 DEF Inv, JobsAwaited
<1>4. OneJob'
  <2>1. ASSUME NEW i \in Uploads \ {j}, Touched(i)' PROVE Touched(i)
    <3>1. x.job # i
      BY Limits
    <3> QED
      BY <1>0, <2>1, <3>1 DEF Waits, Touched
  <2>2. CASE ~outlived
    <3>1. \A i \in Uploads : Touched(i)' => i = analysisDedupe
      BY <2>1, <2>2 DEF Inv, OneJob
    <3>2. analysisDedupe # None => analysisDedupe \in Uploads /\ job'[analysisDedupe].status # "ABSENT"
      BY <2>2 DEF Inv, OneJob, TypeOK
    <3> QED
      BY <3>1, <3>2 DEF OneJob
  <2> QED
    BY <2>2 DEF OneJob
<1>5. DraftsKnown'
  <2>1. \A i \in Uploads : Written(i) => Written(i)'
    BY Types DEF Inv, Written
  <2>3. \A v \in Workers, i \in Uploads :
            worker'[v].pc = "ready" /\ worker'[v].job = i => Written(i)'
    BY <1>0, <2>1, Limits DEF Inv, DraftsKnown
  <2>4. \A i \in Uploads : job'[i].status = "READY" => Written(i)'
    BY <2>1 DEF Inv, DraftsKnown
  <2> QED
    BY <2>3, <2>4 DEF DraftsKnown
<1> QED
  BY <1>1, <1>2, <1>3, <1>4, <1>5 DEF Inv

\* What is known of a worker at work.
LEMMA WorkerBusy ==
    ASSUME Inv, NEW w \in Workers, worker[w].pc # "idle"
    PROVE  /\ worker[w] \in Hand /\ HandKnown(worker[w])
           /\ worker[w].job \in Uploads /\ Touched(worker[w].job)
           /\ worker[w].pc = "busy" => worker[w].heard
           /\ worker[w].heard /\ worker[w].pc # "delete" => Listened(worker[w].job)
BY Types DEF Inv, JobsKnown, HandKnown, Touched, Listened


\* A worker that goes on, the draft aside.
LEMMA GoesOnKeeps ==
    ASSUME Inv, NEW w \in Workers, worker[w].pc \notin {"idle", "busy", "delete"},
           NEW step \in WorkerSteps \ {"idle", "busy", "delete"}, WorkerAt(w, step),
           UNCHANGED <<job, analysisDedupe, artifact, newCases, task, upload, retry, retries,
                       unattended, outlived>>,
           callCount' \in 0..CallLimit, troubles' \in 0..MaxTroubles,
           intakeDedupe' \in Uploads \cup {None}, draft' \subseteq Uploads,
           written' = written \/ written' = [written EXCEPT ![worker[w].job] = @ + 1],
           OneDraft', \A c \in draft' : written'[c] > 0,
           step = "ready" => Written(worker[w].job)'
    PROVE  Inv'
<1>1. PICK x \in Hand : /\ worker' = [worker EXCEPT ![w] = x] /\ x.pc = step
                        /\ x.job = worker[w].job /\ x.heard = worker[w].heard
  <2>1. /\ [worker[w] EXCEPT !.pc = step] \in Hand
        /\ [worker[w] EXCEPT !.pc = step].pc = step
        /\ [worker[w] EXCEPT !.pc = step].job = worker[w].job
        /\ [worker[w] EXCEPT !.pc = step].heard = worker[w].heard
    BY WorkerBusy DEF Hand
  <2>2. worker' = [worker EXCEPT ![w] = [worker[w] EXCEPT !.pc = step]]
    BY DEF WorkerAt
  <2> QED
    BY <2>1, <2>2
<1>2. PICK j \in Uploads : j = worker[w].job /\ Touched(j)
  BY WorkerBusy
<1>3. worker'[w] = x /\ HandKnown(x)
  BY <1>1, <1>2, Types DEF Inv, HandKnown
<1>4. /\ written' \in [Uploads -> Nat] /\ written'[j] >= written[j]
      /\ \A i \in Uploads \ {j} : written'[i] = written[i]
  BY <1>2, Types DEF Inv
<1>5. Awaited(j) => Awaited(j)'
  <2>1. Listened(j) => Listened(j)'
    BY <1>1, <1>2, <1>3, Types DEF Inv, Listened
  <2>2. Requested(j) => Requested(j)'
    BY DEF Requested
  <2> QED
    BY <2>1, <2>2 DEF Waits, Awaited
<1>6. /\ job'[j].status \in Unsettled => Awaited(j)'
      /\ x.pc = "ready" => Written(j)'
      /\ job'[j].status = "READY" => Written(j)'
  BY <1>1, <1>2, <1>4, <1>5 DEF Inv, JobsAwaited, DraftsKnown, Written, TypeOK
<1>7. /\ job' \in [Uploads -> Job] /\ task' \in [Uploads -> Queue] /\ artifact' \in BOOLEAN
      /\ newCases' \in 0..CaseLimit
  BY DEF Queue, Inv, TypeOK
<1> QED
  BY <1>1, <1>2, <1>3, <1>4, <1>6, <1>7, WorkerMoves

\* What the drafts need when they stay as they are.
LEMMA DraftsStay ==
    ASSUME Inv, UNCHANGED <<draft, intakeDedupe, written>>
    PROVE  /\ OneDraft' /\ (\A c \in draft' : written'[c] > 0)
           /\ intakeDedupe' \in Uploads \cup {None} /\ draft' \subseteq Uploads
BY DEF Inv, TypeOK, DraftsKnown, OneDraft

LEMMA AnalysisKeeps ==
    ASSUME Inv, NEW w \in Workers,
           ReadArtifact(w) \/ FindDraft(w) \/ ReserveModelCall(w) \/ Extract(w) \/ WorkerThrows(w)
    PROVE  Inv'
<1>1. /\ UNCHANGED <<job, analysisDedupe, artifact, newCases, task, upload, retry, retries,
                     unattended, outlived, draft, intakeDedupe, written>>
      /\ callCount' \in 0..CallLimit /\ troubles' \in 0..MaxTroubles
  BY Troubles, Limits DEF ReadArtifact, FindDraft, ReserveModelCall, Extract, WorkerThrows, stores,
                          bounds, ghosts, Inv, TypeOK
<1>2. PICK step \in {"find", "failing", "ready", "reserve", "extract", "create"} :
          /\ WorkerAt(w, step)
          /\ step = "ready" => FindDraft(w) /\ intakeDedupe \in draft
  BY DEF ReadArtifact, FindDraft, ReserveModelCall, Extract, WorkerThrows
<1>3. worker[w].pc \notin {"idle", "busy", "delete"}
  BY DEF ReadArtifact, FindDraft, ReserveModelCall, Extract, WorkerThrows
<1>4. step = "ready" => Written(worker[w].job)
  <2>1. ASSUME intakeDedupe \in draft, ~outlived
        PROVE  written[worker[w].job] > 0
    <3>1. intakeDedupe \in Uploads /\ written[intakeDedupe] > 0 /\ Touched(worker[w].job)
          /\ worker[w].job \in Uploads
      BY <1>3, <2>1, WorkerBusy DEF Inv, TypeOK, DraftsKnown
    <3>2. Touched(intakeDedupe)
      BY <3>1 DEF Touched
    <3> QED
      BY <2>1, <3>1, <3>2 DEF Inv, OneJob
  <2> QED
    BY <1>2, <2>1 DEF Written
<1>5. step \in WorkerSteps \ {"idle", "busy", "delete"}
  BY DEF WorkerSteps
<1>6. step = "ready" => Written(worker[w].job)'
  <2>1. worker'[w].job = worker[w].job
    BY <1>2, Types DEF WorkerAt, Inv, Hand
  <2> QED
    BY <1>1, <1>4, <2>1 DEF Written
<1> QED
  BY <1>1, <1>2, <1>3, <1>5, <1>6, DraftsStay, GoesOnKeeps

LEMMA CreateDraftKeeps ==
    ASSUME Inv, NEW w \in Workers, CreateDraft(w)
    PROVE  Inv'
<1>1. /\ UNCHANGED <<job, analysisDedupe, artifact, newCases, callCount, task, upload, retry,
                     retries, troubles, unattended, outlived>>
      /\ worker[w].pc = "create" /\ worker[w].job \in Uploads
      /\ callCount' \in 0..CallLimit /\ troubles' \in 0..MaxTroubles
  BY WorkerBusy DEF CreateDraft, bounds, Inv, TypeOK
<1>2. CASE /\ intakeDedupe = None /\ draft' = draft \cup {worker[w].job}
           /\ intakeDedupe' = worker[w].job
           /\ written' = [written EXCEPT ![worker[w].job] = @ + 1]
           /\ WorkerAt(w, "ready")
  <2>1. draft = {}
    BY <1>2, Limits DEF Inv, TypeOK, DraftsKnown, OneDraft
  <2>2. written'[worker[w].job] > 0
    BY <1>1, <1>2, Types DEF Inv
  <2>3. OneDraft' /\ \A c \in draft' : written'[c] > 0
    BY <1>2, <2>1, <2>2 DEF OneDraft
  <2>4. worker'[w].job = worker[w].job
    BY <1>2, Types DEF WorkerAt, Inv, Hand
  <2>5. Written(worker[w].job)'
    BY <2>2, <2>4 DEF Written
  <2>6. draft' \subseteq Uploads /\ intakeDedupe' \in Uploads \cup {None}
    BY <1>1, <1>2, <2>1
  <2>7. "ready" \in WorkerSteps \ {"idle", "busy", "delete"}
    BY DEF WorkerSteps
  <2> QED
    BY <1>1, <1>2, <2>3, <2>5, <2>6, <2>7, GoesOnKeeps
<1>3. CASE WorkerAt(w, "failing") /\ UNCHANGED <<draft, intakeDedupe, written>>
  <2>1. "failing" \in WorkerSteps \ {"idle", "busy", "delete"}
    BY DEF WorkerSteps
  <2> QED
    BY <1>1, <1>3, <2>1, DraftsStay, GoesOnKeeps
<1> QED
  BY <1>2, <1>3 DEF CreateDraft

\* A job on which only its status and its lease are written.
LEMMA StatusWritten ==
    ASSUME Inv, NEW j \in Uploads, NEW s \in Statuses \ {"ABSENT"},
           Put(j, [job[j] EXCEPT !.status = s, !.lease = "none"])
    PROVE  /\ job' \in [Uploads -> Job] /\ job'[j].status = s
           /\ \A i \in Uploads \ {j} : job'[i] = job[i]
<1>1. "none" \in Leases /\ job[j] \in Job
  BY Types DEF Inv, Leases
<1>2. [job[j] EXCEPT !.status = s, !.lease = "none"] \in Job
      /\ [job[j] EXCEPT !.status = s, !.lease = "none"].status = s
  BY <1>1, JobRewrites
<1> QED
  BY <1>2, Types DEF Inv, Put

LEMMA MarkReadyKeeps ==
    ASSUME Inv, NEW w \in Workers, MarkReady(w)
    PROVE  Inv'
<1>1. /\ worker[w].pc = "ready" /\ worker[w].job \in Uploads /\ Touched(worker[w].job)
      /\ worker[w] \in Hand
      /\ UNCHANGED <<analysisDedupe, artifact, draft, intakeDedupe, newCases, callCount, task,
                     upload, retry, retries, troubles, unattended, written, outlived>>
  BY WorkerBusy DEF MarkReady, bounds, ghosts
<1>2. PICK x \in Hand : /\ worker' = [worker EXCEPT ![w] = x] /\ x.pc = "delete"
                        /\ x.job = worker[w].job
  <2>1. /\ [worker[w] EXCEPT !.pc = "delete"] \in Hand
        /\ [worker[w] EXCEPT !.pc = "delete"].pc = "delete"
        /\ [worker[w] EXCEPT !.pc = "delete"].job = worker[w].job
    BY <1>1 DEF Hand, WorkerSteps
  <2>2. worker' = [worker EXCEPT ![w] = [worker[w] EXCEPT !.pc = "delete"]]
    BY DEF MarkReady, WorkerAt
  <2> QED
    BY <2>1, <2>2
<1>3. PICK j \in Uploads : j = worker[w].job
  BY <1>1
<1>4. /\ job' \in [Uploads -> Job] /\ job'[j].status = "READY"
      /\ \A i \in Uploads \ {j} : job'[i] = job[i]
  BY <1>3, StatusWritten DEF MarkReady, Statuses
<1>5. HandKnown(x) /\ job'[j].status \notin Unsettled
  BY <1>1, <1>2, <1>4 DEF HandKnown, Unsettled
<1>6. Written(j)'
  <2>1. Written(j)
    BY <1>1, <1>3 DEF Inv, DraftsKnown
  <2> QED
    BY <1>1, <2>1 DEF Written
<1>7. /\ task' \in [Uploads -> Queue] /\ artifact' \in BOOLEAN /\ newCases' \in 0..CaseLimit
      /\ callCount' \in 0..CallLimit /\ troubles' \in 0..MaxTroubles
      /\ written' \in [Uploads -> Nat] /\ written'[j] >= written[j]
  BY <1>1 DEF Queue, Inv, TypeOK
<1> QED
  BY <1>1, <1>2, <1>3, <1>4, <1>5, <1>6, <1>7, DraftsStay, WorkerMoves

\* A worker that leaves takes nothing from the job if nobody listened to it.
LEMMA Leaves ==
    ASSUME Inv, NEW w \in Workers, NEW j \in Uploads, worker' = [worker EXCEPT ![w] = IdleWorker],
           ~worker[w].heard \/ worker[w].pc = "delete",
           UNCHANGED <<upload, retry>>, task'[j] = task[j], unattended \subseteq unattended',
           Awaited(j)
    PROVE  Awaited(j)'
<1>1. \A v \in Workers : v # w => worker'[v] = worker[v]
  BY Types DEF Inv
<1>2. Listened(j) => Listened(j)'
  BY <1>1 DEF Listened
<1>3. Requested(j) => Requested(j)'
  BY DEF Requested
<1> QED
  BY <1>2, <1>3 DEF Waits, Awaited

\* An error brings the task back, or the end of its tries, if the queue is listening.
LEMMA Refused ==
    ASSUME Inv, NEW w \in Workers, worker[w].pc # "idle", Refuses(w),
           NEW j \in Uploads, j = worker[w].job
    PROVE  /\ worker' = [worker EXCEPT ![w] = IdleWorker]
           /\ task' \in [Uploads -> Queue]
           /\ \A i \in Uploads \ {j} : task'[i] = task[i]
           /\ unattended' \in {unattended, unattended \cup {j}}
           /\ worker[w].heard => Awaited(j)'
           /\ ~worker[w].heard => task' = task /\ unattended' = unattended
<1>1. CASE worker[w].heard
  <2>1. PICK n \in Tries : n = worker[w].try
    BY WorkerBusy DEF Hand
  <2>2. TryAgain(j, n)
    BY <1>1, <2>1 DEF Refuses
  <2> QED
    BY <1>1, <2>2, TriedAgain DEF Refuses, Rests
<1>2. CASE ~worker[w].heard
  BY <1>2, Types DEF Refuses, Rests, Inv
<1> QED
  BY <1>1, <1>2

LEMMA WorkerEndsKeeps ==
    ASSUME Inv, NEW w \in Workers,
           AnswerBusy(w) \/ DeleteArtifact(w) \/ MarkAttemptFailed(w) \/ WorkerDies(w)
    PROVE  Inv'
<1>1. /\ worker[w].pc # "idle"
      /\ UNCHANGED <<analysisDedupe, draft, intakeDedupe, newCases, callCount, upload, retry,
                     retries, written, outlived>>
      /\ artifact' \in BOOLEAN /\ troubles' \in 0..MaxTroubles
  BY Troubles DEF AnswerBusy, DeleteArtifact, MarkAttemptFailed, WorkerDies, Working, stores, bounds,
                  ghosts, Inv, TypeOK
<1>2. PICK j \in Uploads : j = worker[w].job /\ Touched(j)
  BY <1>1, WorkerBusy
<1>3. /\ worker' = [worker EXCEPT ![w] = IdleWorker]
      /\ task' \in [Uploads -> Queue]
      /\ \A i \in Uploads \ {j} : task'[i] = task[i]
      /\ job' \in [Uploads -> Job]
      /\ \A i \in Uploads \ {j} : job'[i] = job[i]
      /\ job'[j].status # "ABSENT" \/ job'[j].status = job[j].status
      /\ unattended' \in {unattended, unattended \cup {j}, unattended \ {j}}
      /\ job'[j].status \in Unsettled => Awaited(j)'
      /\ job'[j].status = "READY" => job[j].status = "READY"
  <2>1. CASE AnswerBusy(w) \/ WorkerDies(w)
    <3>1. Refuses(w) /\ job' = job
          /\ (worker[w].pc = "busy" => worker[w].heard)
      BY <1>1, <2>1, WorkerBusy DEF AnswerBusy, WorkerDies, stores
    <3>2. ASSUME ~worker[w].heard, Awaited(j) PROVE Awaited(j)'
      <4>1. worker' = [worker EXCEPT ![w] = IdleWorker] /\ task' = task /\ unattended' = unattended
        BY <1>1, <1>2, <3>1, <3>2, Refused
      <4>2. task'[j] = task[j] /\ unattended \subseteq unattended' /\ UNCHANGED <<upload, retry>>
        BY <1>1, <3>1, <4>1
      <4> QED
        BY <3>2, <4>1, <4>2, Leaves
    <3>3. job'[j].status \in Unsettled => Awaited(j)'
      <4>1. CASE worker[w].heard
        BY <1>1, <1>2, <3>1, <4>1, Refused
      <4>2. CASE ~worker[w].heard
        BY <3>1, <3>2, <4>2 DEF Inv, JobsAwaited
      <4> QED
        BY <4>1, <4>2
    <3>4. /\ worker' = [worker EXCEPT ![w] = IdleWorker] /\ task' \in [Uploads -> Queue]
          /\ \A i \in Uploads \ {j} : task'[i] = task[i]
          /\ unattended' \in {unattended, unattended \cup {j}}
      BY <1>1, <1>2, <3>1, Refused
    <3> QED
      BY <3>1, <3>3, <3>4, Types DEF Inv
  <2>2. CASE DeleteArtifact(w)
    <3>1. /\ worker[w].pc = "delete" /\ job' = job /\ task' = task /\ unattended' = unattended
          /\ worker' = [worker EXCEPT ![w] = IdleWorker]
      BY <2>2 DEF DeleteArtifact, Acknowledges, Rests
    <3>2. Awaited(j) => Awaited(j)'
      BY <1>1, <3>1, Leaves
    <3> QED
      BY <3>1, <3>2, Types DEF Inv, JobsAwaited
  <2>3. CASE MarkAttemptFailed(w)
    <3>1. PICK s \in {"FAILED", "QUEUED"} :
              /\ Put(j, [job[j] EXCEPT !.status = s, !.lease = "none"])
              /\ s = "FAILED" => Acknowledges(w)
              /\ s = "QUEUED" => IF worker[w].heard THEN Refuses(w)
                                 ELSE Rests(w) /\ unattended' = unattended \cup {j} /\ task' = task
      BY <1>2, <2>3 DEF MarkAttemptFailed
    <3>2. /\ job' \in [Uploads -> Job] /\ job'[j].status = s
          /\ \A i \in Uploads \ {j} : job'[i] = job[i]
      BY <3>1, StatusWritten DEF Statuses
    <3>3. CASE s = "FAILED"
      BY <3>1, <3>2, <3>3, Types DEF Acknowledges, Rests, Unsettled, Inv
    <3>4. CASE s = "QUEUED"
      <4>1. CASE worker[w].heard
        BY <1>1, <1>2, <3>1, <3>2, <3>4, <4>1, Refused
      <4>2. CASE ~worker[w].heard
        <5>1. /\ worker' = [worker EXCEPT ![w] = IdleWorker] /\ task' = task
              /\ unattended' = unattended \cup {j}
          BY <3>1, <3>4, <4>2 DEF Rests
        <5>2. Awaited(j)'
          BY <5>1 DEF Awaited
        <5> QED
          BY <3>2, <3>4, <5>1, <5>2, Types DEF Inv
      <4> QED
        BY <4>1, <4>2
    <3> QED
      BY <3>3, <3>4
  <2> QED
    BY <2>1, <2>2, <2>3
<1>4. job'[j].status = "READY" => Written(j)'
  BY <1>1, <1>3 DEF Inv, DraftsKnown, Written
<1>5. HandKnown(IdleWorker) /\ IdleWorker \in Hand /\ IdleWorker.job = None
      /\ IdleWorker.pc # "ready"
  BY IdleTypes DEF HandKnown
<1>6. /\ newCases' \in 0..CaseLimit /\ callCount' \in 0..CallLimit
      /\ written' \in [Uploads -> Nat] /\ written'[j] >= written[j]
      /\ \A i \in Uploads \ {j} : written'[i] = written[i]
  BY <1>1 DEF Inv, TypeOK
<1>7. PICK x \in Hand : x = IdleWorker
  BY <1>5
<1>8. worker' = [worker EXCEPT ![w] = x] /\ HandKnown(x) /\ x.job \in {j, None} /\ x.pc # "ready"
      /\ worker[w].job \in {j, None}
  BY <1>2, <1>3, <1>5, <1>7
<1> QED
  BY <1>1, <1>2, <1>3, <1>4, <1>6, <1>8, DraftsStay, WorkerMoves

\* The queue stops listening and owes the task again.
LEMMA OverrunsKeeps ==
    ASSUME Inv, NEW w \in Workers, Overruns(w)
    PROVE  Inv'
<1>1. /\ worker[w].pc \notin {"idle", "busy"} /\ worker[w].job \in Uploads
      /\ worker[w] \in Hand /\ Touched(worker[w].job)
      /\ UNCHANGED <<job, analysisDedupe, artifact, draft, intakeDedupe, newCases, callCount,
                     upload, retry, retries, written, outlived>>
      /\ TryAgain(worker[w].job, worker[w].try) /\ troubles' \in 0..MaxTroubles
  BY WorkerBusy, Troubles DEF Overruns, Working, stores, Inv
<1>2. PICK x \in Hand : /\ worker' = [worker EXCEPT ![w] = x] /\ x.pc = worker[w].pc
                        /\ x.job = worker[w].job
  <2>1. /\ [worker[w] EXCEPT !.heard = FALSE] \in Hand
        /\ [worker[w] EXCEPT !.heard = FALSE].pc = worker[w].pc
        /\ [worker[w] EXCEPT !.heard = FALSE].job = worker[w].job
    BY <1>1 DEF Hand
  <2>2. worker' = [worker EXCEPT ![w] = [worker[w] EXCEPT !.heard = FALSE]]
    BY DEF Overruns
  <2> QED
    BY <2>1, <2>2
<1>3. PICK j \in Uploads : j = worker[w].job
  BY <1>1
<1>4. /\ task' \in [Uploads -> Queue] /\ Awaited(j)'
      /\ \A i \in Uploads \ {j} : task'[i] = task[i]
      /\ unattended' \in {unattended, unattended \cup {j}}
  <2>1. worker[w].try \in Tries
    BY <1>1 DEF Hand
  <2> QED
    BY <1>1, <1>3, <2>1, TriedAgain
<1>5. HandKnown(x)
  BY <1>1, <1>2 DEF HandKnown
<1>6. Written(j) => Written(j)'
  BY <1>1 DEF Written
<1>7. /\ job' \in [Uploads -> Job] /\ artifact' \in BOOLEAN /\ newCases' \in 0..CaseLimit
      /\ callCount' \in 0..CallLimit
      /\ written' \in [Uploads -> Nat] /\ written'[j] >= written[j]
  BY <1>1 DEF Inv, TypeOK
<1>8. /\ x.pc = "ready" => Written(j)'
      /\ job'[j].status = "READY" => Written(j)'
  BY <1>1, <1>2, <1>3, <1>6 DEF Inv, DraftsKnown
<1> QED
  BY <1>1, <1>2, <1>3, <1>4, <1>5, <1>7, <1>8, DraftsStay, WorkerMoves

\* A delivery finds an idle worker.
LEMMA Taken ==
    ASSUME Inv, NEW w \in Workers, NEW j \in Uploads,
           NEW n \in Tries, NEW step \in {"idle", "busy", "read", "failing"}, Takes(w, j, n, step)
    PROVE  \E x \in Hand :
               /\ worker' = [worker EXCEPT ![w] = x] /\ HandKnown(x) /\ x.pc = step
               /\ worker[w].job = None /\ x.job \in {j, None}
               /\ task' \in [Uploads -> Queue] /\ \A i \in Uploads \ {j} : task'[i] = task[i]
               /\ step # "idle" => Awaited(j)'
               /\ Waits(j)
<1>1. /\ worker[w] \in Hand /\ worker[w].pc = "idle" /\ worker[w].job = None
      /\ HandKnown(worker[w])
  BY Types DEF Takes, Inv, JobsKnown, HandKnown
<1>2. /\ task' \in [Uploads -> Queue] /\ Waits(j)
      /\ \A i \in Uploads \ {j} : task'[i] = task[i]
  <2>1. PICK k \in Nat : k = task[j][n] - 1
    BY Types DEF Takes, Inv, Queue
  <2>2. task' = [task EXCEPT ![j][n] = k]
    BY <2>1 DEF Takes
  <2> QED
    BY <2>2, QueueMoves DEF Takes, Waits
<1>3. CASE step = "idle"
  <2>1. worker' = [worker EXCEPT ![w] = worker[w]]
    BY <1>3, Types DEF Takes, Inv
  <2> QED
    BY <1>1, <1>2, <1>3, <2>1
<1>4. CASE step # "idle"
  <2>1. PICK x \in Hand : x = [pc |-> step, job |-> j, heard |-> TRUE, try |-> n]
    BY DEF Hand, WorkerSteps
  <2>2. worker' = [worker EXCEPT ![w] = x] /\ x.pc = step /\ x.job = j /\ x.heard
    BY <1>4, <2>1 DEF Takes
  <2>3. worker'[w] = x
    BY <2>2, Types DEF Inv
  <2>4. Awaited(j)'
    BY <1>4, <2>2, <2>3 DEF Awaited, Listened
  <2>5. HandKnown(x)
    BY <1>4, <2>2 DEF HandKnown
  <2> QED
    BY <1>1, <1>2, <2>2, <2>4, <2>5
<1> QED
  BY <1>3, <1>4

LEMMA StartKeeps ==
    ASSUME Inv, NEW w \in Workers, NEW j \in Uploads, Start(w, j) \/ StartThrows(w, j)
    PROVE  Inv'
<1>1. /\ UNCHANGED <<analysisDedupe, artifact, draft, intakeDedupe, newCases, callCount, upload,
                     retry, retries, written, outlived>>
      /\ troubles' \in 0..MaxTroubles
  BY Troubles DEF Start, StartThrows, stores, bounds, ghosts, Inv, TypeOK
<1>2. PICK n \in Tries, step \in {"idle", "busy", "read", "failing"} :
          /\ Takes(w, j, n, step)
          /\ job' \in [Uploads -> Job]
          /\ \A i \in Uploads \ {j} : job'[i] = job[i]
          /\ job'[j].status # "ABSENT" \/ job'[j].status = job[j].status
          /\ step = "idle" => job'[j].status \notin Unsettled
          /\ job'[j].status = "READY" => job[j].status = "READY"
          /\ unattended' \in {unattended, unattended \ {j}}
  <2>1. CASE \E n \in Tries : FindsLeased(w, j, n)
    BY <2>1, Types DEF FindsLeased, Leased, Inv
  <2>2. CASE \E n \in Tries : FindsSettled(w, j, n)
    BY <2>2, Types DEF FindsSettled, Settled, Unsettled, Inv
  <2>3. CASE \E n \in Tries : FindsExhausted(w, j, n)
    <3>1. PICK n \in Tries : FindsExhausted(w, j, n)
      BY <2>3
    <3>2. job' \in [Uploads -> Job] /\ job'[j].status = "FAILED"
          /\ \A i \in Uploads \ {j} : job'[i] = job[i]
      BY <3>1, StatusWritten DEF FindsExhausted, Statuses
    <3> QED
      BY <3>1, <3>2 DEF FindsExhausted, Unsettled
  <2>4. CASE \E n \in Tries : Begins(w, j, n)
    <3>0. PICK n \in Tries : Begins(w, j, n)
      BY <2>4
    <3>1. PICK y \in Job : /\ y.status = "ANALYZING"
                           /\ job' = [job EXCEPT ![j] = y]
      <4>1. job[j].attempts + 1 \in 0..MaxAttempts
        BY <3>0, Types, Limits DEF Begins, Inv, Job
      <4>2. [status |-> "ANALYZING", attempts |-> job[j].attempts + 1, lease |-> "live"] \in Job
        BY <4>1 DEF Job, Statuses, Leases
      <4> QED
        BY <3>0, <4>2 DEF Begins, Put
    <3>2. job' \in [Uploads -> Job] /\ job'[j].status = "ANALYZING"
          /\ \A i \in Uploads \ {j} : job'[i] = job[i]
      BY <3>1, Types DEF Inv
    <3>3. Takes(w, j, n, "read") /\ unattended' = unattended \ {j}
      BY <3>0 DEF Begins
    <3> QED
      BY <3>2, <3>3
  <2>5. CASE StartThrows(w, j)
    <3>1. job' = job /\ unattended' = unattended /\ \E n \in Tries : Takes(w, j, n, "failing")
      BY <2>5 DEF StartThrows, stores, ghosts
    <3> QED
      BY <3>1, Types DEF Inv
  <2> QED
    BY <2>1, <2>2, <2>3, <2>4, <2>5 DEF Start
<1>3. PICK x \in Hand :
          /\ worker' = [worker EXCEPT ![w] = x] /\ HandKnown(x) /\ x.pc = step
          /\ worker[w].job = None /\ x.job \in {j, None}
          /\ task' \in [Uploads -> Queue] /\ \A i \in Uploads \ {j} : task'[i] = task[i]
          /\ step # "idle" => Awaited(j)'
          /\ Waits(j)
  BY <1>2, Taken
<1>4. Touched(j) /\ x.pc # "ready"
  BY <1>2, <1>3 DEF Touched
<1>5. job'[j].status = "READY" => Written(j)'
  BY <1>1, <1>2 DEF Inv, DraftsKnown, Written
<1>6. /\ artifact' \in BOOLEAN /\ newCases' \in 0..CaseLimit /\ callCount' \in 0..CallLimit
      /\ written' \in [Uploads -> Nat] /\ written'[j] >= written[j]
      /\ \A i \in Uploads \ {j} : written'[i] = written[i]
  BY <1>1 DEF Inv, TypeOK
<1>7. job'[j].status \in Unsettled => Awaited(j)'
  BY <1>2, <1>3
<1>8. worker[w].job \in {j, None}
  BY <1>3
<1> QED
  BY <1>1, <1>2, <1>3, <1>4, <1>5, <1>6, <1>7, <1>8, DraftsStay, WorkerMoves

-----------------------------------------------------------------------------
(***************************************************************************)
(* Steps of uploads and retries.                                           *)
(***************************************************************************)

\* What a step of the requests that are at job j has to answer for.
LEMMA RequestMoves ==
    ASSUME Inv, NEW j \in Uploads, Touched(j),
           UNCHANGED <<analysisDedupe, worker, draft, intakeDedupe, callCount, written, outlived>>,
           upload' \in [Uploads -> Request], retry' \in [Retriers -> Retrier],
           \A u \in Uploads : RequestKnown(upload'[u]),
           \A r \in Retriers : RetrierKnown(retry'[r]),
           \A u \in Uploads : \/ upload'[u] = upload[u]
                              \/ upload[u].job \in {j, None} /\ upload'[u].job \in {j, None},
           \A r \in Retriers : \/ retry'[r] = retry[r]
                               \/ retry[r].job \in {j, None} /\ retry'[r].job \in {j, None},
           job' \in [Uploads -> Job], \A i \in Uploads \ {j} : job'[i] = job[i],
           job'[j].status # "ABSENT" \/ job'[j].status = job[j].status,
           job'[j].status = "READY" => job[j].status = "READY",
           task' \in [Uploads -> Queue], \A i \in Uploads \ {j} : task'[i] = task[i],
           unattended' \in {unattended, unattended \cup {j}, unattended \ {j}},
           artifact' \in BOOLEAN, newCases' \in 0..CaseLimit, retries' \in 0..MaxRetries,
           troubles' \in 0..MaxTroubles,
           job'[j].status \in Unsettled => Awaited(j)'
    PROVE  Inv'
<1>1. TypeOK'
  BY DEF Queue, Inv, TypeOK, Request, Retrier
<1>2. JobsKnown'
  BY DEF Inv, JobsKnown
<1>3. JobsAwaited'
  <2>1. ASSUME NEW i \in Uploads \ {j}, Awaited(i) PROVE Awaited(i)'
    <3>1. Requested(i) => Requested(i)'
      BY Limits DEF Requested
    <3>2. Listened(i) => Listened(i)'
      BY DEF Listened
    <3> QED
      BY <2>1, <3>1, <3>2 DEF Waits, Awaited
  <2> QED
    BY <2>1 DEF Inv, JobsAwaited
<1>4. OneJob'
  <2>1. ASSUME NEW i \in Uploads \ {j}, Touched(i)' PROVE Touched(i)
    BY <2>1, Limits DEF Waits, Touched
  <2>2. CASE ~outlived
    <3>1. \A i \in Uploads : Touched(i)' => i = analysisDedupe
      BY <2>1, <2>2 DEF Inv, OneJob
    <3>2. analysisDedupe # None => analysisDedupe \in Uploads /\ job'[analysisDedupe].status # "ABSENT"
      BY <2>2 DEF Inv, OneJob, TypeOK
    <3> QED
      BY <3>1, <3>2 DEF OneJob
  <2> QED
    BY <2>2 DEF OneJob
<1>5. DraftsKnown'
  BY DEF Inv, DraftsKnown, Written, OneDraft
<1> QED
  BY <1>1, <1>2, <1>3, <1>4, <1>5 DEF Inv

LEMMA UploadBusy ==
    ASSUME Inv, NEW u \in Uploads, upload[u].pc # "new"
    PROVE  upload[u] \in Request /\ upload[u].job \in Uploads /\ Touched(upload[u].job)
BY Types DEF Inv, JobsKnown, RequestKnown, Touched

\* Upload u goes on with the job it was given.
LEMMA UploadAdvances ==
    ASSUME Inv, NEW u \in Uploads, upload[u].pc # "new", NEW j \in Uploads, j = upload[u].job,
           NEW step \in UploadSteps \ {"new"}, UploadAt(u, step)
    PROVE  /\ upload' \in [Uploads -> Request]
           /\ \A v \in Uploads : RequestKnown(upload'[v])
           /\ \A v \in Uploads : \/ upload'[v] = upload[v]
                                 \/ upload[v].job \in {j, None} /\ upload'[v].job \in {j, None}
           /\ step # "answered" => Requested(j)'
<1>1. PICK x \in Request : upload' = [upload EXCEPT ![u] = x] /\ x.pc = step /\ x.job = j
  <2>1. /\ [upload[u] EXCEPT !.pc = step] \in Request
        /\ [upload[u] EXCEPT !.pc = step].pc = step
        /\ [upload[u] EXCEPT !.pc = step].job = upload[u].job
    BY UploadBusy DEF Request
  <2>2. upload' = [upload EXCEPT ![u] = [upload[u] EXCEPT !.pc = step]]
    BY DEF UploadAt
  <2> QED
    BY <2>1, <2>2
<1>2. upload'[u] = x /\ \A v \in Uploads : v # u => upload'[v] = upload[v]
  BY <1>1, Types DEF Inv
<1>3. upload' \in [Uploads -> Request]
  BY <1>1, Types DEF Inv
<1>4. RequestKnown(x)
  BY <1>1 DEF RequestKnown
<1> QED
  BY <1>1, <1>2, <1>3, <1>4 DEF Inv, JobsKnown, Requested

LEMMA RetriesStay ==
    ASSUME Inv, UNCHANGED retry
    PROVE  /\ retry' \in [Retriers -> Retrier] /\ \A r \in Retriers : RetrierKnown(retry'[r])
           /\ \A r \in Retriers : retry'[r] = retry[r]
BY Types DEF Inv, JobsKnown

LEMMA UploadsStay ==
    ASSUME Inv, UNCHANGED upload
    PROVE  /\ upload' \in [Uploads -> Request] /\ \A u \in Uploads : RequestKnown(upload'[u])
           /\ \A u \in Uploads : upload'[u] = upload[u]
BY Types DEF Inv, JobsKnown

LEMMA UploadGoesOn ==
    ASSUME Inv, NEW u \in Uploads,
           Charge(u) \/ ChargeThrows(u) \/ MarkTerminalFailure(u) \/ SaveArtifact(u)
               \/ ScheduleAnalysis(u) \/ UploadFails(u)
    PROVE  Inv'
<1>1. /\ upload[u].pc # "new"
      /\ UNCHANGED <<analysisDedupe, worker, retry, draft, intakeDedupe, callCount, retries,
                     written, outlived>>
      /\ artifact' \in BOOLEAN /\ newCases' \in 0..CaseLimit /\ troubles' \in 0..MaxTroubles
      /\ retries' \in 0..MaxRetries
  <2>1. CASE Charge(u)
    <3>1. newCases' \in 0..CaseLimit
      BY <2>1, Limits DEF Charge, Inv, TypeOK
    <3> QED
      BY <2>1, <3>1 DEF Charge, bounds, ghosts, Inv, TypeOK
  <2>2. CASE ChargeThrows(u) \/ UploadFails(u)
    BY <2>2, Troubles DEF ChargeThrows, UploadFails, stores, ghosts, Inv, TypeOK
  <2>3. CASE MarkTerminalFailure(u) \/ SaveArtifact(u) \/ ScheduleAnalysis(u)
    BY <2>3 DEF MarkTerminalFailure, SaveArtifact, ScheduleAnalysis, stores, bounds, ghosts, Inv,
                TypeOK
  <2> QED
    BY <2>1, <2>2, <2>3
<1>2. PICK j \in Uploads : j = upload[u].job /\ Touched(j)
  BY <1>1, UploadBusy
<1>3. PICK step \in UploadSteps \ {"new"} :
          /\ UploadAt(u, step)
          /\ job' \in [Uploads -> Job]
          /\ \A i \in Uploads \ {j} : job'[i] = job[i]
          /\ job'[j].status # "ABSENT" \/ job'[j].status = job[j].status
          /\ job'[j].status = "READY" => job[j].status = "READY"
          /\ task' \in [Uploads -> Queue]
          /\ \A i \in Uploads \ {j} : task'[i] = task[i]
          /\ unattended' \in {unattended, unattended \cup {j}, unattended \ {j}}
          /\ step = "answered" /\ job'[j].status \in Unsettled =>
                 Waits(j)' \/ j \in unattended'
  <2>1. CASE Charge(u) \/ ChargeThrows(u) \/ SaveArtifact(u)
    <3>1. job' = job /\ task' = task /\ unattended' = unattended
          /\ \E step \in {"save", "refuse", "schedule"} : UploadAt(u, step)
      BY <2>1 DEF Charge, ChargeThrows, SaveArtifact, stores, ghosts
    <3>2. {"save", "refuse", "schedule"} \subseteq UploadSteps \ {"new", "answered"}
      BY DEF UploadSteps
    <3> QED
      BY <3>1, <3>2, Types DEF Inv
  <2>2. CASE MarkTerminalFailure(u)
    <3>1. job' \in [Uploads -> Job] /\ job'[j].status = "FAILED"
          /\ \A i \in Uploads \ {j} : job'[i] = job[i]
      BY <1>2, <2>2, StatusWritten DEF MarkTerminalFailure, Statuses
    <3>2. task' = task /\ unattended' = unattended /\ UploadAt(u, "answered")
      BY <2>2 DEF MarkTerminalFailure, ghosts
    <3>3. job'[j].status \notin Unsettled /\ "answered" \in UploadSteps \ {"new"}
      BY <3>1 DEF Unsettled, UploadSteps
    <3> QED
      BY <3>1, <3>2, <3>3, Types DEF Inv
  <2>3. CASE ScheduleAnalysis(u)
    <3>1. job' = job /\ UploadAt(u, "answered") /\ Schedule(j)
          /\ "answered" \in UploadSteps \ {"new"}
      BY <1>2, <2>3 DEF ScheduleAnalysis, stores, UploadSteps
    <3>2. /\ task' \in [Uploads -> Queue] /\ \A i \in Uploads \ {j} : task'[i] = task[i]
          /\ unattended' = unattended \ {j} /\ Waits(j)'
      BY <3>1, Scheduled
    <3> QED
      BY <3>1, <3>2, Types DEF Inv
  <2>4. CASE UploadFails(u)
    <3>1. job' = job /\ task' = task /\ unattended' = unattended \cup {j} /\ UploadAt(u, "answered")
          /\ "answered" \in UploadSteps \ {"new"}
      BY <1>2, <2>4 DEF UploadFails, stores, UploadSteps
    <3> QED
      BY <3>1, Types DEF Inv
  <2> QED
    BY <2>1, <2>2, <2>3, <2>4
<1>4. /\ upload' \in [Uploads -> Request]
      /\ \A v \in Uploads : RequestKnown(upload'[v])
      /\ \A v \in Uploads : \/ upload'[v] = upload[v]
                            \/ upload[v].job \in {j, None} /\ upload'[v].job \in {j, None}
      /\ step # "answered" => Requested(j)'
  BY <1>1, <1>2, <1>3, UploadAdvances
<1>5. job'[j].status \in Unsettled => Awaited(j)'
  BY <1>3, <1>4 DEF Awaited
<1> QED
  BY <1>1, <1>2, <1>3, <1>4, <1>5, RetriesStay, RequestMoves

LEMMA CreateOrGetKeeps ==
    ASSUME Inv, NEW u \in Uploads, CreateOrGet(u)
    PROVE  Inv'
<1>1. /\ UNCHANGED <<artifact, draft, intakeDedupe, newCases, callCount, task, worker, retry,
                     retries, troubles, unattended, written, outlived>>
      /\ upload[u].job = None
  BY DEF CreateOrGet, bounds, ghosts, Inv, JobsKnown, RequestKnown
<1>2. CASE Remembered /\ UNCHANGED <<job, analysisDedupe>>
           /\ LET j == analysisDedupe
              IN  upload' = [upload EXCEPT ![u] =
                      [pc     |-> IF job[j].status = "READY" THEN "answered" ELSE "save",
                       job    |-> j,
                       status |-> job[j].status]]
  <2>1. PICK j \in Uploads : j = analysisDedupe /\ Touched(j)
    BY <1>2 DEF Remembered, Inv, TypeOK, Touched
  <2>2. PICK x \in Request : /\ upload' = [upload EXCEPT ![u] = x] /\ x.job = j
                             /\ x.pc = IF job[j].status = "READY" THEN "answered" ELSE "save"
    <3>1. [pc     |-> IF job[j].status = "READY" THEN "answered" ELSE "save",
           job    |-> j,
           status |-> job[j].status] \in Request
      BY Types DEF Inv, Request, Job, UploadSteps
    <3> QED
      BY <1>2, <2>1, <3>1
  <2>3. upload' \in [Uploads -> Request] /\ upload'[u] = x
        /\ \A v \in Uploads : v # u => upload'[v] = upload[v]
    BY <2>2, Types DEF Inv
  <2>4. RequestKnown(x)
    BY <2>2 DEF RequestKnown
  <2>5. \A v \in Uploads : RequestKnown(upload'[v])
    BY <2>3, <2>4 DEF Inv, JobsKnown
  <2>6. \A v \in Uploads : \/ upload'[v] = upload[v]
                           \/ upload[v].job \in {j, None} /\ upload'[v].job \in {j, None}
    BY <1>1, <2>2, <2>3
  <2>7. job'[j].status \in Unsettled => Awaited(j)'
    <3>1. ASSUME job'[j].status \in Unsettled PROVE Requested(j)'
      BY <1>2, <2>2, <2>3, <3>1 DEF Unsettled, Requested
    <3> QED
      BY <3>1 DEF Awaited
  <2>8. /\ job' \in [Uploads -> Job] /\ task' \in [Uploads -> Queue] /\ artifact' \in BOOLEAN
        /\ newCases' \in 0..CaseLimit /\ retries' \in 0..MaxRetries /\ troubles' \in 0..MaxTroubles
        /\ job' = job /\ task' = task /\ unattended' = unattended
    BY <1>1, <1>2 DEF Queue, Inv, TypeOK
  <2> QED
    BY <1>1, <1>2, <2>1, <2>3, <2>5, <2>6, <2>7, <2>8, RetriesStay, RequestMoves
<1>3. CASE ~Remembered /\ Put(u, NewJob) /\ analysisDedupe' = u
           /\ upload' = [upload EXCEPT ![u] = [pc |-> "charge", job |-> u, status |-> "QUEUED"]]
  <2>1. PICK x \in Request : upload' = [upload EXCEPT ![u] = x] /\ x.job = u /\ x.pc = "charge"
    <3>1. [pc |-> "charge", job |-> u, status |-> "QUEUED"] \in Request
      BY DEF Request, UploadSteps, Statuses
    <3> QED
      BY <1>3, <3>1
  <2>2. upload' \in [Uploads -> Request] /\ upload'[u] = x
        /\ \A v \in Uploads : v # u => upload'[v] = upload[v]
    BY <2>1, Types DEF Inv
  <2>3. /\ job' \in [Uploads -> Job] /\ job'[u].status = "QUEUED"
        /\ \A i \in Uploads : i # u => job'[i] = job[i]
    BY <1>3, JobTypes, Types DEF Inv, Put
  <2>4. TypeOK'
    BY <1>1, <1>3, <2>2, <2>3 DEF Inv, TypeOK, Request, bounds
  <2>5. RequestKnown(x)
    BY <2>1 DEF RequestKnown
  <2>6. JobsKnown'
    BY <1>1, <2>2, <2>5 DEF Inv, JobsKnown
  <2>7. JobsAwaited'
    <3>1. Requested(u)'
      BY <2>1, <2>2 DEF Requested
    <3>2. ASSUME NEW i \in Uploads, i # u, Awaited(i) PROVE Awaited(i)'
      <4>1. Requested(i) => Requested(i)'
        BY <1>1, <2>2, Limits DEF Requested
      <4>2. Listened(i) => Listened(i)'
        BY <1>1 DEF Listened
      <4> QED
        BY <1>1, <3>2, <4>1, <4>2 DEF Waits, Awaited
    <3>3. Awaited(u)'
      BY <3>1 DEF Awaited
    <3> QED
      BY <2>3, <3>2, <3>3 DEF Inv, JobsAwaited
  <2>8. OneJob'
    <3>1. ASSUME NEW i \in Uploads, i # u, Touched(i)' PROVE Touched(i)
      BY <1>1, <2>1, <2>2, <2>3, <3>1 DEF Waits, Touched
    <3>2. CASE ~outlived
      <4>1. analysisDedupe = None
        BY <1>3, <3>2 DEF Remembered, Inv, OneJob
      <4>2. \A i \in Uploads : ~Touched(i)
        BY <3>2, <4>1, Limits DEF Inv, OneJob
      <4>3. \A i \in Uploads : Touched(i)' => i = u
        BY <3>1, <4>2
      <4>4. job'[u].status # "ABSENT"
        BY <2>3
      <4> QED
        BY <1>3, <4>3, <4>4 DEF OneJob
    <3> QED
      BY <1>1, <3>2 DEF OneJob
  <2>9. DraftsKnown'
    <3>1. \A i \in Uploads : Written(i) => Written(i)'
      BY <1>1 DEF Written
    <3>2. \A i \in Uploads : job'[i].status = "READY" => job[i].status = "READY"
      BY <2>3
    <3> QED
      BY <1>1, <3>1, <3>2 DEF Inv, DraftsKnown, OneDraft
  <2> QED
    BY <2>4, <2>6, <2>7, <2>8, <2>9 DEF Inv
<1> QED
  BY <1>2, <1>3 DEF CreateOrGet

LEMMA RetryKeeps ==
    ASSUME Inv, NEW r \in Retriers,
           (\E j \in Uploads : RetryReads(r, j)) \/ RetryWrites(r) \/ RetrySchedules(r)
               \/ RetryFails(r)
    PROVE  Inv'
<1>1. /\ UNCHANGED <<analysisDedupe, worker, upload, draft, intakeDedupe, callCount, written,
                     outlived, artifact, newCases>>
      /\ retries' \in 0..MaxRetries /\ troubles' \in 0..MaxTroubles
  <2>1. CASE \E j \in Uploads : RetryReads(r, j)
    <3>1. retries' \in 0..MaxRetries
      BY <2>1, Limits DEF RetryReads, Inv, TypeOK
    <3> QED
      BY <2>1, <3>1 DEF RetryReads, stores, ghosts, Inv, TypeOK
  <2>2. CASE RetryFails(r)
    BY <2>2, Troubles DEF RetryFails, stores, Inv, TypeOK
  <2>3. CASE RetryWrites(r) \/ RetrySchedules(r)
    BY <2>3 DEF RetryWrites, RetrySchedules, stores, bounds, ghosts, Inv, TypeOK
  <2> QED
    BY <2>1, <2>2, <2>3
<1>2. retry[r] \in Retrier /\ (retry[r].pc = "idle" => retry[r].job = None)
      /\ (retry[r].pc # "idle" => retry[r].job \in Uploads /\ Touched(retry[r].job))
  BY Types DEF Inv, JobsKnown, RetrierKnown, Touched
<1>3. PICK j \in Uploads, x \in Retrier :
          /\ Touched(j) /\ retry[r].job \in {j, None} /\ x.job \in {j, None}
          /\ RetrierKnown(x)
          /\ retry' = [retry EXCEPT ![r] = x]
          /\ job' \in [Uploads -> Job]
          /\ \A i \in Uploads \ {j} : job'[i] = job[i]
          /\ job'[j].status # "ABSENT" \/ job'[j].status = job[j].status
          /\ job'[j].status = "READY" => job[j].status = "READY"
          /\ task' \in [Uploads -> Queue]
          /\ \A i \in Uploads \ {j} : task'[i] = task[i]
          /\ unattended' \in {unattended, unattended \cup {j}, unattended \ {j}}
          /\ x.job = j \/ Waits(j)' \/ j \in unattended'
  <2>1. ASSUME NEW j \in Uploads, RetryReads(r, j)
        PROVE  \E x \in Retrier :
                   /\ retry' = [retry EXCEPT ![r] = x] /\ x.job = j /\ RetrierKnown(x)
                   /\ Touched(j) /\ retry[r].job = None
    <3>1. PICK step \in {"write", "schedule"} :
              retry' = [retry EXCEPT ![r] = [pc |-> step, job |-> j]]
      BY <2>1 DEF RetryReads
    <3>2. [pc |-> step, job |-> j] \in Retrier /\ RetrierKnown([pc |-> step, job |-> j])
      BY DEF Retrier, RetrySteps, RetrierKnown
    <3>3. Touched(j) /\ retry[r].job = None
      BY <1>2, <2>1 DEF RetryReads, Touched
    <3> QED
      BY <3>1, <3>2, <3>3
  <2>2. CASE \E j \in Uploads : RetryReads(r, j)
    <3>1. PICK j \in Uploads : RetryReads(r, j)
      BY <2>2
    <3>2. PICK x \in Retrier :
              /\ retry' = [retry EXCEPT ![r] = x] /\ x.job = j /\ RetrierKnown(x)
              /\ Touched(j) /\ retry[r].job = None
      BY <2>1, <3>1
    <3>3. job' = job /\ task' = task /\ unattended' = unattended
      BY <3>1 DEF RetryReads, stores, ghosts
    <3> QED
      BY <3>2, <3>3, Types DEF Inv
  <2>3. CASE RetryWrites(r)
    <3>1. PICK j \in Uploads : j = retry[r].job /\ Touched(j)
      BY <1>2, <2>3 DEF RetryWrites
    <3>2. PICK x \in Retrier : retry' = [retry EXCEPT ![r] = x] /\ x.job = j /\ RetrierKnown(x)
      <4>1. /\ [retry[r] EXCEPT !.pc = "schedule"] \in Retrier
            /\ [retry[r] EXCEPT !.pc = "schedule"].job = retry[r].job
            /\ [retry[r] EXCEPT !.pc = "schedule"].pc = "schedule"
        BY <1>2 DEF Retrier, RetrySteps
      <4>2. retry' = [retry EXCEPT ![r] = [retry[r] EXCEPT !.pc = "schedule"]]
        BY <2>3 DEF RetryWrites
      <4>3. RetrierKnown([retry[r] EXCEPT !.pc = "schedule"])
        BY <3>1, <4>1 DEF RetrierKnown
      <4> QED
        BY <3>1, <4>1, <4>2, <4>3
    <3>3. /\ job' \in [Uploads -> Job] /\ job'[j].status = "QUEUED"
          /\ \A i \in Uploads \ {j} : job'[i] = job[i]
      BY <2>3, <3>1, JobTypes, Types DEF RetryWrites, Put, Inv
    <3>4. task' = task /\ unattended' = unattended
      BY <2>3 DEF RetryWrites, ghosts
    <3> QED
      BY <3>1, <3>2, <3>3, <3>4, Types DEF Inv
  <2>4. CASE RetrySchedules(r) \/ RetryFails(r)
    <3>1. PICK j \in Uploads : j = retry[r].job /\ Touched(j)
      BY <1>2, <2>4 DEF RetrySchedules, RetryFails
    <3>2. PICK x \in Retrier : x = IdleRetry /\ x.job = None /\ RetrierKnown(x)
      BY IdleTypes DEF RetrierKnown
    <3>3. retry' = [retry EXCEPT ![r] = x] /\ job' = job
      BY <2>4, <3>2 DEF RetrySchedules, RetryFails, stores
    <3>4. /\ task' \in [Uploads -> Queue]
          /\ \A i \in Uploads \ {j} : task'[i] = task[i]
          /\ unattended' \in {unattended, unattended \cup {j}, unattended \ {j}}
          /\ Waits(j)' \/ j \in unattended'
      <4>1. CASE RetrySchedules(r)
        BY <3>1, <4>1, Scheduled DEF RetrySchedules
      <4>2. CASE RetryFails(r)
        BY <3>1, <4>2, Types DEF RetryFails, Inv
      <4> QED
        BY <2>4, <4>1, <4>2
    <3> QED
      BY <3>1, <3>2, <3>3, <3>4, Types DEF Inv
  <2> QED
    BY <2>2, <2>3, <2>4
<1>4. retry'[r] = x /\ retry' \in [Retriers -> Retrier]
      /\ \A s \in Retriers : s # r => retry'[s] = retry[s]
  BY <1>3, Types DEF Inv
<1>5. /\ \A s \in Retriers : RetrierKnown(retry'[s])
      /\ \A s \in Retriers : \/ retry'[s] = retry[s]
                             \/ retry[s].job \in {j, None} /\ retry'[s].job \in {j, None}
  BY <1>3, <1>4 DEF Inv, JobsKnown
<1>6. Awaited(j)'
  BY <1>3, <1>4 DEF Awaited, Requested
<1>7. artifact' \in BOOLEAN /\ newCases' \in 0..CaseLimit
  BY <1>1 DEF Inv, TypeOK
<1> QED
  BY <1>1, <1>3, <1>4, <1>5, <1>6, <1>7, UploadsStay, RequestMoves

-----------------------------------------------------------------------------
(***************************************************************************)
(* Leases, deletions and expiries, and the invariant.                      *)
(***************************************************************************)

\* Steps of nobody who holds a job: a job keeps its status, or expires.
LEMMA AsideKeeps ==
    ASSUME Inv,
           UNCHANGED <<analysisDedupe, artifact, newCases, callCount, task, upload, worker, retry,
                       retries, unattended, written>>,
           job' \in [Uploads -> Job], outlived' \in BOOLEAN, outlived => outlived',
           \A j \in Uploads : \/ job'[j].status = job[j].status
                              \/ job'[j].status = "ABSENT" /\ outlived',
           draft' \subseteq draft, OneDraft', intakeDedupe' \in Uploads \cup {None},
           troubles' \in 0..MaxTroubles
    PROVE  Inv'
<1>1. TypeOK'
  BY DEF Inv, TypeOK
<1>2. JobsKnown'
  BY DEF Inv, JobsKnown
<1>3. JobsAwaited'
  <2>1. \A j \in Uploads : Awaited(j) => Awaited(j)'
    BY DEF Waits, Awaited, Listened, Requested
  <2> QED
    BY <2>1 DEF Inv, JobsAwaited, Unsettled
<1>4. OneJob'
  <2>1. CASE ~outlived'
    <3>1. \A j \in Uploads : job'[j].status = job[j].status
      BY <2>1
    <3>2. \A j \in Uploads : Touched(j)' => Touched(j)
      BY <3>1 DEF Waits, Touched
    <3>3. analysisDedupe # None => analysisDedupe \in Uploads
      BY DEF Inv, TypeOK
    <3> QED
      BY <2>1, <3>1, <3>2, <3>3 DEF Inv, OneJob
  <2> QED
    BY <2>1 DEF OneJob
<1>5. DraftsKnown'
  <2>1. \A j \in Uploads : Written(j) => Written(j)'
    BY DEF Written
  <2> QED
    BY <2>1 DEF Inv, DraftsKnown
<1> QED
  BY <1>1, <1>2, <1>3, <1>4, <1>5 DEF Inv

LEMMA LeaseEndsKeeps ==
    ASSUME Inv, NEW j \in Uploads, LeaseEnds(j)
    PROVE  Inv'
<1>1. PICK y \in Job : job' = [job EXCEPT ![j] = y] /\ y.status = job[j].status
  <2>1. [job[j] EXCEPT !.lease = "past"] \in Job
        /\ [job[j] EXCEPT !.lease = "past"].status = job[j].status
    BY Types DEF Inv, Job, Leases
  <2> QED
    BY <2>1 DEF LeaseEnds, Put
<1>2. job' \in [Uploads -> Job] /\ \A i \in Uploads : job'[i].status = job[i].status
  BY <1>1, Types DEF Inv
<1> QED
  BY <1>2, DraftsStay, AsideKeeps DEF LeaseEnds, bounds, ghosts, Inv, TypeOK

LEMMA DeleteDraftKeeps ==
    ASSUME Inv, NEW c \in Uploads, DeleteDraft(c)
    PROVE  Inv'
<1>1. draft = {c}
  BY DEF DeleteDraft, Inv, DraftsKnown, OneDraft
<1>2. draft' = {} /\ intakeDedupe' = None
  BY <1>1 DEF DeleteDraft
<1>3. OneDraft'
  BY <1>2 DEF OneDraft
<1>4. troubles' \in 0..MaxTroubles
  BY Troubles DEF DeleteDraft, Inv
<1>5. job' = job /\ outlived' = outlived
  BY DEF DeleteDraft, ghosts
<1> QED
  BY <1>2, <1>3, <1>4, <1>5, AsideKeeps DEF DeleteDraft, ghosts, Inv, TypeOK

LEMMA JobExpiresKeeps ==
    ASSUME Inv, NEW j \in Uploads, JobExpires(j)
    PROVE  Inv'
<1>1. /\ job' \in [Uploads -> Job] /\ job'[j].status = "ABSENT"
      /\ \A i \in Uploads : i # j => job'[i] = job[i]
  BY JobTypes, Types DEF JobExpires, Put, Inv
<1>2. troubles' \in 0..MaxTroubles
  BY Troubles DEF JobExpires, Inv
<1>3. UNCHANGED <<draft, intakeDedupe, written>>
  BY DEF JobExpires
<1>4. \A i \in Uploads : \/ job'[i].status = job[i].status
                         \/ job'[i].status = "ABSENT" /\ outlived'
  BY <1>1 DEF JobExpires
<1> QED
  BY <1>1, <1>2, <1>3, <1>4, DraftsStay, AsideKeeps DEF JobExpires

LEMMA NextKeeps ==
    ASSUME Inv, [Next]_vars
    PROVE  Inv'
<1>1. CASE \E u \in Uploads : UploadStep(u) \/ ChargeThrows(u) \/ UploadFails(u)
  BY <1>1, CreateOrGetKeeps, UploadGoesOn DEF UploadStep
<1>2. CASE \E w \in Workers, j \in Uploads : Start(w, j) \/ StartThrows(w, j)
  BY <1>2, StartKeeps
<1>3. CASE \E w \in Workers : WorkerStep(w) \/ WorkerThrows(w) \/ WorkerDies(w) \/ Overruns(w)
  BY <1>3, AnalysisKeeps, CreateDraftKeeps, MarkReadyKeeps, WorkerEndsKeeps, OverrunsKeeps
     DEF WorkerStep
<1>4. CASE \/ \E r \in Retriers, j \in Uploads : RetryReads(r, j)
           \/ \E r \in Retriers : RetryStep(r) \/ RetryFails(r)
  BY <1>4, RetryKeeps DEF RetryStep
<1>5. CASE \E j \in Uploads : LeaseEnds(j) \/ DeleteDraft(j) \/ JobExpires(j)
  BY <1>5, LeaseEndsKeeps, DeleteDraftKeeps, JobExpiresKeeps
<1>6. CASE UNCHANGED vars
  <2>1. UNCHANGED <<job, analysisDedupe, artifact, draft, intakeDedupe, newCases, callCount, task,
                    upload, worker, retry, retries, troubles, unattended, written, outlived>>
    BY <1>6 DEF vars, stores, bounds, ghosts
  <2> QED
    BY <2>1, DraftsStay, AsideKeeps DEF Inv, TypeOK
<1> QED
  BY <1>1, <1>2, <1>3, <1>4, <1>5, <1>6 DEF Next

\* Jobs are seen to, of a source there is one, and its draft is there before it is READY.
THEOREM Invariance == Spec => []Inv
<1>1. Init => Inv
  BY InitInv
<1>2. Inv /\ [Next]_vars => Inv'
  BY NextKeeps
<1> QED
  BY <1>1, <1>2, PTL DEF Spec

\* Every variable stays within its type, whatever the numbers of requests and workers.
THEOREM TypeCorrect == Spec => []TypeOK
<1>1. Inv => TypeOK
  BY DEF Inv
<1> QED
  BY <1>1, Invariance, PTL

\* No interleaving of uploads, workers, retries, crashes and overruns leaves a job that is
\* not settled to nobody (start, markAttemptFailed, retryOwned, handleAnalysisIntake).
THEOREM JobsStayAttended == Spec => []JobsAttended
<1>1. Inv => JobsAttended
  <2>1. \A j \in Uploads : Awaited(j) => Attended(j) \/ j \in unattended
    BY DEF Awaited, Listened, Requested, Attended
  <2> QED
    BY <2>1 DEF Inv, JobsAwaited, JobsAttended
<1> QED
  BY <1>1, Invariance, PTL

\* A job is READY only once the draft of its case was written, as long as no job of the
\* source expired (findByDedupeKey, createDraft, markReady).
THEOREM ReadyMeansDrafted == Spec => []ReadyHasDraft
<1>1. Inv => ReadyHasDraft
  BY DEF Inv, DraftsKnown, Written, ReadyHasDraft
<1> QED
  BY <1>1, Invariance, PTL

LEMMA WritesDrafts ==
    ASSUME Inv, [Next]_vars
    PROVE  written' = written \/ draft = {}
<1>1. CASE \E w \in Workers : CreateDraft(w)
  BY <1>1, Limits DEF CreateDraft, Inv, TypeOK, DraftsKnown, OneDraft
<1>2. CASE /\ Next
           /\ ~\E w \in Workers : CreateDraft(w)
  <2>1. CASE \E u \in Uploads : UploadStep(u) \/ ChargeThrows(u) \/ UploadFails(u)
    BY <2>1 DEF UploadStep, CreateOrGet, Charge, ChargeThrows, MarkTerminalFailure, SaveArtifact,
                ScheduleAnalysis, UploadFails, ghosts
  <2>2. CASE \E w \in Workers, j \in Uploads : Start(w, j) \/ StartThrows(w, j)
    BY <2>2 DEF Start, StartThrows, ghosts
  <2>3. CASE \E w \in Workers : WorkerStep(w) \/ WorkerThrows(w) \/ WorkerDies(w) \/ Overruns(w)
    BY <1>2, <2>3 DEF WorkerStep, AnswerBusy, ReadArtifact, FindDraft, ReserveModelCall, Extract,
                      MarkReady, DeleteArtifact, MarkAttemptFailed, WorkerThrows, WorkerDies,
                      Overruns, ghosts
  <2>4. CASE \/ \E r \in Retriers, j \in Uploads : RetryReads(r, j)
             \/ \E r \in Retriers : RetryStep(r) \/ RetryFails(r)
    BY <2>4 DEF RetryReads, RetryStep, RetryWrites, RetrySchedules, RetryFails, ghosts
  <2>5. CASE \E j \in Uploads : LeaseEnds(j) \/ DeleteDraft(j) \/ JobExpires(j)
    BY <2>5 DEF LeaseEnds, DeleteDraft, JobExpires, ghosts
  <2> QED
    BY <1>2, <2>1, <2>2, <2>3, <2>4, <2>5 DEF Next
<1>3. CASE UNCHANGED vars
  BY <1>3 DEF vars, ghosts
<1> QED
  BY <1>1, <1>2, <1>3

\* What the owner may already be reviewing is not overwritten by a late worker
\* (createDraft looks for the key in its transaction).
THEOREM DraftsAreNotRewritten == Spec => DraftsStand
<1> DEFINE Stand == \A c \in Uploads : c \in draft /\ c \in draft' => written'[c] = written[c]
<1>1. Inv /\ [Next]_vars => [Stand]_vars
  BY WritesDrafts
<1>2. Spec => [][Stand]_vars
  BY <1>1, Invariance, PTL DEF Spec
<1> QED
  BY <1>2 DEF DraftsStand
==============================================================================
