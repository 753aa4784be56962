---------------------------- MODULE Preparation -----------------------------
(***************************************************************************)
(* How a promise becomes a draft that the owner can review: uploads, the   *)
(* analysis job, its tasks, the workers that analyse, and the owner's      *)
(* retries.                                                                *)
(*                                                                         *)
(* One owner uploads one source, perhaps several times.  Every upload      *)
(* brings a job and a case of its own, used only if no job of the source   *)
(* is remembered, so both are identified by the upload.  The artifact's    *)
(* path and the counters of model calls belong to the source.              *)
(*                                                                         *)
(* A worker's lease (90 s) is "live" until it is "past"; when that happens *)
(* is left open.  The queue dueback-cases delivers a task again when it is *)
(* answered with an error, or not in time, but MaxTries times at the most. *)
(***************************************************************************)
EXTENDS Integers, FiniteSets

CONSTANTS
    Uploads,      \* POST /api/intake, each for the same source
    Workers,      \* deliveries of analysis tasks handled at once
    Retriers,     \* POST /api/cases/.../analysis
    None,
    MaxAttempts,  \* analyses before the owner must retry, 3 in the product
    MaxTries,     \* deliveries of one task, 5 in the product (queue.yaml)
    CaseLimit,    \* newCasesPerIdentityPerDay, 10 in the product
    CallLimit,    \* modelCallsPerNormalCase, 4 in the product
    MaxRetries,   \* bound: retries by the owner
    MaxTroubles   \* bound: failed awaits, crashes, overruns, deletions and expiries

ASSUME PreparationAssumption ==
    /\ None \notin Uploads
    /\ {MaxAttempts, MaxTries} \subseteq Nat \ {0}
    /\ {CaseLimit, CallLimit, MaxRetries, MaxTroubles} \subseteq Nat

VARIABLES
    job,            \* analysisJobs
    analysisDedupe, \* analysisDedupe of the source: the upload whose job it names
    artifact,       \* whether the private artifact is stored
    draft,          \* caseDrafts: the cases with a draft
    intakeDedupe,   \* intakeDedupe of the source: the case it names
    newCases,       \* securityBudgets of the owner
    callCount,      \* modelUsage of the source
    task,           \* how many tasks of a job wait for which of their deliveries
    upload,         \* an upload: its next await, the job it was given, its status then
    worker,         \* a worker: its next await, its job, whether the queue still waits,
                    \* and which delivery of the task this is
    retry,          \* a retry: its next await and its job
    retries, troubles,
    unattended,     \* jobs that an upload, a retry, a late answer or the queue gave up,
                    \* until one is scheduled or taken up again
    written,        \* how often the draft of a case was written
    outlived        \* whether a job has expired

stores == <<job, analysisDedupe, artifact, draft, intakeDedupe, newCases, callCount>>
bounds == <<retries, troubles>>
ghosts == <<unattended, written, outlived>>
vars == <<stores, task, upload, worker, retry, bounds, ghosts>>

Statuses == {"ABSENT", "QUEUED", "ANALYZING", "READY", "FAILED"}
Leases == {"none", "live", "past"}
Tries == 1..MaxTries
Job == [status : Statuses, attempts : 0..MaxAttempts, lease : Leases]
NoJob == [status |-> "ABSENT", attempts |-> 0, lease |-> "none"]
NewJob == [NoJob EXCEPT !.status = "QUEUED"]
Unsettled == {"QUEUED", "ANALYZING"}

UploadSteps == {"new", "charge", "refuse", "save", "schedule", "answered"}
WorkerSteps == {"idle", "read", "find", "reserve", "extract", "create", "ready", "delete",
                "failing", "busy"}
RetrySteps == {"idle", "write", "schedule"}

TypeOK ==
    /\ job \in [Uploads -> Job]
    /\ analysisDedupe \in Uploads \cup {None}
    /\ artifact \in BOOLEAN
    /\ draft \subseteq Uploads
    /\ intakeDedupe \in Uploads \cup {None}
    /\ newCases \in 0..CaseLimit
    /\ callCount \in 0..CallLimit
    /\ task \in [Uploads -> [Tries -> Nat]]
    /\ upload \in [Uploads -> [pc : UploadSteps, job : Uploads \cup {None}, status : Statuses]]
    /\ worker \in [Workers -> [pc : WorkerSteps, job : Uploads \cup {None}, heard : BOOLEAN,
                               try : Tries]]
    /\ retry \in [Retriers -> [pc : RetrySteps, job : Uploads \cup {None}]]
    /\ retries \in 0..MaxRetries
    /\ troubles \in 0..MaxTroubles
    /\ unattended \subseteq Uploads
    /\ written \in [Uploads -> Nat]
    /\ outlived \in BOOLEAN

IdleWorker == [pc |-> "idle", job |-> None, heard |-> TRUE, try |-> 1]
IdleRetry == [pc |-> "idle", job |-> None]

Init ==
    /\ job = [u \in Uploads |-> NoJob]
    /\ analysisDedupe = None
    /\ artifact = FALSE
    /\ draft = {}
    /\ intakeDedupe = None
    /\ newCases = 0
    /\ callCount = 0
    /\ task = [u \in Uploads |-> [n \in Tries |-> 0]]
    /\ upload = [u \in Uploads |-> [pc |-> "new", job |-> None, status |-> "ABSENT"]]
    /\ worker = [w \in Workers |-> IdleWorker]
    /\ retry = [r \in Retriers |-> IdleRetry]
    /\ retries = 0 /\ troubles = 0
    /\ unattended = {}
    /\ written = [u \in Uploads |-> 0]
    /\ outlived = FALSE

Put(j, next) == job' = [job EXCEPT ![j] = next]
Waits(j) == \E n \in Tries : task[j][n] > 0
Trouble == troubles < MaxTroubles /\ troubles' = troubles + 1

\* A new task of job j: whoever left the job before, it is attended again.
Schedule(j) ==
    /\ task' = [task EXCEPT ![j][1] = @ + 1]
    /\ unattended' = unattended \ {j}

\* The n-th delivery of a task of job j failed; after the last one the queue drops it.
TryAgain(j, n) ==
    IF n < MaxTries
    THEN task' = [task EXCEPT ![j][n + 1] = @ + 1] /\ UNCHANGED unattended
    ELSE unattended' = unattended \cup {j} /\ UNCHANGED task

-----------------------------------------------------------------------------
(***************************************************************************)
(* handleAnalysisIntake.                                                   *)
(***************************************************************************)

UploadAt(u, step) == upload' = [upload EXCEPT ![u].pc = step]

\* The job of the source that is remembered, and exists.
Remembered == analysisDedupe # None /\ job[analysisDedupe].status # "ABSENT"

\* createOrGet, one transaction.  A duplicate is not charged, and not saved or
\* scheduled again once it is READY.
CreateOrGet(u) ==
    /\ upload[u].pc = "new"
    /\ \/ /\ Remembered
          /\ LET j == analysisDedupe
             IN  upload' = [upload EXCEPT ![u] =
                     [pc     |-> IF job[j].status = "READY" THEN "answered" ELSE "save",
                      job    |-> j,
                      status |-> job[j].status]]
          /\ UNCHANGED <<job, analysisDedupe>>
       \/ /\ ~Remembered
          /\ Put(u, NewJob)
          /\ analysisDedupe' = u
          /\ upload' = [upload EXCEPT ![u] = [pc |-> "charge", job |-> u, status |-> "QUEUED"]]
    /\ UNCHANGED <<artifact, draft, intakeDedupe, newCases, callCount, task, worker, retry,
                   bounds, ghosts>>

\* consumeNewCaseBudget.
Charge(u) ==
    /\ upload[u].pc = "charge"
    /\ \/ /\ newCases < CaseLimit
          /\ newCases' = newCases + 1
          /\ UploadAt(u, "save")
       \/ /\ newCases = CaseLimit
          /\ UploadAt(u, "refuse")
          /\ UNCHANGED newCases
    /\ UNCHANGED <<job, analysisDedupe, artifact, draft, intakeDedupe, callCount, task, worker,
                   retry, bounds, ghosts>>

\* consumeBudget throws something else; the request fails in the same way.
ChargeThrows(u) ==
    /\ upload[u].pc = "charge"
    /\ Trouble
    /\ UploadAt(u, "refuse")
    /\ UNCHANGED <<stores, task, worker, retry, retries, ghosts>>

\* markTerminalFailure writes without reading: whatever the job has become since.
MarkTerminalFailure(u) ==
    /\ upload[u].pc = "refuse"
    /\ Put(upload[u].job, [job[upload[u].job] EXCEPT !.status = "FAILED", !.lease = "none"])
    /\ UploadAt(u, "answered")
    /\ UNCHANGED <<analysisDedupe, artifact, draft, intakeDedupe, newCases, callCount, task,
                   worker, retry, bounds, ghosts>>

SaveArtifact(u) ==
    /\ upload[u].pc = "save"
    /\ artifact' = TRUE
    /\ UploadAt(u, "schedule")
    /\ UNCHANGED <<job, analysisDedupe, draft, intakeDedupe, newCases, callCount, task, worker,
                   retry, bounds, ghosts>>

\* scheduleAnalysis; the time of the request is part of the task's name.
ScheduleAnalysis(u) ==
    /\ upload[u].pc = "schedule"
    /\ Schedule(upload[u].job)
    /\ UploadAt(u, "answered")
    /\ UNCHANGED <<stores, worker, retry, bounds, written, outlived>>

\* The request dies, or an await of it throws, after the job was created.
UploadFails(u) ==
    /\ upload[u].pc \in {"charge", "refuse", "save", "schedule"}
    /\ Trouble
    /\ UploadAt(u, "answered")
    /\ unattended' = unattended \cup {upload[u].job}
    /\ UNCHANGED <<stores, task, worker, retry, retries, written, outlived>>

-----------------------------------------------------------------------------
(***************************************************************************)
(* handleAnalysisWorker.                                                   *)
(***************************************************************************)

WorkerAt(w, step) == worker' = [worker EXCEPT ![w].pc = step]
Rests(w) == worker' = [worker EXCEPT ![w] = IdleWorker]

\* The delivery is answered: with success, or with an error, on which a queue that
\* still waits tries again.
Acknowledges(w) == Rests(w) /\ UNCHANGED <<task, unattended>>
Refuses(w) ==
    /\ Rests(w)
    /\ IF worker[w].heard THEN TryAgain(worker[w].job, worker[w].try)
       ELSE UNCHANGED <<task, unattended>>

Settled(j) == job[j].status \in {"READY", "FAILED"}
Leased(j) == job[j].status = "ANALYZING" /\ job[j].lease = "live"

\* The n-th delivery of a task of job j.
Takes(w, j, n, step) ==
    /\ task[j][n] > 0
    /\ task' = [task EXCEPT ![j][n] = @ - 1]
    /\ worker[w].pc = "idle"
    /\ worker' = IF step = "idle" THEN worker
                 ELSE [worker EXCEPT ![w] =
                          [pc |-> step, job |-> j, heard |-> TRUE, try |-> n]]

\* Mutant: a job that is being analysed is acknowledged like a settled one.
FindsLeasedAcknowledging(w, j, n) ==
    /\ Leased(j)
    /\ Takes(w, j, n, "idle")
    /\ UNCHANGED <<job, unattended>>

\* "Do not acknowledge a retry while an earlier lease is alive".
FindsLeased(w, j, n) ==
    /\ Leased(j)
    /\ Takes(w, j, n, "busy")
    /\ UNCHANGED <<job, unattended>>

FindsSettled(w, j, n) ==
    /\ Settled(j)
    /\ Takes(w, j, n, "idle")
    /\ UNCHANGED <<job, unattended>>

\* Mutant: a job out of attempts is acknowledged, but not stored as failed.
FindsExhaustedOnly(w, j, n) ==
    /\ job[j].status \in Unsettled
    /\ ~Leased(j)
    /\ job[j].attempts >= MaxAttempts
    /\ Takes(w, j, n, "idle")
    /\ UNCHANGED <<job, unattended>>

FindsExhausted(w, j, n) ==
    /\ job[j].status \in Unsettled
    /\ ~Leased(j)
    /\ job[j].attempts >= MaxAttempts
    /\ Takes(w, j, n, "idle")
    /\ Put(j, [job[j] EXCEPT !.status = "FAILED", !.lease = "none"])
    /\ UNCHANGED unattended

Begins(w, j, n) ==
    /\ job[j].status \in Unsettled
    /\ ~Leased(j)
    /\ job[j].attempts < MaxAttempts
    /\ Takes(w, j, n, "read")
    /\ Put(j, [status |-> "ANALYZING", attempts |-> job[j].attempts + 1, lease |-> "live"])
    /\ unattended' = unattended \ {j}

\* A delivery, and FirestoreAnalysisStore.start.
Start(w, j) ==
    /\ \E n \in Tries : \/ FindsLeased(w, j, n)
                       \/ FindsSettled(w, j, n)
                       \/ FindsExhausted(w, j, n)
                       \/ Begins(w, j, n)
    /\ UNCHANGED <<analysisDedupe, artifact, draft, intakeDedupe, newCases, callCount, upload,
                   retry, bounds, written, outlived>>

\* start throws inside the handler's try: a job that this delivery does not hold, and
\* that may be settled, is going to be marked as failed.
StartThrows(w, j) ==
    /\ \E n \in Tries : Takes(w, j, n, "failing")
    /\ Trouble
    /\ UNCHANGED <<stores, upload, retry, retries, ghosts>>

\* The answer 503.
AnswerBusy(w) ==
    /\ worker[w].pc = "busy"
    /\ Refuses(w)
    /\ UNCHANGED <<stores, upload, retry, bounds, written, outlived>>

\* storage.read throws when the artifact is gone.
ReadArtifact(w) ==
    /\ worker[w].pc = "read"
    /\ WorkerAt(w, IF artifact THEN "find" ELSE "failing")
    /\ UNCHANGED <<stores, task, upload, retry, bounds, ghosts>>

\* findByDedupeKey: a draft of the source, of whichever case, is the result.
FindDraft(w) ==
    /\ worker[w].pc = "find"
    /\ WorkerAt(w, IF intakeDedupe \in draft THEN "ready" ELSE "reserve")
    /\ UNCHANGED <<stores, task, upload, retry, bounds, ghosts>>

\* reserveModelCallBudget.
ReserveModelCall(w) ==
    /\ worker[w].pc = "reserve"
    /\ \/ /\ callCount < CallLimit
          /\ callCount' = callCount + 1
          /\ WorkerAt(w, "extract")
       \/ /\ callCount = CallLimit
          /\ WorkerAt(w, "failing")
          /\ UNCHANGED callCount
    /\ UNCHANGED <<job, analysisDedupe, artifact, draft, intakeDedupe, newCases, task, upload,
                   retry, bounds, ghosts>>

\* Mutant: the job is READY as soon as the model has answered.
ExtractAndReady(w) ==
    /\ worker[w].pc = "extract"
    /\ \E step \in {"ready", "failing"} : WorkerAt(w, step)
    /\ UNCHANGED <<stores, task, upload, retry, bounds, ghosts>>

\* The model answers, or not, or with what the schema or the plan refuses.
Extract(w) ==
    /\ worker[w].pc = "extract"
    /\ \E step \in {"create", "failing"} : WorkerAt(w, step)
    /\ UNCHANGED <<stores, task, upload, retry, bounds, ghosts>>

\* Mutant: the draft is written without looking for one of the same source.
CreateDraftBlindly(w) ==
    /\ worker[w].pc = "create"
    /\ draft' = draft \cup {worker[w].job}
    /\ intakeDedupe' = worker[w].job
    /\ written' = [written EXCEPT ![worker[w].job] = @ + 1]
    /\ WorkerAt(w, "ready")
    /\ UNCHANGED <<job, analysisDedupe, artifact, newCases, callCount, task, upload, retry, bounds,
                   unattended, outlived>>

\* FirestoreIntakeStore.createDraft, one transaction: the draft and its key.
CreateDraft(w) ==
    /\ worker[w].pc = "create"
    /\ \/ /\ intakeDedupe = None
          /\ draft' = draft \cup {worker[w].job}
          /\ intakeDedupe' = worker[w].job
          /\ written' = [written EXCEPT ![worker[w].job] = @ + 1]
          /\ WorkerAt(w, "ready")
       \/ /\ intakeDedupe # None
          /\ WorkerAt(w, "failing")
          /\ UNCHANGED <<draft, intakeDedupe, written>>
    /\ UNCHANGED <<job, analysisDedupe, artifact, newCases, callCount, task, upload, retry, bounds,
                   unattended, outlived>>

\* markReady writes without reading.
MarkReady(w) ==
    /\ worker[w].pc = "ready"
    /\ Put(worker[w].job, [job[worker[w].job] EXCEPT !.status = "READY", !.lease = "none"])
    /\ WorkerAt(w, "delete")
    /\ UNCHANGED <<analysisDedupe, artifact, draft, intakeDedupe, newCases, callCount, task,
                   upload, retry, bounds, ghosts>>

\* The artifact is deleted, or the failure to do so swallowed; the answer is 200.
DeleteArtifact(w) ==
    /\ worker[w].pc = "delete"
    /\ \/ artifact' = FALSE /\ UNCHANGED troubles
       \/ Trouble /\ UNCHANGED artifact
    /\ Acknowledges(w)
    /\ UNCHANGED <<job, analysisDedupe, draft, intakeDedupe, newCases, callCount, upload, retry,
                   retries, written, outlived>>

\* markAttemptFailed reads the job in its transaction, but not whose attempt this was.
\* An answer that nobody hears leaves a QUEUED job without a task.
MarkAttemptFailed(w) ==
    /\ worker[w].pc = "failing"
    /\ LET j == worker[w].job
           terminal == job[j].attempts >= MaxAttempts
       IN  /\ Put(j, [job[j] EXCEPT !.status = IF terminal THEN "FAILED" ELSE "QUEUED",
                                    !.lease = "none"])
           /\ IF terminal THEN Acknowledges(w)
              ELSE IF worker[w].heard THEN Refuses(w)
              ELSE Rests(w) /\ unattended' = unattended \cup {j} /\ UNCHANGED task
    /\ UNCHANGED <<analysisDedupe, artifact, draft, intakeDedupe, newCases, callCount, upload,
                   retry, bounds, written, outlived>>

Working(w) == worker[w].pc \notin {"idle", "busy"}

\* An await throws and the handler's catch is taken.
WorkerThrows(w) ==
    /\ worker[w].pc \in {"read", "find", "reserve", "extract", "create", "ready"}
    /\ Trouble
    /\ WorkerAt(w, "failing")
    /\ UNCHANGED <<stores, task, upload, retry, retries, ghosts>>

\* The instance dies, or the catch throws as well; the queue sees an error.
WorkerDies(w) ==
    /\ Working(w)
    /\ Trouble
    /\ Refuses(w)
    /\ UNCHANGED <<stores, upload, retry, retries, written, outlived>>

\* The delivery runs into its deadline while its code runs on.
Overruns(w) ==
    /\ Working(w)
    /\ worker[w].heard
    /\ Trouble
    /\ worker' = [worker EXCEPT ![w].heard = FALSE]
    /\ TryAgain(worker[w].job, worker[w].try)
    /\ UNCHANGED <<stores, upload, retry, retries, written, outlived>>

LeaseEnds(j) ==
    /\ job[j].lease = "live"
    /\ Put(j, [job[j] EXCEPT !.lease = "past"])
    /\ UNCHANGED <<analysisDedupe, artifact, draft, intakeDedupe, newCases, callCount, task,
                   upload, worker, retry, bounds, ghosts>>

-----------------------------------------------------------------------------
(***************************************************************************)
(* handleAnalysisRetry, and what else happens to jobs and drafts.          *)
(***************************************************************************)

\* retryOwned reads the job outside of any transaction.  A QUEUED job is scheduled
\* again as it is, others than FAILED are only reported.
RetryReads(r, j) ==
    /\ retry[r].pc = "idle"
    /\ retries < MaxRetries
    /\ job[j].status \in {"FAILED", "QUEUED"}
    /\ retry' = [retry EXCEPT ![r] =
           [pc |-> IF job[j].status = "FAILED" THEN "write" ELSE "schedule", job |-> j]]
    /\ retries' = retries + 1
    /\ UNCHANGED <<stores, task, upload, worker, troubles, ghosts>>

RetryWrites(r) ==
    /\ retry[r].pc = "write"
    /\ Put(retry[r].job, NewJob)
    /\ retry' = [retry EXCEPT ![r].pc = "schedule"]
    /\ UNCHANGED <<analysisDedupe, artifact, draft, intakeDedupe, newCases, callCount, task,
                   upload, worker, bounds, ghosts>>

RetrySchedules(r) ==
    /\ retry[r].pc = "schedule"
    /\ Schedule(retry[r].job)
    /\ retry' = [retry EXCEPT ![r] = IdleRetry]
    /\ UNCHANGED <<stores, upload, worker, bounds, written, outlived>>

RetryFails(r) ==
    /\ retry[r].pc # "idle"
    /\ Trouble
    /\ retry' = [retry EXCEPT ![r] = IdleRetry]
    /\ unattended' = unattended \cup {retry[r].job}
    /\ UNCHANGED <<stores, task, upload, worker, retries, written, outlived>>

\* deleteDraft, one transaction: the draft goes with its key; analysisDedupe stays.
DeleteDraft(c) ==
    /\ c \in draft
    /\ Trouble
    /\ draft' = draft \ {c}
    /\ intakeDedupe' = None
    /\ UNCHANGED <<job, analysisDedupe, artifact, newCases, callCount, task, upload, worker, retry,
                   retries, ghosts>>

\* The job's 24 hours are over.  Drafts live longer.
JobExpires(j) ==
    /\ job[j].status # "ABSENT"
    /\ ~Waits(j)
    /\ \A u \in Uploads : upload[u].job = j => upload[u].pc = "answered"
    /\ \A w \in Workers : worker[w].job # j
    /\ \A r \in Retriers : retry[r].job # j
    /\ Trouble
    /\ Put(j, NoJob)
    /\ outlived' = TRUE
    /\ UNCHANGED <<analysisDedupe, artifact, draft, intakeDedupe, newCases, callCount, task,
                   upload, worker, retry, retries, unattended, written>>

-----------------------------------------------------------------------------
UploadStep(u) ==
    \/ CreateOrGet(u)
    \/ Charge(u)
    \/ MarkTerminalFailure(u)
    \/ SaveArtifact(u)
    \/ ScheduleAnalysis(u)

WorkerStep(w) ==
    \/ AnswerBusy(w)
    \/ ReadArtifact(w)
    \/ FindDraft(w)
    \/ ReserveModelCall(w)
    \/ Extract(w)
    \/ CreateDraft(w)
    \/ MarkReady(w)
    \/ DeleteArtifact(w)
    \/ MarkAttemptFailed(w)

RetryStep(r) ==
    \/ RetryWrites(r)
    \/ RetrySchedules(r)

Next ==
    \/ \E u \in Uploads : UploadStep(u) \/ ChargeThrows(u) \/ UploadFails(u)
    \/ \E w \in Workers, j \in Uploads : Start(w, j) \/ StartThrows(w, j)
    \/ \E w \in Workers : WorkerStep(w) \/ WorkerThrows(w) \/ WorkerDies(w) \/ Overruns(w)
    \/ \E r \in Retriers, j \in Uploads : RetryReads(r, j)
    \/ \E r \in Retriers : RetryStep(r) \/ RetryFails(r)
    \/ \E j \in Uploads : LeaseEnds(j) \/ DeleteDraft(j) \/ JobExpires(j)

Spec == Init /\ [][Next]_vars

\* Requests and workers go on unless they fail, leases end, and a task that waits is
\* delivered once a worker is free for long enough.
FairSpec ==
    /\ Spec
    /\ \A u \in Uploads : WF_vars(UploadStep(u)) /\ WF_vars(LeaseEnds(u))
    /\ \A u \in Uploads : WF_vars(\E w \in Workers : Start(w, u))
    /\ \A w \in Workers : WF_vars(WorkerStep(w))
    /\ \A r \in Retriers : WF_vars(RetryStep(r))

-----------------------------------------------------------------------------
(***************************************************************************)
(* Properties.                                                             *)
(***************************************************************************)

\* A source has at most one draft, and its key names it: workers that race after a lost
\* lease, uploads and retries create no second case (003 FR-018; createDraft).
OneDraft == \A c \in draft : intakeDedupe = c

\* A draft that stands is never written again: a worker that lost its lease, or a second
\* task, does not overwrite what the owner may already have revised or approved.
DraftsStand ==
    [][\A c \in Uploads : c \in draft /\ c \in draft' => written'[c] = written[c]]_vars

\* Somebody will see to job j: a task of it waits or is being handled by a worker that
\* the queue waits for or that has still to report, or a request has still to schedule it.
Attended(j) ==
    \/ Waits(j)
    \/ \E w \in Workers : worker[w].job = j /\ worker[w].pc # "delete"
    \/ \E u \in Uploads : upload[u].job = j /\ upload[u].pc # "answered"
    \/ \E r \in Retriers : retry[r].job = j

\* No interleaving of uploads, workers and retries loses a job that is not settled: only
\* a request that dies half-way, a late answer that nobody hears and a queue that has
\* made its last try do, and the next task or attempt makes up for it.
JobsAttended ==
    \A j \in Uploads : job[j].status \in Unsettled => Attended(j) \/ j \in unattended

\* "READY" is never shown before the draft of the job's case was stored, unless an
\* earlier job of the source expired (start, createDraft and markReady in their order).
ReadyHasDraft ==
    \A j \in Uploads : job[j].status = "READY" => written[j] > 0 \/ outlived

\* Uploads end in a draft or in a failure the owner sees and can retry, through crashes,
\* busy leases, races and exhausted budgets, as long as the tries of a task last.
JobsSettle ==
    \A j \in Uploads : job[j].status \in Unsettled /\ j \notin unattended
                          ~> job[j].status \notin Unsettled \/ j \in unattended
=============================================================================
