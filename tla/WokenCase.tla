------------------------------ MODULE WokenCase ------------------------------
(***************************************************************************)
(* FollowThrough with what it owes to the queue that wakes it.             *)
(*                                                                         *)
(* In FollowThrough a worker may start on any version that has a wake      *)
(* intent, as often as it likes.  The queue owes less: it repeats a        *)
(* delivery that failed, up to a number of tries, and none that was        *)
(* answered with a success.  ACTION_IN_FLIGHT is a success, whether the    *)
(* run that holds the action is at work or died long ago, and a name once  *)
(* used cannot be queued again.  A history of the wakes that were answered *)
(* so tells which deliveries the queue still owes.                         *)
(***************************************************************************)
EXTENDS FollowThrough

CONSTANT MaxTries  \* deliveries of a task before the queue drops it

\* A delivery of the version a case is in fails only by a fault: one that meets a version
\* conflict leaves a task whose version has passed.
ASSUME TriesAssumption == MaxTries \in Nat /\ MaxFaults < MaxTries

VARIABLE
    swallowed  \* versions of the runs because of which the wake of the version the case
               \* is in was answered ACTION_IN_FLIGHT

wokenVars == <<vars, swallowed>>

NoHolder == 0

\* The version read by the run that holds the action w is after, if any is at work on it.
HolderFor(w) ==
    LET holders == {x \in Workers : Holds(x) /\ Key(x) = Key(w)}
    IN IF holders = {} THEN NoHolder ELSE snap[CHOOSE x \in holders : TRUE].version

\* w ends its run at the reservation, and not because its instance dies.
AnswersInFlight(w) == pc[w] = "reserve" /\ pc'[w] = "idle" /\ ~Crash(w)

Remembers ==
    swallowed' =
        {u \in swallowed : run'.version = run.version} \cup
        {HolderFor(w) : w \in {x \in Workers : AnswersInFlight(x) /\ snap[x].version = run.version}}

WokenInit == Init /\ swallowed = {}

WokenNext == Next /\ Remembers

WokenSpec == WokenInit /\ [][WokenNext]_wokenVars

\* The queue still owes a delivery: it was told of no success.
OwedStart == swallowed = {} /\ \E w \in Workers, v \in intents : Start(w, v)

\* The queue delivers what it owes, and an invocation that does not crash takes its next
\* step.  Nothing obliges the owner, the counterparty, the mail provider or the clock.
Fairness ==
    /\ WF_wokenVars(OwedStart /\ Remembers)
    /\ \A w \in Workers : WF_wokenVars(WorkerStep(w) /\ Remembers)
    /\ \A h \in Handlers : WF_wokenVars(HandlerStep(h) /\ Remembers)

FairSpec == WokenSpec /\ Fairness

-----------------------------------------------------------------------------
\* The wake of the version the case is in went to a run that could not serve it: one of
\* another version, whose commit will find that the case has moved, or, once something
\* failed, one that may not have come to its commit.
WakeLost ==
    \E u \in swallowed : u \notin {NoHolder, run.version} \/ faults > 0

\* A case stops asking for wakes in the end: it is closed or the owner is asked, whatever
\* sequence of refusals, retries, evidence, bounces and RESUME it went through.  What can
\* keep it asking is a wake lost to an action in flight.  A wake answered so because a run
\* of the same version is at work costs nothing: that run moves the case on.
EventuallyRests == <>[](run.state \notin Dispatchable \/ deleted \/ WakeLost)

-----------------------------------------------------------------------------
(***************************************************************************)
(* What the repository's documents say and the program does not do, under  *)
(* FairSpec.                                                               *)
(***************************************************************************)

\* "A process restart [...] preserves the case and permits the expected next action."
NextActionFollows == run.state = "READY" ~> run.state # "READY" \/ deleted

\* Recovery ends: the attempts are used up and the owner is asked, also when the outcome
\* of the first one is not known.
RecoveryEnds == run.state = "WAITING_RETRY" ~> run.state # "WAITING_RETRY" \/ deleted
=============================================================================
