------------------------------ MODULE Notices ------------------------------
(***************************************************************************)
(* How the owner of a case is told: interventions, notices and the mail    *)
(* that carries a notice.                                                  *)
(*                                                                         *)
(* A teller is one invocation that has something to say about the case:    *)
(* the runner or the inbound service raises an intervention, the runner    *)
(* notifies a failure, the evidence service reports a conflict or the      *)
(* completion, or the owner asks for a notice again.  Tellers interleave   *)
(* at their awaits and each acts once; a callback or a task that is        *)
(* delivered again is another teller.                                      *)
(*                                                                         *)
(* A notice is identified by its kind: one case has one correlation id,    *)
(* which the merchant echoes.  All tellers ask the same question.          *)
(***************************************************************************)
EXTENDS Integers, FiniteSets

CONSTANTS
    Tellers,
    None,
    MaxNotices,  \* notices of a case, 3 in the product
    MaxRetried,  \* deliveries after which the owner cannot retry, 3 in the product
    MaxTroubles  \* bound: failed awaits and crashes

ASSUME NoticesAssumption == {MaxNotices, MaxRetried, MaxTroubles} \subseteq Nat

VARIABLES
    notice,     \* notifications: status, attemptCount, whether a deliveryId is known
    delivery,   \* emailDeliveries of the notice
    mailed,     \* notices whose mail the provider has accepted
    question,   \* whether the intervention is stored
    configured, \* whether the deployment can send mail
    teller,     \* each teller: its next await and what it knows
    troubles,
    abandoned   \* notices whose teller died or failed, and those of a bounce

vars == <<notice, delivery, mailed, question, configured, teller, troubles, abandoned>>

Notices == {"NEEDS_ATTENTION", "CASE_COMPLETED", "CASE_FAILED"}
Statuses == {"ABSENT", "RECORDED", "ACCEPTED", "DELIVERED", "BOUNCED", "SUPPRESSED", "FAILED",
             "UNAVAILABLE"}
Tells == {"raise", "notify", "conflict", "completed"}
News == {"DELIVERED", "BOUNCED", "COMPLAINED", "SUPPRESSED"}
NoNotice == [status |-> "ABSENT", attempts |-> 0, id |-> FALSE]

NoticeOf(tell) ==
    CASE tell \in {"raise", "conflict"} -> "NEEDS_ATTENTION"
      [] tell = "completed"             -> "CASE_COMPLETED"
      [] tell = "notify"                -> "CASE_FAILED"

NewTeller == [pc |-> "new", tell |-> None, notice |-> None, left |-> {}, fresh |-> FALSE,
              attempts |-> 0, outcome |-> None]

Notice == [status : Statuses, attempts : Nat, id : BOOLEAN]
Teller ==
    [pc : {"new", "store", "reserve", "send", "complete", "failing", "update", "done", "threw"},
     tell : Tells \cup {"retry", None}, notice : Notices \cup {None},
     left : SUBSET {"notice", "question"}, fresh : BOOLEAN, attempts : Nat,
     outcome : Statuses \cup {None}]

TypeOK ==
    /\ notice \in [Notices -> Notice]
    /\ delivery \in [Notices -> {"ABSENT", "IN_FLIGHT", "COMPLETED"}]
    /\ mailed \subseteq Notices
    /\ question \in BOOLEAN /\ configured \in BOOLEAN
    /\ teller \in [Tellers -> Teller]
    /\ troubles \in 0..MaxTroubles
    /\ abandoned \subseteq Notices

Init ==
    /\ notice = [n \in Notices |-> NoNotice]
    /\ delivery = [n \in Notices |-> "ABSENT"]
    /\ mailed = {}
    /\ question = FALSE
    /\ configured = FALSE
    /\ teller = [t \in Tellers |-> NewTeller]
    /\ troubles = 0
    /\ abandoned = {}

Trouble == troubles < MaxTroubles /\ troubles' = troubles + 1
Goes(t, step) == teller' = [teller EXCEPT ![t].pc = step]
Ends(t, how) ==
    teller' = [teller EXCEPT ![t] = [NewTeller EXCEPT !.pc = how, !.tell = teller[t].tell]]
Concludes(t, outcome) == teller' = [teller EXCEPT ![t].pc = "update", ![t].outcome = outcome]

-----------------------------------------------------------------------------
(***************************************************************************)
(* What is stored.                                                         *)
(***************************************************************************)

Begin(t, tell) ==
    /\ teller[t].pc = "new"
    /\ teller' = [teller EXCEPT ![t] =
           [NewTeller EXCEPT !.pc = "store", !.tell = tell, !.notice = NoticeOf(tell),
                             !.left = IF tell \in {"raise", "conflict"}
                                      THEN {"notice", "question"} ELSE {"notice"}]]
    /\ UNCHANGED <<notice, delivery, mailed, question, configured, troubles, abandoned>>

\* Mutant: only a notice that was there is delivered.
DeliversIfKnown(tell, fresh) == ~fresh

\* The evidence service delivers the notice whoever has stored it.
Delivers(tell, fresh) == fresh \/ tell \in {"conflict", "completed"}

\* One of the things to store is stored; after the last the notice is delivered, or not.
Stores(t, part, fresh) ==
    LET left == teller[t].left \ {part}
    IN  IF left = {} /\ ~Delivers(teller[t].tell, fresh)
        THEN Ends(t, "done")
        ELSE teller' = [teller EXCEPT
                 ![t].left = left,
                 ![t].fresh = fresh,
                 ![t].attempts = IF part = "notice" THEN notice'[teller[t].notice].attempts ELSE @,
                 ![t].pc = IF left = {} THEN "reserve" ELSE "store"]

Room == Cardinality({n \in Notices : notice[n].status # "ABSENT"}) < MaxNotices

\* Mutant: the intervention is not attempted when the notice is refused.
AsksRegardlessNever(t) == FALSE

\* raise stores both at once and the refusal of one does not stop the other; the evidence
\* service stores the notice first.
AsksRegardless(t) == teller[t].tell = "raise"

\* NOTIFICATION_BUDGET_EXHAUSTED: the teller ends, or has its question to store still.
Refused(t) ==
    IF AsksRegardless(t) /\ "question" \in teller[t].left
    THEN teller' = [teller EXCEPT ![t].left = {"question"}]
    ELSE Ends(t, "done")

\* createIfAbsent, one transaction.
StoreNotice(t) ==
    /\ teller[t].pc = "store"
    /\ "notice" \in teller[t].left
    /\ LET n == teller[t].notice
       IN  \/ /\ notice[n].status # "ABSENT"
              /\ UNCHANGED notice
              /\ Stores(t, "notice", FALSE)
           \/ /\ notice[n].status = "ABSENT" /\ Room
              /\ notice' = [notice EXCEPT ![n].status = "RECORDED"]
              /\ Stores(t, "notice", TRUE)
           \/ /\ notice[n].status = "ABSENT" /\ ~Room
              /\ UNCHANGED notice
              /\ Refused(t)
    /\ UNCHANGED <<delivery, mailed, question, configured, troubles, abandoned>>

\* createInterventionIfAbsent.
StoreQuestion(t) ==
    /\ teller[t].pc = "store"
    /\ "question" \in teller[t].left
    /\ AsksRegardless(t) \/ "notice" \notin teller[t].left
    /\ question' = TRUE
    /\ notice' = notice
    /\ Stores(t, "question", teller[t].fresh)
    /\ UNCHANGED <<delivery, mailed, configured, troubles, abandoned>>

\* handleNotificationRetry reads the notice that the owner asks for again.
Retry(t, n) ==
    /\ teller[t].pc = "new"
    /\ notice[n].status \in {"FAILED", "UNAVAILABLE"}
    /\ notice[n].attempts < MaxRetried
    /\ teller' = [teller EXCEPT ![t] = [NewTeller EXCEPT !.pc = "reserve", !.tell = "retry",
                                           !.notice = n, !.attempts = notice[n].attempts]]
    /\ UNCHANGED <<notice, delivery, mailed, question, configured, troubles, abandoned>>

\* A bounce stores a notice in its own transaction: no budget, and no delivery.
BounceNotice ==
    /\ notice["NEEDS_ATTENTION"].status = "ABSENT"
    /\ notice' = [notice EXCEPT !["NEEDS_ATTENTION"].status = "RECORDED"]
    /\ question' = TRUE
    /\ abandoned' = abandoned \cup {"NEEDS_ATTENTION"}
    /\ UNCHANGED <<delivery, mailed, configured, teller, troubles>>

-----------------------------------------------------------------------------
(***************************************************************************)
(* NotificationDeliveryService.deliver and OutboundEmailAdapter.deliver.   *)
(***************************************************************************)

\* Mutant: a reservation counts as a receipt.
ReceiptIfReserved(n) == delivery[n] # "ABSENT"

Receipt(n) == delivery[n] = "COMPLETED"

\* Mutant: a delivery in flight may be tried again.
FreeUnlessCompleted(n) == delivery[n] # "COMPLETED"

Free(n) == delivery[n] = "ABSENT"

\* reserveDelivery, one transaction.
Reserve(t) ==
    /\ teller[t].pc = "reserve"
    /\ LET n == teller[t].notice
       IN  \/ /\ ~configured
              /\ Concludes(t, "UNAVAILABLE")
              /\ UNCHANGED delivery
           \/ /\ configured /\ Receipt(n)
              /\ Concludes(t, "ACCEPTED")
              /\ UNCHANGED delivery
           \/ /\ configured /\ ~Receipt(n) /\ Free(n)
              /\ delivery' = [delivery EXCEPT ![n] = "IN_FLIGHT"]
              /\ Goes(t, "send")
           \/ /\ configured /\ ~Receipt(n) /\ ~Free(n)
              /\ Concludes(t, "FAILED")
              /\ UNCHANGED delivery
    /\ UNCHANGED <<notice, mailed, question, configured, troubles, abandoned>>

\* The transport: the mail is accepted, refused, or accepted without an answer.
Send(t) ==
    /\ teller[t].pc = "send"
    /\ \/ Goes(t, "complete") /\ mailed' = mailed \cup {teller[t].notice}
       \/ Goes(t, "failing") /\ mailed' \in {mailed, mailed \cup {teller[t].notice}}
    /\ UNCHANGED <<notice, delivery, question, configured, troubles, abandoned>>

\* completeDelivery; its acknowledgement may be lost.
CompleteDelivery(t) ==
    /\ teller[t].pc = "complete"
    /\ delivery' = [delivery EXCEPT ![teller[t].notice] = "COMPLETED"]
    /\ \/ Concludes(t, "ACCEPTED") /\ UNCHANGED troubles
       \/ Goes(t, "failing") /\ Trouble
    /\ UNCHANGED <<notice, mailed, question, configured, abandoned>>

\* failDelivery deletes the reservation.
FailDelivery(t) ==
    /\ teller[t].pc = "failing"
    /\ delivery' = [delivery EXCEPT ![teller[t].notice] = "ABSENT"]
    /\ Concludes(t, "FAILED")
    /\ UNCHANGED <<notice, mailed, question, configured, troubles, abandoned>>

\* updateDelivery merges what this teller knows, whatever others have stored since.
UpdateDelivery(t) ==
    /\ teller[t].pc = "update"
    /\ LET outcome == teller[t].outcome
       IN  notice' = [notice EXCEPT ![teller[t].notice] =
               [status |-> outcome, attempts |-> teller[t].attempts + 1,
                id |-> @.id \/ outcome = "ACCEPTED"]]
    /\ Ends(t, "done")
    /\ UNCHANGED <<delivery, mailed, question, configured, troubles, abandoned>>

\* updateDelivery throws: an accepted mail is then reported as failed.
UpdateThrows(t) ==
    /\ teller[t].pc = "update"
    /\ Trouble
    /\ IF teller[t].outcome = "ACCEPTED"
       THEN Concludes(t, "FAILED") /\ UNCHANGED abandoned
       ELSE Ends(t, "threw") /\ abandoned' = abandoned \cup {teller[t].notice}
    /\ UNCHANGED <<notice, delivery, mailed, question, configured>>

\* The teller dies, or another await of it throws.
Dies(t) ==
    /\ teller[t].pc \notin {"new", "done", "threw"}
    /\ Trouble
    /\ Ends(t, "threw")
    /\ abandoned' = abandoned \cup {teller[t].notice}
    /\ UNCHANGED <<notice, delivery, mailed, question, configured>>

\* Mutant: the provider's word is stored as it is.
StatusAsTold(said) == said

StatusFor(said) == IF said = "COMPLAINED" THEN "SUPPRESSED" ELSE said

\* recordNotificationTransportEvent finds the notice by the id of its mail; before the id
\* is stored the event is about nobody's mail.
TransportEvent(n, said) ==
    /\ n \in mailed
    /\ notice[n].id
    /\ notice' = [notice EXCEPT ![n].status = StatusFor(said)]
    /\ UNCHANGED <<delivery, mailed, question, configured, teller, troubles, abandoned>>

\* The deployment learns to send mail.
Configure ==
    /\ ~configured
    /\ configured' = TRUE
    /\ UNCHANGED <<notice, delivery, mailed, question, teller, troubles, abandoned>>

-----------------------------------------------------------------------------
TellerStep(t) ==
    \/ StoreNotice(t)
    \/ StoreQuestion(t)
    \/ Reserve(t)
    \/ Send(t)
    \/ CompleteDelivery(t)
    \/ FailDelivery(t)
    \/ UpdateDelivery(t)

Next ==
    \/ \E t \in Tellers :
          \/ \E tell \in Tells : Begin(t, tell)
          \/ \E n \in Notices : Retry(t, n)
          \/ TellerStep(t) \/ UpdateThrows(t) \/ Dies(t)
    \/ BounceNotice
    \/ \E n \in Notices, said \in News : TransportEvent(n, said)
    \/ Configure

Spec == Init /\ [][Next]_vars

\* Cloud Run ends what it has begun.
FairSpec == Spec /\ \A t \in Tellers : WF_vars(TellerStep(t))

-----------------------------------------------------------------------------
(***************************************************************************)
(* Properties.                                                             *)
(***************************************************************************)

\* No two tellers are at the provider with the same mail: the reservation has one owner,
\* through failures that delete it and retries that race each other.
OneMailer ==
    \A t, u \in Tellers :
        /\ teller[t].notice = teller[u].notice
        /\ {teller[t].pc, teller[u].pc} \subseteq {"send", "complete"}
        => t = u

\* A notice that counts as accepted, delivered or bounced was mailed, though tellers
\* overwrite each other's results in any order.
AcceptedMeansMailed ==
    \A n \in Notices :
        notice[n].status \in {"ACCEPTED", "DELIVERED", "BOUNCED", "SUPPRESSED"} => n \in mailed

\* raise stores the owner's question even when the case has used up its notices.
QuestionSurvivesBudget ==
    \A t \in Tellers : teller[t].pc = "done" /\ teller[t].tell = "raise" => question

\* A notice that is recorded gets a delivery attempt: of the tellers that find each other's
\* notice one is responsible.  Left RECORDED, and out of the owner's reach, are those of a
\* bounce and those whose teller failed.
NoticesAttempted ==
    \A n \in Notices :
        notice[n].status = "RECORDED" ~> notice[n].status # "RECORDED" \/ n \in abandoned
=============================================================================
