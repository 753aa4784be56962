---------------------------- MODULE NoticesProofs ----------------------------
(***************************************************************************)
(* Proofs about Notices for every number of tellers, notices, retries and  *)
(* failures.                                                               *)
(*                                                                         *)
(* A teller between reserveDelivery and the end of the delivery owns the   *)
(* notice it is about.  That there is one owner, whose reservation stands, *)
(* is why a mail is sent by one teller and why a receipt can be trusted.   *)
(***************************************************************************)
EXTENDS Notices, TLAPS

\* The teller has a notice, from its first await on.
Telling == {"store", "reserve", "send", "complete", "failing", "update"}

\* The teller holds the reservation of its notice.
Owner(t) == teller[t].pc \in {"send", "complete", "failing"}

\* What a delivery can come to.
Outcomes == {"ACCEPTED", "FAILED", "UNAVAILABLE"}

NoticesKnown ==
    \A t \in Tellers :
        /\ teller[t].pc \in Telling => teller[t].notice \in Notices
        /\ teller[t].pc = "update" => teller[t].outcome \in Outcomes

\* A reservation has one owner, and stands while he is at it.
ReservationsHeld ==
    /\ \A t \in Tellers : Owner(t) => delivery[teller[t].notice] # "ABSENT"
    /\ \A t, u \in Tellers :
           Owner(t) /\ Owner(u) /\ teller[t].notice = teller[u].notice => t = u

\* Whatever says that a notice was mailed is true: the receipt, the teller that is
\* about to store it, and the result it is about to report.
ReportsTrue ==
    /\ \A n \in Notices : delivery[n] = "COMPLETED" => n \in mailed
    /\ \A t \in Tellers :
           \/ teller[t].pc = "complete"
           \/ teller[t].pc = "update" /\ teller[t].outcome = "ACCEPTED"
           => teller[t].notice \in mailed

Inv == TypeOK /\ NoticesKnown /\ ReservationsHeld /\ ReportsTrue /\ AcceptedMeansMailed

-----------------------------------------------------------------------------
LEMMA TellerFields ==
    ASSUME TypeOK, NEW t \in Tellers
    PROVE  /\ teller[t] \in Teller
           /\ teller[t].left \in SUBSET {"notice", "question"}
           /\ teller[t].attempts \in Nat
           /\ teller[t].tell \in Tells \cup {"retry", None}
           /\ teller[t].notice \in Notices \cup {None}
           /\ teller[t].outcome \in Statuses \cup {None}
BY DEF TypeOK, Teller

LEMMA Limits == MaxTroubles \in Nat /\ MaxNotices \in Nat /\ MaxRetried \in Nat
BY NoticesAssumption

LEMMA InitInv == Init => Inv
<1> SUFFICES ASSUME Init PROVE Inv
  OBVIOUS
<1>1. NoNotice \in Notice
  BY DEF NoNotice, Notice, Statuses
<1>2. NewTeller \in Teller
  BY DEF NewTeller, Teller
<1>3. troubles \in 0..MaxTroubles
  BY Limits DEF Init
<1>4. TypeOK
  BY <1>1, <1>2, <1>3 DEF Init, TypeOK
<1>5. QED
  BY <1>4 DEF Init, Inv, NoticesKnown, ReservationsHeld, ReportsTrue, AcceptedMeansMailed, Owner,
              Telling, NoNotice, NewTeller, Notices

-----------------------------------------------------------------------------
(***************************************************************************)
(* Steps of a teller that owns nothing after the step.                     *)
(***************************************************************************)

\* x is a record that teller t may have.
Proper(x) ==
    /\ x \in Teller
    /\ x.pc \notin {"send", "complete", "failing"}
    /\ x.pc \in Telling => x.notice \in Notices
    /\ x.pc = "update" => x.outcome \in Outcomes /\ (x.outcome = "ACCEPTED" => x.notice \in mailed)

LEMMA Unowned ==
    ASSUME Inv, NEW t \in Tellers, NEW x, Proper(x),
           teller' = [teller EXCEPT ![t] = x], UNCHANGED <<delivery, mailed>>
    PROVE  /\ teller' \in [Tellers -> Teller]
           /\ NoticesKnown' /\ ReservationsHeld' /\ ReportsTrue'
<1>1. /\ teller \in [Tellers -> Teller]
      /\ teller'[t] = x
      /\ \A u \in Tellers : u # t => teller'[u] = teller[u]
      /\ teller' \in [Tellers -> Teller]
  BY DEF Inv, TypeOK, Proper
<1>2. NoticesKnown'
  BY <1>1 DEF Inv, NoticesKnown, Proper
<1>3. ReservationsHeld'
  BY <1>1 DEF Inv, ReservationsHeld, Proper, Owner
<1>4. ReportsTrue'
  BY <1>1 DEF Inv, ReportsTrue, Proper
<1> QED
  BY <1>1, <1>2, <1>3, <1>4

LEMMA RestIsProper ==
    ASSUME TypeOK, NEW t \in Tellers, NEW how \in {"done", "threw"}
    PROVE  Proper([NewTeller EXCEPT !.pc = how, !.tell = teller[t].tell])
BY TellerFields DEF Proper, Telling, NewTeller, Teller

LEMMA BeginKeeps ==
    ASSUME Inv, NEW t \in Tellers, NEW tell \in Tells, Begin(t, tell)
    PROVE  Inv'
<1> DEFINE x == [NewTeller EXCEPT !.pc = "store", !.tell = tell, !.notice = NoticeOf(tell),
                                  !.left = IF tell \in {"raise", "conflict"}
                                           THEN {"notice", "question"} ELSE {"notice"}]
<1>1. NoticeOf(tell) \in Notices
  BY DEF NoticeOf, Tells, Notices
<1>2. Proper(x)
  BY <1>1 DEF Proper, Telling, NewTeller, Teller
<1>3. teller' = [teller EXCEPT ![t] = x] /\ UNCHANGED <<notice, delivery, mailed, question, configured,
                                                       troubles, abandoned>>
  BY DEF Begin
<1> HIDE DEF x
<1> QED
  BY <1>2, <1>3, Unowned DEF Inv, TypeOK, AcceptedMeansMailed

\* Stores, for whichever part was stored.
LEMMA StoresKeeps ==
    ASSUME Inv, NEW t \in Tellers, NEW part, NEW fresh \in BOOLEAN,
           teller[t].pc = "store", notice' \in [Notices -> Notice],
           Stores(t, part, fresh), UNCHANGED <<delivery, mailed>>
    PROVE  /\ teller' \in [Tellers -> Teller]
           /\ NoticesKnown' /\ ReservationsHeld' /\ ReportsTrue'
<1> DEFINE left == teller[t].left \ {part}
           x == [teller[t] EXCEPT
                    !.left = left, !.fresh = fresh,
                    !.attempts = IF part = "notice" THEN notice'[teller[t].notice].attempts ELSE @,
                    !.pc = IF left = {} THEN "reserve" ELSE "store"]
<1>0. teller[t] \in Teller /\ teller[t].notice \in Notices /\ TypeOK
  BY TellerFields DEF Inv, NoticesKnown, Telling
<1>1. CASE left = {} /\ ~Delivers(teller[t].tell, fresh)
  <2>1. teller' = [teller EXCEPT ![t] = [NewTeller EXCEPT !.pc = "done", !.tell = teller[t].tell]]
    BY <1>1 DEF Stores, Ends
  <2> QED
    BY <1>0, <2>1, RestIsProper, Unowned
<1>2. CASE ~(left = {} /\ ~Delivers(teller[t].tell, fresh))
  <2>1. notice'[teller[t].notice].attempts \in Nat
    BY <1>0 DEF Notice
  <2>2. Proper(x)
    BY <1>0, <2>1 DEF Proper, Teller, Telling
  <2>3. teller' = [teller EXCEPT ![t] = x]
    BY <1>0, <1>2 DEF Stores, TypeOK
  <2> HIDE DEF x
  <2> QED
    BY <2>2, <2>3, Unowned
<1> QED
  BY <1>1, <1>2

LEMMA StoreNoticeKeeps ==
    ASSUME Inv, NEW t \in Tellers, StoreNotice(t)
    PROVE  Inv'
<1> DEFINE n == teller[t].notice
<1>0. /\ teller[t] \in Teller /\ n \in Notices /\ TypeOK /\ teller[t].pc = "store"
      /\ UNCHANGED <<delivery, mailed, question, configured, troubles, abandoned>>
  BY TellerFields DEF Inv, NoticesKnown, Telling, StoreNotice
<1>1. CASE UNCHANGED notice /\ Stores(t, "notice", FALSE)
  <2>1. notice' \in [Notices -> Notice]
    BY <1>0, <1>1 DEF TypeOK
  <2> QED
    BY <1>0, <1>1, <2>1, StoresKeeps DEF Inv, TypeOK, AcceptedMeansMailed
<1>2. CASE notice' = [notice EXCEPT ![n].status = "RECORDED"] /\ Stores(t, "notice", TRUE)
  <2>1. notice' \in [Notices -> Notice]
    BY <1>0, <1>2 DEF TypeOK, Notice, Statuses
  <2>2. AcceptedMeansMailed'
    BY <1>0, <1>2 DEF Inv, TypeOK, AcceptedMeansMailed, Notice
  <2> QED
    BY <1>0, <1>2, <2>1, <2>2, StoresKeeps DEF Inv, TypeOK
<1>3. CASE UNCHANGED notice /\ Refused(t)
  <2> DEFINE x == IF AsksRegardless(t) /\ "question" \in teller[t].left
                  THEN [teller[t] EXCEPT !.left = {"question"}]
                  ELSE [NewTeller EXCEPT !.pc = "done", !.tell = teller[t].tell]
  <2>1. Proper(x)
    BY <1>0, RestIsProper DEF Proper, Telling, Teller
  <2>2. teller' = [teller EXCEPT ![t] = x]
    BY <1>0, <1>3 DEF Refused, Ends, TypeOK
  <2> HIDE DEF x
  <2> QED
    BY <1>0, <1>3, <2>1, <2>2, Unowned DEF Inv, TypeOK, AcceptedMeansMailed
<1> QED
  BY <1>1, <1>2, <1>3 DEF StoreNotice

LEMMA StoreQuestionKeeps ==
    ASSUME Inv, NEW t \in Tellers, StoreQuestion(t)
    PROVE  Inv'
<1>1. /\ teller[t].fresh \in BOOLEAN /\ teller[t].pc = "store"
      /\ question' = TRUE /\ UNCHANGED <<notice, delivery, mailed, configured, troubles, abandoned>>
      /\ Stores(t, "question", teller[t].fresh)
  BY TellerFields DEF Inv, StoreQuestion, Teller
<1>2. notice' \in [Notices -> Notice]
  BY <1>1 DEF Inv, TypeOK
<1> QED
  BY <1>1, <1>2, StoresKeeps DEF Inv, TypeOK, AcceptedMeansMailed

LEMMA RetryKeeps ==
    ASSUME Inv, NEW t \in Tellers, NEW n \in Notices, Retry(t, n)
    PROVE  Inv'
<1> DEFINE x == [NewTeller EXCEPT !.pc = "reserve", !.tell = "retry",
                                  !.notice = n, !.attempts = notice[n].attempts]
<1>1. notice[n].attempts \in Nat
  BY DEF Inv, TypeOK, Notice
<1>2. Proper(x)
  BY <1>1 DEF Proper, Telling, NewTeller, Teller
<1>3. teller' = [teller EXCEPT ![t] = x]
      /\ UNCHANGED <<notice, delivery, mailed, question, configured, troubles, abandoned>>
  BY DEF Retry
<1> HIDE DEF x
<1> QED
  BY <1>2, <1>3, Unowned DEF Inv, TypeOK, AcceptedMeansMailed

\* A teller that leaves the delivery to report its outcome.
LEMMA ConcludesKeeps ==
    ASSUME Inv, NEW t \in Tellers, NEW outcome \in Outcomes, teller[t].pc \in Telling,
           outcome = "ACCEPTED" => teller[t].notice \in mailed,
           Concludes(t, outcome), UNCHANGED <<delivery, mailed>>
    PROVE  /\ teller' \in [Tellers -> Teller]
           /\ NoticesKnown' /\ ReservationsHeld' /\ ReportsTrue'
<1> DEFINE x == [teller[t] EXCEPT !.pc = "update", !.outcome = outcome]
<1>0. teller[t] \in Teller /\ teller[t].notice \in Notices
  BY TellerFields DEF Inv, NoticesKnown
<1>1. Proper(x)
  BY <1>0 DEF Proper, Teller, Telling, Outcomes, Statuses
<1>2. teller' = [teller EXCEPT ![t] = x]
  BY <1>0 DEF Concludes, Inv, TypeOK
<1> HIDE DEF x
<1> QED
  BY <1>1, <1>2, Unowned

-----------------------------------------------------------------------------
(***************************************************************************)
(* Steps of the owner of a reservation.                                    *)
(***************************************************************************)

\* Only the step of teller t, and only to another await.
Only(t, step) ==
    /\ teller' \in [Tellers -> Teller]
    /\ teller'[t] = [teller[t] EXCEPT !.pc = step]
    /\ \A u \in Tellers : u # t => teller'[u] = teller[u]

LEMMA GoesOnly ==
    ASSUME TypeOK, NEW t \in Tellers, NEW step \in {"send", "complete", "failing"}, Goes(t, step)
    PROVE  Only(t, step)
BY DEF TypeOK, Goes, Only, Teller

LEMMA ReserveKeeps ==
    ASSUME Inv, NEW t \in Tellers, Reserve(t)
    PROVE  Inv'
<1> DEFINE n == teller[t].notice
<1>0. /\ teller[t] \in Teller /\ n \in Notices /\ TypeOK /\ teller[t].pc = "reserve"
      /\ UNCHANGED <<notice, mailed, question, configured, troubles, abandoned>>
  BY TellerFields DEF Inv, NoticesKnown, Telling, Reserve
<1>1. ASSUME NEW outcome \in {"UNAVAILABLE", "ACCEPTED", "FAILED"},
             outcome = "ACCEPTED" => Receipt(n),
             Concludes(t, outcome), UNCHANGED delivery
      PROVE  Inv'
  <2>1. outcome = "ACCEPTED" => n \in mailed
    BY <1>0, <1>1 DEF Inv, ReportsTrue, Receipt
  <2>2. outcome \in Outcomes /\ teller[t].pc \in Telling
    BY <1>0, <1>1 DEF Outcomes, Telling
  <2> QED
    BY <1>0, <1>1, <2>1, <2>2, ConcludesKeeps DEF Inv, TypeOK, AcceptedMeansMailed
<1>2. CASE Free(n) /\ delivery' = [delivery EXCEPT ![n] = "IN_FLIGHT"] /\ Goes(t, "send")
  <2>1. Only(t, "send")
    BY <1>0, <1>2, GoesOnly
  <2>2. \A u \in Tellers : Owner(u) => teller[u].notice # n
    BY <1>0, <1>2 DEF Inv, ReservationsHeld, Free
  <2>3. delivery' \in [Notices -> {"ABSENT", "IN_FLIGHT", "COMPLETED"}]
    BY <1>0, <1>2 DEF TypeOK
  <2>4. TypeOK'
    BY <1>0, <2>1, <2>3 DEF TypeOK, Only
  <2>5. NoticesKnown'
    BY <1>0, <2>1 DEF Inv, NoticesKnown, Only, Teller, Telling
  <2>6. \A u \in Tellers : u # t => (Owner(u)' <=> Owner(u)) /\ teller'[u] = teller[u]
    BY <2>1 DEF Only, Owner
  <2>7. teller'[t].notice = n /\ teller'[t].pc = "send"
    BY <1>0, <2>1 DEF Only, Teller
  <2>8. ReservationsHeld'
    BY <1>0, <1>2, <2>2, <2>6, <2>7 DEF Inv, ReservationsHeld, TypeOK
  <2>9. ReportsTrue'
    BY <1>0, <1>2, <2>6, <2>7 DEF Inv, ReportsTrue, TypeOK
  <2> QED
    BY <1>0, <2>4, <2>5, <2>8, <2>9 DEF Inv, AcceptedMeansMailed
<1> QED
  BY <1>1, <1>2 DEF Reserve

LEMMA SendKeeps ==
    ASSUME Inv, NEW t \in Tellers, Send(t)
    PROVE  Inv'
<1> DEFINE n == teller[t].notice
<1>0. /\ teller[t] \in Teller /\ n \in Notices /\ TypeOK /\ teller[t].pc = "send"
      /\ UNCHANGED <<notice, delivery, question, configured, troubles, abandoned>>
  BY TellerFields DEF Inv, NoticesKnown, Telling, Send
<1>1. PICK step \in {"complete", "failing"} :
          /\ Goes(t, step) /\ mailed' \in {mailed, mailed \cup {n}}
          /\ step = "complete" => n \in mailed'
  BY DEF Send
<1>2. Only(t, step)
  BY <1>0, <1>1, GoesOnly
<1>3. mailed' \subseteq Notices /\ mailed \subseteq mailed'
  BY <1>0, <1>1 DEF TypeOK
<1>4. TypeOK'
  BY <1>0, <1>2, <1>3 DEF TypeOK, Only
<1>5. teller'[t].notice = n /\ teller'[t].pc = step
  BY <1>0, <1>2 DEF Only, Teller
<1>6. NoticesKnown'
  BY <1>0, <1>1, <1>2, <1>5 DEF Inv, NoticesKnown, Only
<1>7. ReservationsHeld'
  <2>1. \A u \in Tellers : (Owner(u)' <=> Owner(u)) /\ teller'[u].notice = teller[u].notice
    BY <1>0, <1>1, <1>2, <1>5 DEF Only, Owner
  <2> QED
    BY <1>0, <2>1 DEF Inv, ReservationsHeld
<1>8. ReportsTrue'
  BY <1>0, <1>1, <1>2, <1>3, <1>5 DEF Inv, ReportsTrue, Only
<1>9. AcceptedMeansMailed'
  BY <1>0, <1>3 DEF Inv, AcceptedMeansMailed
<1> QED
  BY <1>4, <1>6, <1>7, <1>8, <1>9 DEF Inv

LEMMA CompleteDeliveryKeeps ==
    ASSUME Inv, NEW t \in Tellers, CompleteDelivery(t)
    PROVE  Inv'
<1> DEFINE n == teller[t].notice
<1>0. /\ teller[t] \in Teller /\ n \in Notices /\ TypeOK /\ teller[t].pc = "complete"
      /\ n \in mailed
      /\ delivery' = [delivery EXCEPT ![n] = "COMPLETED"]
      /\ UNCHANGED <<notice, mailed, question, configured, abandoned>>
  BY TellerFields DEF Inv, NoticesKnown, ReportsTrue, Telling, CompleteDelivery
<1>1. troubles' \in 0..MaxTroubles
  BY <1>0, Limits DEF CompleteDelivery, Trouble, TypeOK
<1>2. PICK step \in {"update", "failing"} :
          /\ teller' \in [Tellers -> Teller]
          /\ teller'[t].pc = step /\ teller'[t].notice = n
          /\ step = "update" => teller'[t].outcome = "ACCEPTED"
          /\ \A u \in Tellers : u # t => teller'[u] = teller[u]
  <2>1. CASE Concludes(t, "ACCEPTED")
    BY <1>0, <2>1 DEF TypeOK, Concludes, Teller, Statuses
  <2>2. CASE Goes(t, "failing")
    <3>1. Only(t, "failing")
      BY <1>0, <2>2, GoesOnly
    <3>2. teller'[t].pc = "failing" /\ teller'[t].notice = n
      BY <1>0, <3>1 DEF Only, Teller
    <3> QED
      BY <3>1, <3>2 DEF Only
  <2> QED
    BY <2>1, <2>2 DEF CompleteDelivery
<1>3. TypeOK'
  BY <1>0, <1>1, <1>2 DEF TypeOK
<1>4. NoticesKnown'
  BY <1>0, <1>2 DEF Inv, NoticesKnown, Outcomes
<1>5. ReservationsHeld'
  <2>1. \A u \in Tellers : (Owner(u)' => Owner(u)) /\ teller'[u].notice = teller[u].notice
    BY <1>0, <1>2 DEF Owner
  <2>2. \A m \in Notices : delivery[m] # "ABSENT" => delivery'[m] # "ABSENT"
    BY <1>0 DEF TypeOK
  <2>3. \A u \in Tellers : Owner(u) => teller[u].notice \in Notices
    BY DEF Inv, NoticesKnown, Owner, Telling
  <2> QED
    BY <2>1, <2>2, <2>3 DEF Inv, ReservationsHeld
<1>6. ReportsTrue'
  BY <1>0, <1>2 DEF Inv, ReportsTrue, TypeOK
<1> QED
  BY <1>0, <1>3, <1>4, <1>5, <1>6 DEF Inv, AcceptedMeansMailed

LEMMA FailDeliveryKeeps ==
    ASSUME Inv, NEW t \in Tellers, FailDelivery(t)
    PROVE  Inv'
<1> DEFINE n == teller[t].notice
<1>0. /\ teller[t] \in Teller /\ n \in Notices /\ TypeOK /\ Owner(t)
      /\ delivery' = [delivery EXCEPT ![n] = "ABSENT"]
      /\ UNCHANGED <<notice, mailed, question, configured, troubles, abandoned>>
  BY TellerFields DEF Inv, NoticesKnown, Owner, Telling, FailDelivery
<1>1. /\ teller' \in [Tellers -> Teller]
      /\ teller'[t].pc = "update" /\ teller'[t].notice = n /\ teller'[t].outcome = "FAILED"
      /\ \A u \in Tellers : u # t => teller'[u] = teller[u]
  BY <1>0 DEF FailDelivery, Concludes, TypeOK, Teller, Statuses
<1>2. TypeOK'
  BY <1>0, <1>1 DEF TypeOK
<1>3. NoticesKnown'
  BY <1>0, <1>1 DEF Inv, NoticesKnown, Outcomes
<1>4. ReservationsHeld'
  <2>1. \A u \in Tellers : Owner(u)' => u # t /\ Owner(u) /\ teller'[u] = teller[u]
    BY <1>0, <1>1 DEF Owner
  <2>2. \A u \in Tellers : Owner(u) => teller[u].notice \in Notices
    BY DEF Inv, NoticesKnown, Owner, Telling
  <2>3. \A u \in Tellers : Owner(u) /\ u # t => delivery'[teller[u].notice] # "ABSENT"
    BY <1>0, <2>2 DEF Inv, ReservationsHeld, TypeOK
  <2> QED
    BY <2>1, <2>3 DEF Inv, ReservationsHeld
<1>5. ReportsTrue'
  BY <1>0, <1>1 DEF Inv, ReportsTrue, TypeOK
<1> QED
  BY <1>0, <1>2, <1>3, <1>4, <1>5 DEF Inv, AcceptedMeansMailed

-----------------------------------------------------------------------------
(***************************************************************************)
(* The result, failures, and what happens around the tellers.              *)
(***************************************************************************)

LEMMA UpdateDeliveryKeeps ==
    ASSUME Inv, NEW t \in Tellers, UpdateDelivery(t)
    PROVE  Inv'
<1> DEFINE n == teller[t].notice
           x == [NewTeller EXCEPT !.pc = "done", !.tell = teller[t].tell]
           told == [status |-> teller[t].outcome, attempts |-> teller[t].attempts + 1,
                    id |-> notice[n].id \/ teller[t].outcome = "ACCEPTED"]
<1>0. /\ teller[t] \in Teller /\ n \in Notices /\ TypeOK /\ teller[t].pc = "update"
      /\ teller[t].outcome \in Outcomes
      /\ UNCHANGED <<delivery, mailed, question, configured, troubles, abandoned>>
      /\ teller' = [teller EXCEPT ![t] = x]
  BY TellerFields DEF Inv, NoticesKnown, Telling, UpdateDelivery, Ends
<1>1. notice' = [notice EXCEPT ![n] = told]
  BY <1>0 DEF UpdateDelivery, TypeOK
<1>2. told \in Notice
  <2>1. teller[t].attempts + 1 \in Nat
    BY <1>0 DEF Teller
  <2> QED
    BY <1>0, <2>1 DEF Notice, Outcomes, Statuses
<1>3. notice' \in [Notices -> Notice]
  BY <1>0, <1>1, <1>2 DEF TypeOK
<1>4. Proper(x)
  BY <1>0, RestIsProper
<1>5. AcceptedMeansMailed'
  <2>1. ASSUME NEW m \in Notices,
               notice'[m].status \in {"ACCEPTED", "DELIVERED", "BOUNCED", "SUPPRESSED"}
        PROVE  m \in mailed
    <3>1. CASE m = n
      BY <1>0, <1>1, <2>1, <3>1 DEF Outcomes, TypeOK, Inv, ReportsTrue
    <3>2. CASE m # n
      BY <1>0, <1>1, <2>1, <3>2 DEF Inv, TypeOK, AcceptedMeansMailed
    <3> QED
      BY <3>1, <3>2
  <2> QED
    BY <1>0, <2>1 DEF AcceptedMeansMailed
<1> HIDE DEF x
<1> QED
  BY <1>0, <1>3, <1>4, <1>5, Unowned DEF Inv, TypeOK

LEMMA EndsKeeps ==
    ASSUME Inv, NEW t \in Tellers, Ends(t, "threw"), Trouble, teller[t].pc \in Telling,
           abandoned' = abandoned \cup {teller[t].notice},
           UNCHANGED <<notice, delivery, mailed, question, configured>>
    PROVE  Inv'
<1> DEFINE x == [NewTeller EXCEPT !.pc = "threw", !.tell = teller[t].tell]
<1>1. Proper(x) /\ teller' = [teller EXCEPT ![t] = x]
  BY RestIsProper DEF Inv, Ends
<1>2. teller[t].notice \in Notices /\ troubles' \in 0..MaxTroubles
  BY Limits DEF Inv, NoticesKnown, Trouble, TypeOK
<1> HIDE DEF x
<1> QED
  BY <1>1, <1>2, Unowned DEF Inv, TypeOK, AcceptedMeansMailed

LEMMA UpdateThrowsKeeps ==
    ASSUME Inv, NEW t \in Tellers, UpdateThrows(t)
    PROVE  Inv'
<1>0. teller[t].pc = "update" /\ Trouble /\ UNCHANGED <<notice, delivery, mailed, question, configured>>
      /\ teller[t].pc \in Telling
  BY DEF UpdateThrows, Telling
<1>1. CASE Concludes(t, "FAILED") /\ UNCHANGED abandoned
  <2>1. troubles' \in 0..MaxTroubles
    BY <1>0, Limits DEF Inv, Trouble, TypeOK
  <2>2. "FAILED" \in Outcomes
    BY DEF Outcomes
  <2> QED
    BY <1>0, <1>1, <2>1, <2>2, ConcludesKeeps DEF Inv, TypeOK, AcceptedMeansMailed
<1>2. CASE Ends(t, "threw") /\ abandoned' = abandoned \cup {teller[t].notice}
  BY <1>0, <1>2, EndsKeeps
<1> QED
  BY <1>1, <1>2 DEF UpdateThrows

LEMMA DiesKeeps ==
    ASSUME Inv, NEW t \in Tellers, Dies(t)
    PROVE  Inv'
<1>1. teller[t].pc \in Telling
  BY TellerFields DEF Inv, Dies, Teller, Telling
<1> QED
  BY <1>1, EndsKeeps DEF Dies

\* The provider's word, a bounce and the configuration: no teller moves.
LEMMA OutsideKeeps ==
    ASSUME Inv,
           \/ BounceNotice
           \/ \E n \in Notices, said \in News : TransportEvent(n, said)
           \/ Configure
           \/ UNCHANGED vars
    PROVE  Inv'
<1>1. UNCHANGED <<delivery, mailed, teller, troubles>>
  BY DEF BounceNotice, TransportEvent, Configure, vars
<1>2. NoticesKnown' /\ ReservationsHeld' /\ ReportsTrue'
  BY <1>1 DEF Inv, NoticesKnown, ReservationsHeld, ReportsTrue, Owner
<1>3. TypeOK' /\ AcceptedMeansMailed'
  <2>1. CASE BounceNotice
    BY <2>1 DEF BounceNotice, Inv, TypeOK, AcceptedMeansMailed, Notice, Notices, Statuses
  <2>2. ASSUME NEW n \in Notices, NEW said \in News, TransportEvent(n, said)
        PROVE  TypeOK' /\ AcceptedMeansMailed'
    <3>1. StatusFor(said) \in Statuses
      BY DEF StatusFor, News, Statuses
    <3> QED
      BY <2>2, <3>1 DEF TransportEvent, Inv, TypeOK, AcceptedMeansMailed, Notice
  <2>3. CASE Configure
    BY <2>3 DEF Configure, Inv, TypeOK, AcceptedMeansMailed
  <2>4. CASE UNCHANGED vars
    BY <2>4 DEF vars, Inv, TypeOK, AcceptedMeansMailed
  <2> QED
    BY <2>1, <2>2, <2>3, <2>4
<1> QED
  BY <1>2, <1>3 DEF Inv

-----------------------------------------------------------------------------
LEMMA NextKeeps == Inv /\ [Next]_vars => Inv'
<1> SUFFICES ASSUME Inv, [Next]_vars PROVE Inv'
  OBVIOUS
<1>1. ASSUME NEW t \in Tellers, NEW tell \in Tells, Begin(t, tell) PROVE Inv'
  BY <1>1, BeginKeeps
<1>2. ASSUME NEW t \in Tellers, NEW n \in Notices, Retry(t, n) PROVE Inv'
  BY <1>2, RetryKeeps
<1>3. ASSUME NEW t \in Tellers, TellerStep(t) PROVE Inv'
  BY <1>3, StoreNoticeKeeps, StoreQuestionKeeps, ReserveKeeps, SendKeeps, CompleteDeliveryKeeps,
     FailDeliveryKeeps, UpdateDeliveryKeeps DEF TellerStep
<1>4. ASSUME NEW t \in Tellers, UpdateThrows(t) \/ Dies(t) PROVE Inv'
  BY <1>4, UpdateThrowsKeeps, DiesKeeps
<1> QED
  BY <1>1, <1>2, <1>3, <1>4, OutsideKeeps DEF Next

\* In every reachable state a reservation has one owner, and what the receipts and the
\* tellers report as mailed was mailed.
THEOREM Invariance == Spec => []Inv
BY InitInv, NextKeeps, PTL DEF Spec

\* The stores of the notices hold what NotificationRecord allows, whatever the
\* order in which tellers, retries and the provider write them.
THEOREM TypeCorrect == Spec => []TypeOK
<1>1. Inv => TypeOK
  BY DEF Inv
<1> QED
  BY <1>1, Invariance, PTL

\* reserveDelivery gives a mail to one teller: no two are at the provider with it, for any
\* number of tellers, retries and failures.
THEOREM OneTellerMails == Spec => []OneMailer
<1>1. Inv => OneMailer
  BY DEF Inv, ReservationsHeld, OneMailer, Owner
<1> QED
  BY <1>1, Invariance, PTL

\* updateDelivery and the transport events never say that a notice was accepted, delivered
\* or bounced when no mail of it was.
THEOREM AcceptedIsTrue == Spec => []AcceptedMeansMailed
<1>1. Inv => AcceptedMeansMailed
  BY DEF Inv
<1> QED
  BY <1>1, Invariance, PTL

-----------------------------------------------------------------------------
(***************************************************************************)
(* The question that an intervention asks.                                 *)
(***************************************************************************)

\* A teller that raises an intervention has the question still to store or has seen to it.
Asks(x) ==
    x.tell = "raise" /\ x.pc \notin {"new", "threw"} =>
        question \/ (x.pc = "store" /\ "question" \in x.left)

AskInv == \A t \in Tellers : Asks(teller[t])

\* A step of a teller that stores neither notice nor question.
LEMMA PlainStepAsks ==
    ASSUME Inv, AskInv, NEW t \in Tellers,
           Reserve(t) \/ Send(t) \/ CompleteDelivery(t) \/ FailDelivery(t) \/ UpdateDelivery(t)
               \/ UpdateThrows(t) \/ Dies(t)
    PROVE  AskInv'
<1>1. /\ question' = question
      /\ \A u \in Tellers : u # t => teller'[u] = teller[u]
      /\ teller'[t].tell = teller[t].tell
      /\ teller[t].pc \in Telling
      /\ teller[t].pc # "store" \/ teller'[t].pc = "threw"
  <2>1. teller[t] \in Teller /\ teller \in [Tellers -> Teller]
    BY DEF Inv, TypeOK
  <2>2. CASE Reserve(t) \/ Send(t) \/ CompleteDelivery(t) \/ FailDelivery(t)
    <3>1. PICK step, outcome :
              \/ teller' = [teller EXCEPT ![t].pc = step]
              \/ teller' = [teller EXCEPT ![t].pc = "update", ![t].outcome = outcome]
      BY <2>2 DEF Reserve, Send, CompleteDelivery, FailDelivery, Goes, Concludes
    <3>2. teller'[t].tell = teller[t].tell /\ \A u \in Tellers : u # t => teller'[u] = teller[u]
      BY <2>1, <3>1 DEF Teller
    <3>3. question' = question /\ teller[t].pc \in Telling /\ teller[t].pc # "store"
      BY <2>2 DEF Reserve, Send, CompleteDelivery, FailDelivery, Telling
    <3> QED
      BY <3>2, <3>3
  <2>3. CASE UpdateThrows(t) /\ Concludes(t, "FAILED")
    BY <2>1, <2>3 DEF UpdateThrows, Concludes, Teller, Telling
  <2>4. ASSUME NEW how \in {"done", "threw"}, Ends(t, how),
               UpdateDelivery(t) \/ UpdateThrows(t) \/ (Dies(t) /\ how = "threw")
        PROVE  /\ question' = question
               /\ \A u \in Tellers : u # t => teller'[u] = teller[u]
               /\ teller'[t].tell = teller[t].tell
               /\ teller[t].pc \in Telling
               /\ teller[t].pc # "store" \/ teller'[t].pc = "threw"
    <3>1. teller'[t] = [NewTeller EXCEPT !.pc = how, !.tell = teller[t].tell]
          /\ \A u \in Tellers : u # t => teller'[u] = teller[u]
      BY <2>1, <2>4 DEF Ends
    <3>2. teller'[t].tell = teller[t].tell /\ teller'[t].pc = how
      BY <3>1 DEF NewTeller
    <3>3. question' = question /\ teller[t].pc \in Telling
          /\ (teller[t].pc # "store" \/ how = "threw")
      BY <2>1, <2>4 DEF UpdateDelivery, UpdateThrows, Dies, Telling, Teller
    <3> QED
      BY <3>1, <3>2, <3>3
  <2> QED
    BY <2>2, <2>3, <2>4 DEF UpdateDelivery, UpdateThrows, Dies
<1> QED
  BY <1>1 DEF AskInv, Asks, Telling

LEMMA StoreAsks ==
    ASSUME Inv, AskInv, NEW t \in Tellers, NEW part \in {"notice", "question"}, NEW fresh \in BOOLEAN,
           teller[t].pc = "store", Stores(t, part, fresh),
           question' = (question \/ part = "question")
    PROVE  AskInv'
<1>1. teller[t] \in Teller /\ teller \in [Tellers -> Teller]
  BY DEF Inv, TypeOK
<1>2. \A u \in Tellers : u # t => teller'[u] = teller[u]
  BY <1>1 DEF Stores, Ends
<1>3. Asks(teller[t])
  BY DEF AskInv
<1>4. CASE teller[t].left \ {part} = {}
  <2>1. teller'[t].tell = teller[t].tell
    <3>1. CASE Ends(t, "done")
      BY <1>1, <3>1 DEF Ends, NewTeller
    <3>2. CASE ~Ends(t, "done")
      BY <1>1, <3>2 DEF Stores, Teller
    <3> QED
      BY <3>1, <3>2
  <2>2. teller[t].tell = "raise" => question'
    BY <1>3, <1>4 DEF Asks
  <2> QED
    BY <1>2, <2>1, <2>2 DEF AskInv, Asks
<1>5. CASE teller[t].left \ {part} # {}
  <2>1. teller'[t].tell = teller[t].tell /\ teller'[t].pc = "store"
        /\ teller'[t].left = teller[t].left \ {part}
    BY <1>1, <1>5 DEF Stores, Teller
  <2>2. teller[t].tell = "raise" => question' \/ "question" \in teller'[t].left
    BY <1>3, <2>1 DEF Asks
  <2> QED
    BY <1>2, <2>1, <2>2 DEF AskInv, Asks
<1> QED
  BY <1>4, <1>5

LEMMA RefusedAsks ==
    ASSUME Inv, AskInv, NEW t \in Tellers, teller[t].pc = "store", Refused(t), UNCHANGED question
    PROVE  AskInv'
<1>1. teller[t] \in Teller /\ teller \in [Tellers -> Teller]
  BY DEF Inv, TypeOK
<1>2. \A u \in Tellers : u # t => teller'[u] = teller[u]
  BY <1>1 DEF Refused, Ends
<1>3. Asks(teller[t])
  BY DEF AskInv
<1>4. CASE AsksRegardless(t) /\ "question" \in teller[t].left
  <2>1. teller'[t].pc = "store" /\ teller'[t].left = {"question"}
    BY <1>1, <1>4 DEF Refused, Teller
  <2> QED
    BY <1>2, <2>1 DEF AskInv, Asks
<1>5. CASE ~(AsksRegardless(t) /\ "question" \in teller[t].left)
  <2>1. teller'[t].tell = teller[t].tell
    BY <1>1, <1>5 DEF Refused, Ends, NewTeller
  <2>2. teller[t].tell = "raise" => question
    BY <1>3, <1>5 DEF Asks, AsksRegardless
  <2> QED
    BY <1>2, <2>1, <2>2 DEF AskInv, Asks
<1> QED
  BY <1>4, <1>5

LEMMA BeginAsks ==
    ASSUME Inv, AskInv, NEW t \in Tellers,
           (\E tell \in Tells : Begin(t, tell)) \/ (\E n \in Notices : Retry(t, n))
    PROVE  AskInv'
<1>1. teller \in [Tellers -> Teller]
  BY DEF Inv, TypeOK
<1>2. question' = question /\ \A u \in Tellers : u # t => teller'[u] = teller[u]
  BY <1>1 DEF Begin, Retry
<1>3. Asks(teller[t])'
  <2>1. ASSUME NEW tell \in Tells, Begin(t, tell) PROVE Asks(teller[t])'
    BY <1>1, <2>1 DEF Begin, Asks, NewTeller
  <2>2. ASSUME NEW n \in Notices, Retry(t, n) PROVE Asks(teller[t])'
    BY <1>1, <2>2 DEF Retry, Asks, NewTeller
  <2> QED
    BY <2>1, <2>2
<1> QED
  BY <1>2, <1>3 DEF AskInv, Asks

LEMMA NextAsks == Inv /\ AskInv /\ [Next]_vars => AskInv'
<1> SUFFICES ASSUME Inv, AskInv, [Next]_vars PROVE AskInv'
  OBVIOUS
<1>1. ASSUME NEW t \in Tellers, StoreNotice(t) PROVE AskInv'
  <2>1. teller[t].pc = "store" /\ question' = question
        /\ (Stores(t, "notice", FALSE) \/ Stores(t, "notice", TRUE) \/ Refused(t))
    BY <1>1 DEF StoreNotice
  <2> QED
    BY <2>1, StoreAsks, RefusedAsks DEF Inv, TypeOK
<1>2. ASSUME NEW t \in Tellers, StoreQuestion(t) PROVE AskInv'
  <2>1. teller[t].fresh \in BOOLEAN
    BY TellerFields DEF Inv, Teller
  <2> QED
    BY <1>2, <2>1, StoreAsks DEF StoreQuestion, Inv, TypeOK
<1>3. CASE BounceNotice \/ Configure \/ UNCHANGED vars
           \/ \E n \in Notices, said \in News : TransportEvent(n, said)
  <2>1. teller' = teller /\ (question => question')
    BY <1>3 DEF BounceNotice, Configure, vars, TransportEvent
  <2> QED
    BY <2>1 DEF AskInv, Asks
<1> QED
  BY <1>1, <1>2, <1>3, BeginAsks, PlainStepAsks DEF Next, TellerStep

\* InterventionService.raise ends well only with the question stored, whatever the
\* notification budget of the case and whoever else uses it up meanwhile.
THEOREM QuestionIsAsked == Spec => []QuestionSurvivesBudget
<1>1. Init => AskInv
  BY DEF Init, AskInv, Asks, NewTeller
<1>2. AskInv => QuestionSurvivesBudget
  BY DEF AskInv, Asks, QuestionSurvivesBudget
<1> QED
  BY <1>1, <1>2, NextAsks, Invariance, PTL DEF Spec
=============================================================================
