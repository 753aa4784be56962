------------------------ MODULE ProofContractProofs ------------------------
(***************************************************************************)
(* The facts of a case agree on their way, for all drafts, corrections and *)
(* answers: proofs of the properties of ProofContract.                     *)
(*                                                                         *)
(* Each property relates two ends of the way.  The invariant says what     *)
(* every stage in between has kept: what the plan asks to be proved is     *)
(* what the draft says (PlanInv), a draft is approved with all of its      *)
(* money or none (MoneyWhole), the company was told what is to be proved   *)
(* (SharedTrue), and an answer stands with the verifier's reasons          *)
(* (EvidenceInv).                                                          *)
(***************************************************************************)
EXTENDS ProofContract, TLAPS

\* The analysis has made a plan; its owner has approved it.
Drafted == state \notin {"ANALYZING", "REFUSED"}
Approved == Drafted /\ state # "AWAITING_APPROVAL"

\* Before that there is nothing.
Undrafted == ~Drafted => draft = None /\ plan = None /\ found = {}

\* The plan of a draft, however corrected: its proof follows the draft, its list of shared
\* fields what the extraction found, its issuer the channel.
PlanInv ==
    Drafted =>
        /\ draft \in Drafts /\ plan \in Plans /\ found \subseteq Money
        /\ \A f \in Money \cup {"transactionRef"} : plan.proof[f] = draft[f]
        /\ plan.tracking = (plan.proof.subject # None)
        /\ plan.sharedFields = {"transactionRef"} \cup found
                                   \cup (IF plan.tracking THEN {"subject"} ELSE {})
        /\ plan.trustedIssuer = Issuer(plan.channel)

\* A draft is approved with all of the money facts or none.
MoneyWhole == Approved => Money \subseteq Holds(draft) \/ Money \cap Holds(draft) = {}

\* What was shared is what the approved plan asks to be proved.
SharedTrue ==
    shared # None =>
        /\ state \in {"WAITING_EXTERNAL", "NEEDS_ATTENTION", "DONE"}
        /\ shared = SharedFacts(plan)

\* What an answer may say, and how it is kept.
Candidate ==
    [level : ToSet(Levels),
     amountMinor : Amounts \cup {None, Other}, currency : Currencies \cup {None, Other},
     subject : Results \cup {None, Other}, transactionRef : Refs \cup {None, Other},
     tracking : BOOLEAN, issuer : {Issuer(c) : c \in Channels}, fresh : BOOLEAN]

Answer ==
    [candidate : Candidate, reasons : SUBSET (Facts \cup {"level", "tracking", "issuer", "stale"})]

\* Every answer is kept with what speaks against it under plan p.
Judged(p, answers) ==
    \A i \in 1..Len(answers) : answers[i].reasons = Reasons(p, answers[i].candidate)

\* The state of a case that has answers is what the last of them made it.
EvidenceInv ==
    /\ evidence \in Seq(Answer) /\ Len(evidence) <= MaxAnswers
    /\ Judged(plan, evidence)
    /\ IF evidence = <<>> THEN state \notin {"DONE", "NEEDS_ATTENTION"}
       ELSE shared # None /\ state = StateAfter(evidence[Len(evidence)].reasons)

States == {"ANALYZING", "REFUSED", "AWAITING_APPROVAL", "READY", "FAILED",
           "WAITING_EXTERNAL", "NEEDS_ATTENTION", "DONE"}

IInv ==
    /\ state \in States
    /\ Undrafted
    /\ PlanInv
    /\ MoneyWhole
    /\ SharedTrue
    /\ EvidenceInv
    /\ DeniedOnlyForAddedFacts

-----------------------------------------------------------------------------
LEMMA RankValues ==
    /\ ToSet(Levels) = {"PROMISE_RECORDED", "REQUEST_ACKNOWLEDGED", "MERCHANT_COMMITTED",
                        "MERCHANT_CONFIRMED", "FUNDS_SETTLED"}
    /\ Rank["MERCHANT_CONFIRMED"] = 4
<1>1. ToSet(Levels) = {"PROMISE_RECORDED", "REQUEST_ACKNOWLEDGED", "MERCHANT_COMMITTED",
                       "MERCHANT_CONFIRMED", "FUNDS_SETTLED"}
  BY DEF ToSet, Levels
<1>2. Rank["MERCHANT_CONFIRMED"] = CHOOSE i \in 1..Len(Levels) : Levels[i] = "MERCHANT_CONFIRMED"
  BY <1>1 DEF Rank
<1> QED
  BY <1>1, <1>2 DEF Levels

\* What the fields of a draft hold.
LEMMA DraftHolds ==
    ASSUME NEW d \in Drafts
    PROVE  /\ "transactionRef" \in Holds(d) /\ "result" \in Holds(d)
           /\ \A f \in Money : f \in Holds(d) <=> d[f] # None
           /\ d.transactionRef # None /\ d.result # None
BY ContractAssumption DEF Drafts, Holds, Money

\* What a plan asks to be proved.
LEMMA ProofHolds ==
    ASSUME NEW p \in Plans
    PROVE  /\ DOMAIN p.proof = Facts
           /\ Holds(p.proof) = {f \in Facts : p.proof[f] # None}
           /\ "transactionRef" \in Holds(p.proof)
BY ContractAssumption DEF Plans, Holds, Facts, Money

LEMMA PlanTypeValues ==
    ASSUME NEW d \in Drafts
    PROVE  PlanType(d) \in {"REFUND", "REPLACEMENT", "GENERAL"}
<1>1. CASE d.promiseType = "BILL_CREDIT"
  <2>1. PlanType(d) = "GENERAL"
    BY <1>1, Zenon DEF PlanType
  <2> QED
    BY <2>1
<1>2. CASE d.promiseType \notin {"BILL_CREDIT", None}
  <2>1. PlanType(d) = d.promiseType
    BY <1>2, Zenon DEF PlanType
  <2> QED
    BY <1>2, <2>1 DEF Drafts
<1>3. CASE d.promiseType # "BILL_CREDIT" /\ d.promiseType = None
  <2>1. PlanType(d) = IF Money \cap Holds(d) # {} THEN "REFUND" ELSE "GENERAL"
    BY <1>3, Zenon DEF PlanType
  <2> QED
    BY <2>1
<1> QED
  BY <1>1, <1>2, <1>3

LEMMA BuiltPlan ==
    ASSUME NEW d \in Drafts, WellFormed(Built(d))
    PROVE  /\ Built(d) \in Plans
           /\ \A f \in Money \cup {"transactionRef"} : Built(d).proof[f] = d[f]
           /\ Built(d).tracking = (Built(d).proof.subject # None)
           /\ Built(d).sharedFields = {"transactionRef"} \cup (Money \cap Holds(d))
                  \cup (IF Built(d).tracking THEN {"subject"} ELSE {})
           /\ Built(d).trustedIssuer = Issuer(Built(d).channel)
<1>1. PlanType(d) \in {"REFUND", "REPLACEMENT", "GENERAL"}
  BY PlanTypeValues
<1>2. d.result \in Results /\ None \notin Results
  BY ContractAssumption DEF Drafts
<1>3. Money \cap Holds(d) \subseteq Facts
  BY DEF Facts
<1>4. Built(d) \in Plans
  BY <1>1, <1>2, <1>3 DEF Built, BuiltSharing, Plans, Drafts, Money, Facts, Channels
<1>5. Built(d).tracking = (Built(d).proof.subject # None)
  BY <1>2 DEF Built, BuiltSharing
<1>6. \A f \in Money \cup {"transactionRef"} : Built(d).proof[f] = d[f]
  BY DEF Built, BuiltSharing, Money
<1>7. /\ Built(d).sharedFields = {"transactionRef"} \cup (Money \cap Holds(d))
             \cup (IF Built(d).tracking THEN {"subject"} ELSE {})
      /\ Built(d).trustedIssuer = Issuer(Built(d).channel)
  BY DEF Built, BuiltSharing
<1> QED
  BY <1>4, <1>5, <1>6, <1>7

LEMMA RevisedPlan ==
    ASSUME NEW p \in Plans, NEW d \in Drafts
    PROVE  /\ Revised(p, d) \in Plans
           /\ \A f \in Money \cup {"transactionRef"} : Revised(p, d).proof[f] = d[f]
           /\ Revised(p, d).proof.subject = p.proof.subject
           /\ Revised(p, d).tracking = p.tracking
           /\ Revised(p, d).sharedFields = p.sharedFields
           /\ Revised(p, d).channel = p.channel
           /\ Revised(p, d).trustedIssuer = p.trustedIssuer
<1>1. Revised(p, d).proof = [p.proof EXCEPT !.transactionRef = d.transactionRef,
                                 !.amountMinor = d.amountMinor, !.currency = d.currency]
  BY DEF Revised, Plans
<1>2. /\ Revised(p, d).channel = p.channel
      /\ Revised(p, d).tracking = p.tracking
      /\ Revised(p, d).sharedFields = p.sharedFields
      /\ Revised(p, d).trustedIssuer = p.trustedIssuer
  BY DEF Revised, Plans
<1>3. Revised(p, d) \in Plans
  BY DEF Revised, Plans, Drafts
<1> QED
  BY <1>1, <1>2, <1>3 DEF Plans, Drafts, Money

LEMMA CorrectedDraft ==
    ASSUME NEW d \in Drafts, NEW fields \in SUBSET Corrigible, NEW values \in Corrections
    PROVE  Corrected(d, fields, values) \in Drafts
<1> DEFINE c == Corrected(d, fields, values)
<1>1. "unsure" \notin fields
  BY DEF Corrigible, Money
<1>2. ASSUME NEW f \in DOMAIN d, f \in fields
      PROVE  c[f] = values[f]
  BY <1>1, <1>2, Zenon DEF Corrected
<1>3. ASSUME "unsure" \in DOMAIN d
      PROVE  c["unsure"] = d.unsure \ fields
  <2>1. c["unsure"] = CASE "unsure" \in fields   -> values["unsure"]
                        [] "unsure" = "unsure" -> d.unsure \ fields
                        [] OTHER               -> d["unsure"]
    BY <1>3, Zenon DEF Corrected
  <2> QED
    BY <1>1, <2>1, Zenon
<1>4. ASSUME NEW f \in DOMAIN d, f \notin fields, f # "unsure"
      PROVE  c[f] = d[f]
  BY <1>4, Zenon DEF Corrected
<1>5. c = [f \in DOMAIN d |-> c[f]]
  <2> DEFINE value(f) == CASE f \in fields -> values[f] [] f = "unsure" -> d.unsure \ fields
                           [] OTHER -> d[f]
  <2>1. c = [f \in DOMAIN d |-> value(f)]
    BY DEF Corrected
  <2> HIDE DEF c, value
  <2> QED
    BY <2>1
<1>6. DOMAIN d = {"promiseType", "result", "transactionRef", "amountMinor", "currency", "unsure"}
  BY DEF Drafts
<1> HIDE DEF c
<1> QED
  <2>1. /\ c.promiseType \in {"REFUND", "BILL_CREDIT", "REPLACEMENT", "GENERAL", None}
        /\ c.result \in Results /\ c.transactionRef \in Refs
        /\ c.amountMinor \in Amounts \cup {None} /\ c.currency \in Currencies \cup {None}
        /\ c.unsure \in SUBSET (Money \cup {"result", "transactionRef"})
    BY <1>1, <1>2, <1>3, <1>4, <1>6 DEF Drafts, Corrections, Corrigible, Money
  <2>2. c = [promiseType |-> c.promiseType, result |-> c.result,
             transactionRef |-> c.transactionRef, amountMinor |-> c.amountMinor,
             currency |-> c.currency, unsure |-> c.unsure]
    <3>1. c = [f \in {"promiseType", "result", "transactionRef", "amountMinor", "currency",
                      "unsure"} |-> c[f]]
      BY <1>5, <1>6
    <3> QED
      BY <3>1
  <2>3. c \in Drafts
    BY <2>1, <2>2 DEF Drafts
  <2> QED
    BY <2>3 DEF c

-----------------------------------------------------------------------------
(***************************************************************************)
(* The review.                                                             *)
(***************************************************************************)

LEMMA InitHolds == Init => IInv
<1> SUFFICES ASSUME Init PROVE IInv
  OBVIOUS
<1>1. <<>> \in Seq(Answer) /\ Len(<<>>) = 0
  OBVIOUS
<1> QED
  BY <1>1, ContractAssumption
     DEF Init, IInv, States, Drafted, Approved, Undrafted, PlanInv, MoneyWhole, SharedTrue,
         EvidenceInv, Judged, DeniedOnlyForAddedFacts

\* A step of the review leaves no answer and nothing shared.
LEMMA ReviewKeeps ==
    ASSUME IInv, state \in {"ANALYZING", "AWAITING_APPROVAL"},
           state' \in {"REFUSED", "AWAITING_APPROVAL", "READY"},
           UNCHANGED <<shared, evidence>>,
           Undrafted', PlanInv', MoneyWhole'
    PROVE  IInv'
<1>1. shared = None /\ evidence = <<>>
  <2>1. shared = None
    BY DEF IInv, SharedTrue
  <2> QED
    BY <2>1 DEF IInv, EvidenceInv
<1>2. SharedTrue'
  BY <1>1 DEF SharedTrue
<1>3. EvidenceInv'
  BY <1>1 DEF EvidenceInv, Judged, IInv
<1> QED
  BY <1>2, <1>3 DEF IInv, States, DeniedOnlyForAddedFacts

LEMMA ReadKeeps ==
    ASSUME IInv, NEW d \in Drafts, Read(d)
    PROVE  IInv'
<1>1. CASE WellFormed(Built(d))
  <2>1. /\ state' = "AWAITING_APPROVAL"
        /\ draft' = d /\ plan' = Built(d) /\ found' = Money \cap Holds(d)
    BY <1>1 DEF Read
  <2>2. PlanInv'
    BY <1>1, <2>1, BuiltPlan DEF PlanInv
  <2>3. Undrafted' /\ MoneyWhole'
    BY <2>1 DEF Undrafted, MoneyWhole, Approved, Drafted
  <2> QED
    BY <2>1, <2>2, <2>3, ReviewKeeps DEF Read
<1>2. CASE ~WellFormed(Built(d))
  <2>1. state' = "REFUSED" /\ UNCHANGED <<draft, plan, found>> /\ state = "ANALYZING"
    BY <1>2 DEF Read
  <2>2. Undrafted' /\ PlanInv' /\ MoneyWhole'
    BY <2>1 DEF IInv, Undrafted, PlanInv, MoneyWhole, Approved, Drafted
  <2> QED
    BY <2>1, <2>2, ReviewKeeps DEF Read
<1> QED
  BY <1>1, <1>2

LEMMA ReviseKeeps ==
    ASSUME IInv, NEW fields \in SUBSET Corrigible, NEW values \in Corrections,
           NEW recipient \in BOOLEAN, Revise(fields, values, recipient)
    PROVE  IInv'
<1> DEFINE d == Corrected(draft, fields, values)
           r == Revised(plan, d)
<1>1. /\ state = "AWAITING_APPROVAL" /\ state' = state
      /\ draft' = d /\ plan' = [r EXCEPT !.reachable = @ \/ recipient]
      /\ UNCHANGED <<found, shared, evidence>>
  BY DEF Revise
<1>2. PlanInv /\ Drafted /\ draft \in Drafts /\ plan \in Plans
  BY <1>1 DEF IInv, PlanInv, Drafted
<1>3. d \in Drafts
  BY <1>2, CorrectedDraft
<1>4. r \in Plans
  BY <1>2, <1>3, RevisedPlan
<1>5. /\ plan' \in Plans
      /\ plan'.proof = r.proof /\ plan'.tracking = r.tracking
      /\ plan'.sharedFields = r.sharedFields
      /\ plan'.channel = r.channel /\ plan'.trustedIssuer = r.trustedIssuer
  <2> HIDE DEF r
  <2> QED
    BY <1>1, <1>4 DEF Plans
<1>6. PlanInv'
  <2> HIDE DEF d
  <2> QED
    BY <1>1, <1>2, <1>3, <1>5, RevisedPlan DEF PlanInv
<1>7. Undrafted' /\ MoneyWhole'
  BY <1>1 DEF Undrafted, MoneyWhole, Approved, Drafted
<1> QED
  BY <1>1, <1>6, <1>7, ReviewKeeps

LEMMA SelectChannelKeeps ==
    ASSUME IInv, NEW channel \in Channels, NEW preset \in BOOLEAN, SelectChannel(channel, preset)
    PROVE  IInv'
<1> DEFINE r == Revised(plan, draft)
<1>1. /\ state = "AWAITING_APPROVAL" /\ state' = state
      /\ plan' = [r EXCEPT !.channel = channel, !.trustedIssuer = Issuer(channel),
                           !.reachable = channel = "CONTROLLED_SANDBOX" \/ preset]
      /\ UNCHANGED <<draft, found, shared, evidence>>
  BY DEF SelectChannel
<1>2. PlanInv /\ Drafted /\ draft \in Drafts /\ plan \in Plans
  BY <1>1 DEF IInv, PlanInv, Drafted
<1>3. r \in Plans
  BY <1>2, RevisedPlan
<1>4. /\ plan' \in Plans
      /\ plan'.proof = r.proof /\ plan'.tracking = r.tracking
      /\ plan'.sharedFields = r.sharedFields
      /\ plan'.channel = channel /\ plan'.trustedIssuer = Issuer(channel)
  <2> HIDE DEF r
  <2> QED
    BY <1>1, <1>3 DEF Plans
<1>5. PlanInv'
  BY <1>1, <1>2, <1>4, RevisedPlan DEF PlanInv
<1>6. Undrafted' /\ MoneyWhole'
  BY <1>1 DEF Undrafted, MoneyWhole, Approved, Drafted
<1> QED
  BY <1>1, <1>5, <1>6, ReviewKeeps

\* A draft that blocks nothing has its money whole, whatever its type.
LEMMA ApproveKeeps ==
    ASSUME IInv, Approve
    PROVE  IInv'
<1>1. /\ state = "AWAITING_APPROVAL" /\ state' = "READY" /\ Blocking(draft, plan) = {}
      /\ UNCHANGED <<draft, found, plan, shared, evidence>>
  BY DEF Approve
<1>2. Money \cap Holds(draft) # {} => Money \subseteq Holds(draft)
  BY <1>1 DEF Blocking, Money
<1>3. Undrafted' /\ PlanInv' /\ MoneyWhole'
  BY <1>1, <1>2 DEF IInv, Undrafted, PlanInv, MoneyWhole, Approved, Drafted, Holds
<1> QED
  BY <1>1, <1>3, ReviewKeeps

-----------------------------------------------------------------------------
(***************************************************************************)
(* The follow-up and its answers.                                          *)
(***************************************************************************)

LEMMA SharedDomain ==
    ASSUME NEW p \in Plans
    PROVE  /\ DOMAIN SharedFacts(p) = {f \in Facts : p.proof[f] # None}
           /\ \A f \in DOMAIN SharedFacts(p) : SharedFacts(p)[f] = p.proof[f]
BY ProofHolds DEF SharedFacts

\* Of the money, the follow-up shares what the draft holds.
LEMMA SharedMoney ==
    ASSUME NEW p \in Plans, NEW d \in Drafts, \A f \in Money : p.proof[f] = d[f]
    PROVE  DOMAIN SharedFacts(p) \cap Money = Money \cap Holds(d)
<1>1. DOMAIN SharedFacts(p) = {f \in Facts : p.proof[f] # None}
  BY SharedDomain
<1>2. \A f \in Money : f \in Facts /\ (f \in Holds(d) <=> d[f] # None)
  BY DraftHolds DEF Facts
<1> QED
  BY <1>1, <1>2

LEMMA RunKeeps ==
    ASSUME IInv, Run
    PROVE  IInv'
<1>1. /\ state = "READY" /\ evidence = <<>> /\ shared = None
      /\ UNCHANGED <<draft, found, plan, evidence>>
  <2>1. state = "READY" /\ UNCHANGED <<draft, found, plan, evidence>> /\ shared = None
    BY DEF Run, IInv, SharedTrue
  <2> QED
    BY <2>1 DEF IInv, EvidenceInv
<1>2. PlanInv /\ Drafted /\ draft \in Drafts /\ plan \in Plans
  BY <1>1 DEF IInv, PlanInv, Drafted
<1>3. state' \in {"WAITING_EXTERNAL", "FAILED"}
  BY DEF Run
<1>4. Undrafted' /\ PlanInv' /\ MoneyWhole'
  BY <1>1, <1>2, <1>3 DEF IInv, Undrafted, PlanInv, MoneyWhole, Approved, Drafted, Holds
<1>5. EvidenceInv'
  BY <1>1, <1>3 DEF EvidenceInv, IInv
<1>6. CASE Permitted(plan)
  <2>1. state' = "WAITING_EXTERNAL" /\ shared' = SharedFacts(plan)
    BY <1>6 DEF Run
  <2>2. SharedTrue' /\ DeniedOnlyForAddedFacts'
    BY <1>1, <2>1 DEF SharedTrue, SharedFacts, Holds, DeniedOnlyForAddedFacts
  <2> QED
    BY <1>3, <1>4, <1>5, <2>2 DEF IInv, States
<1>7. CASE ~Permitted(plan)
  <2>1. state' = "FAILED" /\ shared' = shared
    BY <1>7 DEF Run
  <2>2. PICK f \in Facts : plan.proof[f] # None /\ f \notin plan.sharedFields
    BY <1>2, <1>7, SharedDomain DEF Permitted
  <2>3. f \in Money /\ f \notin found /\ draft[f] # None
    BY <1>2, <2>2 DEF PlanInv, Facts
  <2>4. SharedTrue' /\ DeniedOnlyForAddedFacts'
    BY <1>1, <2>1, <2>3 DEF SharedTrue, DeniedOnlyForAddedFacts
  <2> QED
    BY <1>3, <1>4, <1>5, <2>4 DEF IInv, States
<1> QED
  BY <1>6, <1>7

LEMMA ReasonsType ==
    ASSUME NEW p, NEW c, Holds(p.proof) \subseteq Facts
    PROVE  Reasons(p, c) \in SUBSET (Facts \cup {"level", "tracking", "issuer", "stale"})
BY DEF Reasons, Differing

LEMMA RecordKeeps ==
    ASSUME IInv, shared # None, NEW c \in Candidate, Record(c)
    PROVE  IInv'
<1> DEFINE a == [candidate |-> c, reasons |-> Reasons(plan, c)]
<1>1. /\ state = "WAITING_EXTERNAL" /\ evidence' = Append(evidence, a)
      /\ Len(evidence) < MaxAnswers /\ state' = StateAfter(Reasons(plan, c))
      /\ UNCHANGED <<draft, found, plan, shared>>
  BY DEF Record
<1>2. PlanInv /\ Drafted /\ plan \in Plans
  BY <1>1 DEF IInv, PlanInv, Drafted
<1>3. state' \in {"DONE", "WAITING_EXTERNAL", "NEEDS_ATTENTION"}
  BY <1>1, Zenon DEF StateAfter
<1>4. Undrafted' /\ PlanInv' /\ MoneyWhole' /\ SharedTrue' /\ DeniedOnlyForAddedFacts'
  BY <1>1, <1>2, <1>3
     DEF IInv, Undrafted, PlanInv, MoneyWhole, Approved, Drafted, Holds, SharedTrue, SharedFacts,
         DeniedOnlyForAddedFacts
<1>5. a \in Answer
  BY <1>2, ReasonsType, ProofHolds DEF Answer
<1>6. /\ evidence' \in Seq(Answer) /\ Len(evidence') = Len(evidence) + 1
      /\ evidence'[Len(evidence) + 1] = a
      /\ \A i \in 1..Len(evidence) : evidence'[i] = evidence[i]
      /\ Len(evidence) \in Nat
  <2> HIDE DEF a
  <2> QED
    BY <1>1, <1>5 DEF IInv, EvidenceInv
<1>7. EvidenceInv'
  <2>1. Judged(plan, evidence')
    BY <1>6 DEF IInv, EvidenceInv, Judged
  <2>2. evidence' # <<>> /\ Len(evidence') <= MaxAnswers
    BY <1>1, <1>6, ContractAssumption
  <2>3. state' = StateAfter(evidence'[Len(evidence')].reasons)
    BY <1>1, <1>6
  <2> QED
    BY <1>1, <1>6, <2>1, <2>2, <2>3 DEF EvidenceInv
<1> QED
  BY <1>3, <1>4, <1>7 DEF IInv, States

\* The sandbox echoes what it was told, and the company's reply is read fact by fact.
LEMMA AnswersAreCandidates ==
    ASSUME IInv, shared # None,
           NEW level \in ToSet(Levels), NEW x, NEW y, NEW ahead \in BOOLEAN
    PROVE  /\ SandboxCandidate(level, x, ahead) \in Candidate
           /\ ReplyCandidate(level, x, y) \in Candidate
<1>1. PlanInv /\ Drafted /\ plan \in Plans /\ shared = SharedFacts(plan)
  BY DEF IInv, SharedTrue, PlanInv, Drafted
<1>2. /\ plan.proof.amountMinor \in Amounts \cup {None}
      /\ plan.proof.currency \in Currencies \cup {None}
      /\ plan.proof.subject \in Results \cup {None}
      /\ plan.proof.transactionRef \in Refs
      /\ plan.trustedIssuer \in {Issuer(c) : c \in Channels}
  BY <1>1 DEF Plans
<1>3. SandboxCandidate(level, x, ahead) \in Candidate
  <2> DEFINE echoed(f) == IF f \in DOMAIN shared THEN shared[f] ELSE None
  <2>1. \A f \in Facts : echoed(f) \in {plan.proof[f], None}
    BY <1>1, SharedDomain
  <2>2. /\ echoed("amountMinor") \in Amounts \cup {None}
        /\ echoed("currency") \in Currencies \cup {None}
        /\ echoed("subject") \in Results \cup {None}
        /\ echoed("transactionRef") \in Refs \cup {None}
    BY <1>2, <2>1 DEF Facts, Money
  <2> HIDE DEF echoed
  <2> QED
    BY <2>2 DEF SandboxCandidate, Candidate, echoed, Channels
<1>4. ReplyCandidate(level, x, y) \in Candidate
  <2> DEFINE stated(f) == CASE f = x -> None [] f = y -> Other [] OTHER -> plan.proof[f]
  <2>1. ASSUME NEW f PROVE stated(f) \in {None, Other, plan.proof[f]}
    BY Zenon
  <2>2. /\ stated("amountMinor") \in {None, Other, plan.proof.amountMinor}
        /\ stated("currency") \in {None, Other, plan.proof.currency}
        /\ stated("subject") \in {None, Other, plan.proof.subject}
        /\ stated("transactionRef") \in {None, Other, plan.proof.transactionRef}
    BY <2>1
  <2>3. ReplyCandidate(level, x, y) =
            [level |-> level, amountMinor |-> stated("amountMinor"),
             currency |-> stated("currency"),
             transactionRef |-> stated("transactionRef"), subject |-> stated("subject"),
             tracking |-> x # "tracking", issuer |-> plan.trustedIssuer, fresh |-> TRUE]
    BY DEF ReplyCandidate
  <2> HIDE DEF stated
  <2> QED
    BY <1>2, <2>2, <2>3 DEF Candidate
<1> QED
  BY <1>3, <1>4

LEMMA StepKeeps == IInv /\ [Next]_vars => IInv'
<1> SUFFICES ASSUME IInv, [Next]_vars PROVE IInv'
  OBVIOUS
<1>1. ASSUME NEW step \in ScenarioSteps, NEW ahead \in BOOLEAN,
             SandboxAnswers(step[1], step[2], ahead)
      PROVE  IInv'
  <2>1. step[1] \in ToSet(Levels)
    BY RankValues DEF ScenarioSteps
  <2> QED
    BY <1>1, <2>1, AnswersAreCandidates, RecordKeeps DEF SandboxAnswers
<1>2. ASSUME NEW level \in ToSet(Levels), NEW missing, NEW different,
             CompanyReplies(level, missing, different)
      PROVE  IInv'
  BY <1>2, AnswersAreCandidates, RecordKeeps DEF CompanyReplies
<1>3. CASE UNCHANGED vars
  BY <1>3 DEF vars, IInv, States, Drafted, Approved, Undrafted, PlanInv, MoneyWhole, Holds,
              SharedTrue, SharedFacts, EvidenceInv, DeniedOnlyForAddedFacts
<1> QED
  BY <1>1, <1>2, <1>3, ReadKeeps, ReviseKeeps, SelectChannelKeeps, ApproveKeeps, RunKeeps DEF Next

\* What one stage of the case has kept of the facts, the next one finds: the analysis, the
\* review, the runner and the evidence service keep the invariant between them.
THEOREM Invariance == Spec => []IInv
BY InitHolds, StepKeeps, PTL DEF Spec

-----------------------------------------------------------------------------
(***************************************************************************)
(* The properties.                                                         *)
(***************************************************************************)

\* Drafts, plans, what is shared and what is answered keep their types (the schemas of
\* contracts), through every correction of the review.
THEOREM TypeCorrect == Spec => []TypeOK
<1>1. IInv => TypeOK
  <2> SUFFICES ASSUME IInv PROVE TypeOK
    OBVIOUS
  <2>1. /\ draft \in Drafts \cup {None} /\ plan \in Plans \cup {None} /\ found \subseteq Money
    BY DEF IInv, Undrafted, PlanInv
  <2>2. shared # None => DOMAIN shared \subseteq Facts
    <3> SUFFICES ASSUME shared # None PROVE DOMAIN shared \subseteq Facts
      OBVIOUS
    <3>1. plan \in Plans /\ shared = SharedFacts(plan)
      BY DEF IInv, SharedTrue, PlanInv, Drafted
    <3> QED
      BY <3>1, SharedDomain
  <2> QED
    BY <2>1, <2>2 DEF IInv, States, EvidenceInv, TypeOK
<1> QED
  BY <1>1, Invariance, PTL

\* The proof asked for is about the draft that the owner sees, whatever was corrected,
\* cleared or added (buildPlan, revisedPlan).
THEOREM PlansFollowDrafts == Spec => []PlanFollowsDraft
<1>1. IInv => PlanFollowsDraft
  <2> SUFFICES ASSUME IInv, plan # None PROVE PlanFollowsDraft
    BY DEF PlanFollowsDraft
  <2>1. Drafted /\ PlanInv
    BY DEF IInv, Undrafted
  <2>2. \A f \in Money \cup {"transactionRef"} : plan.proof[f] = draft[f]
    BY <2>1 DEF PlanInv
  <2>3. Approved => (draft.amountMinor = None) = (draft.currency = None)
    BY <2>1, DraftHolds DEF IInv, MoneyWhole, PlanInv, Money
  <2> QED
    BY <2>1, <2>2, <2>3 DEF PlanFollowsDraft, Approved, Drafted, Money
<1> QED
  BY <1>1, Invariance, PTL

\* An honest confirmation of the sandbox proves the case: the runner shares every fact that
\* the verifier asks for.
THEOREM HonestAnswersProve == Spec => []HonestAnswerProves
<1>1. IInv => HonestAnswerProves
  <2> SUFFICES ASSUME IInv, shared # None, plan.channel = "CONTROLLED_SANDBOX"
               PROVE  Reasons(plan, SandboxCandidate("MERCHANT_CONFIRMED", None, FALSE)) = {}
    BY DEF HonestAnswerProves
  <2> DEFINE c == SandboxCandidate("MERCHANT_CONFIRMED", None, FALSE)
  <2>1. PlanInv /\ Drafted /\ plan \in Plans /\ shared = SharedFacts(plan)
    BY DEF IInv, SharedTrue, PlanInv, Drafted
  <2>2. \A f \in Holds(plan.proof) : f \in DOMAIN shared /\ shared[f] = plan.proof[f]
    BY <2>1, ProofHolds, SharedDomain
  <2>3. None \notin {"amount", "reference"}
    BY ContractAssumption DEF Mismatches
  <2>4. /\ c.level = "MERCHANT_CONFIRMED" /\ c.fresh
        /\ c.issuer = Issuer("CONTROLLED_SANDBOX")
    BY DEF SandboxCandidate
  <2>9. \A f \in Facts \cap DOMAIN shared : c[f] = shared[f]
    BY <2>3 DEF SandboxCandidate, Facts, Money
  <2>5. plan.tracking => c.tracking
    <3>1. plan.tracking => "subject" \in DOMAIN shared
      BY <2>1, SharedDomain DEF PlanInv, Facts
    <3> QED
      BY <3>1 DEF SandboxCandidate
  <2>6. Differing(plan, c) = {}
    <3> HIDE DEF c
    <3> QED
      BY <2>1, <2>2, <2>9, ProofHolds DEF Differing
  <2>7. c.issuer = plan.trustedIssuer
    BY <2>1, <2>4 DEF PlanInv
  <2> HIDE DEF c
  <2>8. Reasons(plan, c) = {}
    BY <2>4, <2>5, <2>6, <2>7, RankValues DEF Reasons
  <2> QED
    BY <2>8 DEF c
<1> QED
  BY <1>1, Invariance, PTL

\* authorizeAction refuses the runner's proposal only for a fact that the owner added.
THEOREM DenialsAreForAddedFacts == Spec => []DeniedOnlyForAddedFacts
<1>1. IInv => DeniedOnlyForAddedFacts
  BY DEF IInv
<1> QED
  BY <1>1, Invariance, PTL

\* The runner shares money exactly when the review page said so.
THEOREM SharedMoneyIsDisclosed == Spec => []SharedMoneyWasDisclosed
<1>1. IInv => SharedMoneyWasDisclosed
  <2> SUFFICES ASSUME IInv, shared # None
               PROVE  DOMAIN shared \cap Money = Disclosed(draft) \cap Money
    BY DEF SharedMoneyWasDisclosed
  <2>1. PlanInv /\ Approved /\ plan \in Plans /\ draft \in Drafts /\ shared = SharedFacts(plan)
    BY DEF IInv, SharedTrue, PlanInv, Drafted, Approved
  <2>2. DOMAIN shared \cap Money = Money \cap Holds(draft)
    BY <2>1, SharedMoney DEF PlanInv, Approved
  <2>3. Money \subseteq Holds(draft) \/ Money \cap Holds(draft) = {}
    BY <2>1 DEF IInv, MoneyWhole
  <2> QED
    BY <2>2, <2>3 DEF Disclosed, Money
<1> QED
  BY <1>1, Invariance, PTL
LEMMA StatusMatches ==
    ASSUME NEW promised, promised # None, NEW observed
    PROVE  Status(promised, observed) = "MATCH" <=> observed = promised
<1>1. CASE observed = None
  <2>1. Status(promised, observed) = "MISSING"
    BY <1>1, Zenon DEF Status
  <2> QED
    BY <1>1, <2>1
<1>2. CASE observed # None /\ observed = promised
  BY <1>2, Zenon DEF Status
<1>3. CASE observed # None /\ observed # promised
  <2>1. Status(promised, observed) = "CONFLICT"
    BY <1>3, Zenon DEF Status
  <2> QED
    BY <1>3, <2>1
<1> QED
  BY <1>1, <1>2, <1>3

\* The rows of the page match exactly when no fact differs and no tracking is missing,
\* although the page compares an amount together with its currency.
LEMMA RowsAgree ==
    ASSUME NEW p \in Plans, NEW c, (p.proof.amountMinor = None) = (p.proof.currency = None)
    PROVE  (FactRows(p, c) = {"MATCH"}) = (Reasons(p, c) \cap (Facts \cup {"tracking"}) = {})
<1> DEFINE facts == Holds(p.proof) \ {"amountMinor"}
           money == Status(MoneyText(p.proof), MoneyText(c))
           promised == "amountMinor" \in Holds(p.proof)
<1>1. /\ "transactionRef" \in facts
      /\ facts \subseteq Facts /\ Differing(p, c) \subseteq Holds(p.proof)
      /\ \A f \in facts : p.proof[f] # None
      /\ promised => "currency" \in facts
  BY ProofHolds DEF Differing, Facts, Money
<1>2. \A f \in facts : Status(p.proof[f], c[f]) = "MATCH" <=> f \notin Differing(p, c)
  BY <1>1, StatusMatches DEF Differing
<1>3. promised => (money = "MATCH" <=> {"amountMinor", "currency"} \cap Differing(p, c) = {})
  <2> SUFFICES ASSUME promised
               PROVE  money = "MATCH" <=> {"amountMinor", "currency"} \cap Differing(p, c) = {}
    OBVIOUS
  <2>1. /\ p.proof.amountMinor \in Amounts /\ p.proof.currency \in Currencies
        /\ p.proof.amountMinor # None
        /\ "currency" \in Holds(p.proof)
    BY <1>1, ProofHolds DEF Plans, Facts, Money
  <2>2. MoneyText(p.proof) = <<p.proof.amountMinor, p.proof.currency>> /\ MoneyText(p.proof) # None
    BY <2>1, ContractAssumption DEF MoneyText
  <2>3. money = "MATCH" <=> MoneyText(c) = MoneyText(p.proof)
    BY <2>2, StatusMatches
  <2>4. MoneyText(c) = MoneyText(p.proof)
            <=> c.amountMinor = p.proof.amountMinor /\ c.currency = p.proof.currency
    BY <2>1, <2>2 DEF MoneyText
  <2> QED
    BY <2>1, <2>3, <2>4 DEF Differing
<1>4. FactRows(p, c) = {"MATCH"} <=>
          /\ \A f \in facts : Status(p.proof[f], c[f]) = "MATCH"
          /\ promised => money = "MATCH"
          /\ p.tracking => c.tracking
  BY <1>1 DEF FactRows
<1>5. Reasons(p, c) \cap (Facts \cup {"tracking"}) = {}
          <=> Differing(p, c) = {} /\ (p.tracking => c.tracking)
  BY <1>1, ProofHolds DEF Reasons, Facts, Money
<1>6. Differing(p, c) = {} <=>
          /\ \A f \in facts : f \notin Differing(p, c)
          /\ promised => {"amountMinor", "currency"} \cap Differing(p, c) = {}
  BY <1>1
<1> HIDE DEF money, promised, facts
<1> QED
  BY <1>2, <1>3, <1>4, <1>5, <1>6

\* The answer that proves the case is the one on its page.
LEMMA DoneShowsLast ==
    ASSUME IInv, state = "DONE"
    PROVE  /\ evidence # <<>> /\ Len(evidence) \in 1..MaxAnswers
           /\ evidence[Len(evidence)].reasons = {}
           /\ Shown = evidence[Len(evidence)]
<1>1. /\ evidence # <<>> /\ evidence \in Seq(Answer) /\ Len(evidence) <= MaxAnswers
      /\ StateAfter(evidence[Len(evidence)].reasons) = "DONE"
  BY DEF IInv, EvidenceInv
<1>2. Len(evidence) \in 1..MaxAnswers /\ DOMAIN evidence = 1..Len(evidence)
  BY <1>1, ContractAssumption
<1>3. evidence[Len(evidence)].reasons = {}
  <2> DEFINE r == evidence[Len(evidence)].reasons
  <2>1. r # {} => StateAfter(r) \in {"WAITING_EXTERNAL", "NEEDS_ATTENTION"}
    BY Zenon DEF StateAfter
  <2> QED
    BY <1>1, <2>1
<1>4. Shown = evidence[Len(evidence)]
  <2> DEFINE telling == {i \in DOMAIN evidence :
                            evidence[i].reasons = {}
                            \/ evidence[i].candidate.level # "REQUEST_ACKNOWLEDGED"}
  <2>1. Len(evidence) \in telling /\ \A i \in telling : i \in Int /\ i <= Len(evidence)
    BY <1>2, <1>3
  <2>2. Max(telling) = Len(evidence)
    <3> HIDE DEF telling
    <3>1. \A x \in telling : (\A y \in telling : x >= y) => x = Len(evidence)
      BY <1>2, <2>1
    <3>2. \A y \in telling : Len(evidence) >= y
      BY <1>2, <2>1
    <3> QED
      BY <2>1, <3>1, <3>2 DEF Max
  <2>3. Shown = evidence[IF telling = {} THEN Len(evidence) ELSE Max(telling)]
    BY DEF Shown
  <2> QED
    BY <2>1, <2>2, <2>3
<1> QED
  BY <1>1, <1>2, <1>3, <1>4

\* The conversation explains a verdict as what it does to the case.
LEMMA ExplainedState ==
    ASSUME NEW r
    PROVE  StateAfter(r) = CASE Explained(r) = "met the contract"  -> "DONE"
                             [] Explained(r) = "only acknowledged" -> "WAITING_EXTERNAL"
                             [] OTHER -> "NEEDS_ATTENTION"
<1>1. CASE r = {}
  <2>1. Explained(r) = "met the contract" /\ StateAfter(r) = "DONE"
    BY <1>1, Zenon DEF Explained, StateAfter
  <2> QED
    BY <2>1
<1>2. CASE r # {} /\ "level" \in r
  <2>1. Explained(r) = "only acknowledged" /\ StateAfter(r) = "WAITING_EXTERNAL"
    BY <1>2, Zenon DEF Explained, StateAfter
  <2> QED
    BY <2>1
<1>3. CASE r # {} /\ "level" \notin r
  <2>1. Explained(r) = "needs review" /\ StateAfter(r) = "NEEDS_ATTENTION"
    BY <1>3, Zenon DEF Explained, StateAfter
  <2> QED
    BY <2>1
<1> QED
  BY <1>1, <1>2, <1>3

\* The comparison on the case's page, the conversation below it and the verifier agree
\* about every answer.
THEOREM PagesAgreeWithVerifier == Spec => []PageAgreesWithVerifier
<1>1. IInv => PageAgreesWithVerifier
  <2> SUFFICES ASSUME IInv PROVE PageAgreesWithVerifier
    OBVIOUS
  <2>1. ASSUME NEW i \in DOMAIN evidence
        PROVE  (FactRows(plan, evidence[i].candidate) = {"MATCH"})
                   = (evidence[i].reasons \cap (Facts \cup {"tracking"}) = {})
    <3>1. evidence # <<>> /\ i \in 1..Len(evidence)
      BY <2>1 DEF IInv, EvidenceInv
    <3>2. /\ evidence[i].reasons = Reasons(plan, evidence[i].candidate)
          /\ Approved /\ PlanInv /\ Drafted
      BY <3>1 DEF IInv, EvidenceInv, Judged, SharedTrue, Approved, Drafted
    <3>3. plan \in Plans /\ (plan.proof.amountMinor = None) = (plan.proof.currency = None)
      BY <3>2, DraftHolds DEF IInv, MoneyWhole, PlanInv, Money
    <3> QED
      BY <3>2, <3>3, RowsAgree
  <2>2. ASSUME Verdict = "verified"
        PROVE  /\ Shown.reasons = {}
               /\ FactRows(plan, Shown.candidate) = {"MATCH"}
               /\ {"contacted", "accepted"} \subseteq Story
    <3>1. Outcome = "confirmed"
      BY <2>2 DEF Verdict
    <3>2. state = "DONE"
      BY <3>1, Zenon DEF Outcome
    <3>3. /\ evidence # <<>> /\ Len(evidence) \in DOMAIN evidence
          /\ Shown = evidence[Len(evidence)] /\ Shown.reasons = {}
          /\ Shown.candidate \in Candidate
      <4>1. /\ evidence # <<>> /\ Len(evidence) \in 1..MaxAnswers
            /\ Shown = evidence[Len(evidence)] /\ Shown.reasons = {}
        BY <3>2, DoneShowsLast
      <4>2. evidence \in Seq(Answer) /\ Len(evidence) \in 1..Len(evidence)
        BY <4>1, ContractAssumption DEF IInv, EvidenceInv
      <4>3. evidence[Len(evidence)] \in Answer
        BY <4>2
      <4> QED
        BY <4>1, <4>2, <4>3 DEF Answer
    <3>4. FactRows(plan, Shown.candidate) = {"MATCH"}
      BY <2>1, <3>3
    <3> QED
      BY <3>1, <3>3, <3>4 DEF Story
  <2>3. ASSUME evidence # <<>>
        PROVE  state = CASE Explained(Last(evidence).reasons) = "met the contract"  -> "DONE"
                         [] Explained(Last(evidence).reasons) = "only acknowledged" -> "WAITING_EXTERNAL"
                         [] OTHER -> "NEEDS_ATTENTION"
    <3>1. state = StateAfter(Last(evidence).reasons)
      BY <2>3 DEF IInv, EvidenceInv, Last
    <3> QED
      BY <3>1, ExplainedState
  <2> QED
    BY <2>1, <2>2, <2>3 DEF PageAgreesWithVerifier
<1> QED
  BY <1>1, Invariance, PTL
=============================================================================
