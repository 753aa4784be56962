--------------------------- MODULE ProofContract ---------------------------
(***************************************************************************)
(* The facts of a case on their way from the extracted promise to the page *)
(* that compares them with the proof: the draft, the plan and its evidence *)
(* requirement, the owner's corrections, the fields a follow-up shares,    *)
(* what the company answers, the verdict, the case's next state and the    *)
(* comparison the owner reads.                                             *)
(*                                                                         *)
(* One case and one actor at a time.  What is at stake is whether modules  *)
(* that each treat a field in their own way agree about it; how they       *)
(* interleave is the subject of Activation, FollowThrough and Replies.     *)
(***************************************************************************)
EXTENDS Integers, Sequences, SequencesExt

CONSTANTS
    None,       \* an absent value
    Other,      \* a value that is not the one in question, "WRONG-REFERENCE" say
    Amounts, Currencies, Refs, Results,
    MaxAnswers  \* bound: answers of the company

VARIABLES
    draft,     \* the promise as extracted and corrected, or None
    found,     \* the money facts the extraction found
    plan,      \* the plan, or None
    state,     \* of the case
    shared,    \* what the follow-up told the company, or None
    evidence   \* the answers recorded, each with the verifier's reasons

vars == <<draft, found, plan, state, shared, evidence>>

Money == {"amountMinor", "currency"}
Facts == Money \cup {"transactionRef", "subject"}
Levels == <<"PROMISE_RECORDED", "REQUEST_ACKNOWLEDGED", "MERCHANT_COMMITTED",
            "MERCHANT_CONFIRMED", "FUNDS_SETTLED">>
Rank == [level \in ToSet(Levels) |-> CHOOSE i \in 1..Len(Levels) : Levels[i] = level]
\* What a scenario of the sandbox may confirm wrongly.
Mismatches == {"amount", "reference"}

\* An absent value is no fact, no pair of facts and no word of the program.
ASSUME ContractAssumption ==
    /\ MaxAnswers \in Nat
    /\ {None, Other} \cap (Amounts \cup Currencies \cup Refs \cup Results) = {}
    /\ None # Other
    /\ None \notin (Amounts \X Currencies) \cup ToSet(Levels) \cup Mismatches

Channels == {"CONTROLLED_SANDBOX", "MANAGED_EMAIL"}
Issuer(channel) == IF channel = "MANAGED_EMAIL" THEN "managed-email" ELSE "merchant-sandbox"

Drafts ==
    [promiseType : {"REFUND", "BILL_CREDIT", "REPLACEMENT", "GENERAL", None},
     result : Results, transactionRef : Refs,
     amountMinor : Amounts \cup {None}, currency : Currencies \cup {None},
     unsure : SUBSET (Money \cup {"result", "transactionRef"})]

Plans ==
    [promiseType : {"REFUND", "REPLACEMENT", "GENERAL"}, goal : Results, channel : Channels,
     reachable : BOOLEAN, sharedFields : SUBSET Facts, tracking : BOOLEAN,
     proof : [amountMinor : Amounts \cup {None}, currency : Currencies \cup {None},
              transactionRef : Refs, subject : Results \cup {None}],
     trustedIssuer : {Issuer(c) : c \in Channels}]

Init ==
    /\ draft = None /\ found = {} /\ plan = None
    /\ state = "ANALYZING" /\ shared = None /\ evidence = <<>>

------------------------------------------------------------------------------
(***************************************************************************)
(* The review: a plan is built from the draft and follows its corrections. *)
(***************************************************************************)

Holds(record) == {f \in DOMAIN record : record[f] # None}

PlanType(d) ==
    CASE d.promiseType = "BILL_CREDIT" -> "GENERAL"
      [] d.promiseType \notin {"BILL_CREDIT", None} -> d.promiseType
      [] OTHER -> IF Money \cap Holds(d) # {} THEN "REFUND" ELSE "GENERAL"

BuiltSharing(d, fields) ==
    [promiseType |-> PlanType(d), goal |-> d.result, channel |-> "CONTROLLED_SANDBOX",
     reachable |-> TRUE, sharedFields |-> fields, tracking |-> PlanType(d) = "REPLACEMENT",
     proof |-> [amountMinor |-> d.amountMinor, currency |-> d.currency,
                transactionRef |-> d.transactionRef,
                subject |-> IF PlanType(d) = "REPLACEMENT" THEN d.result ELSE None],
     trustedIssuer |-> Issuer("CONTROLLED_SANDBOX")]

\* A fault: the currency is not among the fields to share.
BuiltWithoutCurrency(d) ==
    BuiltSharing(d, {"transactionRef"} \cup ({"amountMinor"} \cap Holds(d))
                    \cup (IF PlanType(d) = "REPLACEMENT" THEN {"subject"} ELSE {}))

Built(d) ==
    BuiltSharing(d, {"transactionRef"} \cup (Money \cap Holds(d))
                    \cup (IF PlanType(d) = "REPLACEMENT" THEN {"subject"} ELSE {}))

\* What resolutionPlanSchema asks of the requirement of each type of promise; no
\* plan has the bill period that a BILL_CREDIT needs.
WellFormed(p) ==
    /\ p.promiseType # "BILL_CREDIT"
    /\ p.promiseType = "REFUND" => Money \subseteq Holds(p.proof)
    /\ p.promiseType = "REPLACEMENT" => p.proof.subject # None /\ p.tracking

\* A fault: money that only a refund needs is left incomplete elsewhere.
BlockingOfRefunds(d, p) ==
    {f \in {"result", "transactionRef"} \cup Money :
        /\ f \in Money => d.promiseType \in {"REFUND", "BILL_CREDIT"}
        /\ f \notin Holds(d) \/ f \in d.unsure}
    \cup {f \in {"allowedRecipient"} : ~p.reachable}

Blocking(d, p) ==
    {f \in {"result", "transactionRef"} \cup Money :
        /\ f \in Money => d.promiseType \in {"REFUND", "BILL_CREDIT"} \/ Money \cap Holds(d) # {}
        /\ f \notin Holds(d) \/ f \in d.unsure}
    \cup {f \in {"allowedRecipient"} : ~p.reachable}

\* A model reads the promise.  A plan that the schema refuses fails the analysis.
Read(d) ==
    /\ state = "ANALYZING"
    /\ IF WellFormed(Built(d))
       THEN /\ draft' = d /\ plan' = Built(d) /\ found' = Money \cap Holds(d)
            /\ state' = "AWAITING_APPROVAL"
       ELSE /\ state' = "REFUSED"
            /\ UNCHANGED <<draft, plan, found>>
    /\ UNCHANGED <<shared, evidence>>

\* A correction names the facts it changes; None clears a money fact.
Corrigible == Money \cup {"result", "transactionRef"}
Corrections ==
    [amountMinor : Amounts \cup {None}, currency : Currencies \cup {None},
     result : Results, transactionRef : Refs]

Corrected(d, fields, values) ==
    [f \in DOMAIN d |->
        CASE f \in fields -> values[f] [] f = "unsure" -> d.unsure \ fields [] OTHER -> d[f]]

\* A fault: a money fact that was cleared stays in the requirement.
RevisedKeepingMoney(p, d) ==
    [p EXCEPT !.goal = d.result, !.proof.transactionRef = d.transactionRef,
              !.proof.amountMinor = IF d.amountMinor = None THEN @ ELSE d.amountMinor,
              !.proof.currency = IF d.currency = None THEN @ ELSE d.currency]

\* The type, the shared fields, the subject and the proof of shipment stay.
Revised(p, d) ==
    [p EXCEPT !.goal = d.result, !.proof.transactionRef = d.transactionRef,
              !.proof.amountMinor = d.amountMinor, !.proof.currency = d.currency]

Revise(fields, values, recipient) ==
    LET d == Corrected(draft, fields, values)
        p == [Revised(plan, d) EXCEPT !.reachable = @ \/ recipient]
    IN /\ state = "AWAITING_APPROVAL"
       /\ WellFormed(p)
       /\ draft' = d /\ plan' = p
       /\ UNCHANGED <<found, state, shared, evidence>>

\* Whether a mailbox is preset for the email channel is up to the deployment.
SelectChannel(channel, preset) ==
    /\ state = "AWAITING_APPROVAL"
    /\ plan.channel # channel
    /\ plan' = [Revised(plan, draft) EXCEPT !.channel = channel, !.trustedIssuer = Issuer(channel),
                                            !.reachable = channel = "CONTROLLED_SANDBOX" \/ preset]
    /\ UNCHANGED <<draft, found, state, shared, evidence>>

Approve ==
    /\ state = "AWAITING_APPROVAL"
    /\ Blocking(draft, plan) = {}
    /\ state' = "READY"
    /\ UNCHANGED <<draft, found, plan, shared, evidence>>

------------------------------------------------------------------------------
(***************************************************************************)
(* The follow-up and the answers to it.                                    *)
(***************************************************************************)

\* A fault: the subject is not shared.
SharedFactsWithoutSubject(p) == [f \in Holds(p.proof) \ {"subject"} |-> p.proof[f]]
SharedFacts(p) == [f \in Holds(p.proof) |-> p.proof[f]]

\* The runner proposes what the approved plan says, so of the policy's reasons
\* only a field outside the plan's list can refuse it (an approval that ended is
\* FollowThrough's).
Permitted(p) == DOMAIN SharedFacts(p) \subseteq p.sharedFields

Run ==
    /\ state = "READY"
    /\ IF Permitted(plan)
       THEN state' = "WAITING_EXTERNAL" /\ shared' = SharedFacts(plan)
       ELSE state' = "FAILED" /\ UNCHANGED shared
    /\ UNCHANGED <<draft, found, plan, evidence>>

\* What the sandbox was told comes back; its clock may run ahead of ours.
SandboxCandidate(level, mismatch, ahead) ==
    LET echoed(f) == IF f \in DOMAIN shared THEN shared[f] ELSE None
    IN [level |-> level,
        amountMinor |-> IF mismatch = "amount" /\ echoed("amountMinor") # None
                        THEN Other ELSE echoed("amountMinor"),
        currency |-> echoed("currency"), subject |-> echoed("subject"),
        transactionRef |-> IF mismatch = "reference" THEN Other ELSE echoed("transactionRef"),
        tracking |-> "subject" \in DOMAIN shared,
        issuer |-> Issuer("CONTROLLED_SANDBOX"), fresh |-> ~ahead]

\* What the model reads in an authenticated reply: the facts as asked for, but
\* for at most one that is missing or different.
ReplyCandidate(level, missing, different) ==
    LET stated(f) ==
            CASE f = missing -> None [] f = different -> Other [] OTHER -> plan.proof[f]
    IN [level |-> level, amountMinor |-> stated("amountMinor"), currency |-> stated("currency"),
        transactionRef |-> stated("transactionRef"), subject |-> stated("subject"),
        tracking |-> missing # "tracking", issuer |-> plan.trustedIssuer, fresh |-> TRUE]

Differing(p, c) == {f \in Holds(p.proof) : c[f] # p.proof[f]}

\* A fault: the currency is not compared.
ReasonsIgnoringCurrency(p, c) ==
    (Differing(p, c) \ {"currency"})
    \cup {r \in {"level"} : Rank[c.level] < Rank["MERCHANT_CONFIRMED"]}
    \cup {r \in {"tracking"} : p.tracking /\ ~c.tracking}
    \cup {r \in {"issuer"} : c.issuer # p.trustedIssuer}
    \cup {r \in {"stale"} : ~c.fresh}

\* The facts that differ and what else speaks against a candidate.
Reasons(p, c) ==
    Differing(p, c)
    \cup {r \in {"level"} : Rank[c.level] < Rank["MERCHANT_CONFIRMED"]}
    \cup {r \in {"tracking"} : p.tracking /\ ~c.tracking}
    \cup {r \in {"issuer"} : c.issuer # p.trustedIssuer}
    \cup {r \in {"stale"} : ~c.fresh}

StateAfter(reasons) ==
    CASE reasons = {}       -> "DONE"
      [] "level" \in reasons -> "WAITING_EXTERNAL"
      [] OTHER              -> "NEEDS_ATTENTION"

Record(candidate) ==
    LET reasons == Reasons(plan, candidate)
    IN /\ state = "WAITING_EXTERNAL"
       /\ Len(evidence) < MaxAnswers
       /\ evidence' = Append(evidence, [candidate |-> candidate, reasons |-> reasons])
       /\ state' = StateAfter(reasons)
       /\ UNCHANGED <<draft, found, plan, shared>>

\* The levels and mismatches of the sandbox's scenarios.
ScenarioSteps ==
    ({"REQUEST_ACKNOWLEDGED", "MERCHANT_CONFIRMED"} \X {None})
    \cup {<<"MERCHANT_CONFIRMED", "reference">>}

SandboxAnswers(level, mismatch, ahead) ==
    /\ plan # None /\ plan.channel = "CONTROLLED_SANDBOX" /\ shared # None
    /\ Record(SandboxCandidate(level, mismatch, ahead))

CompanyReplies(level, missing, different) ==
    /\ plan # None /\ plan.channel = "MANAGED_EMAIL" /\ shared # None
    /\ different # None => plan.proof[different] # None
    /\ Record(ReplyCandidate(level, missing, different))

Next ==
    \/ \E d \in Drafts : Read(d)
    \/ \E fields \in SUBSET Corrigible, values \in Corrections, recipient \in BOOLEAN :
           Revise(fields, values, recipient)
    \/ \E channel \in Channels, preset \in BOOLEAN : SelectChannel(channel, preset)
    \/ Approve
    \/ Run
    \/ \E step \in ScenarioSteps, ahead \in BOOLEAN : SandboxAnswers(step[1], step[2], ahead)
    \/ \E level \in ToSet(Levels), missing \in Facts \cup {"tracking", None},
          different \in Facts \cup {None} :
           /\ None \in {missing, different}
           /\ CompanyReplies(level, missing, different)

Spec == Init /\ [][Next]_vars

------------------------------------------------------------------------------
(***************************************************************************)
(* What the owner reads, before the approval and after.                    *)
(***************************************************************************)

\* The facts the review says will be shared: the reference with the money, or with the
\* outcome, and "no extra data".
Disclosed(d) ==
    {"transactionRef"} \cup (IF Money \subseteq Holds(d) THEN Money ELSE {"subject"})

Status(promised, observed) ==
    CASE observed = None     -> "MISSING"
      [] observed = promised -> "MATCH"
      [] OTHER               -> "CONFLICT"

MoneyText(facts) ==
    IF facts.amountMinor = None THEN None ELSE <<facts.amountMinor, facts.currency>>

\* The rows of the comparison below the proof level.
FactRows(p, c) ==
    {Status(p.proof[f], c[f]) : f \in Holds(p.proof) \ {"amountMinor"}}
    \cup {Status(MoneyText(p.proof), MoneyText(c)) : f \in {"amountMinor"} \cap Holds(p.proof)}
    \cup (IF p.tracking THEN {IF c.tracking THEN "MATCH" ELSE "MISSING"} ELSE {})

\* The answer the page is about.
Shown ==
    LET telling == {i \in DOMAIN evidence :
                       evidence[i].reasons = {}
                       \/ evidence[i].candidate.level # "REQUEST_ACKNOWLEDGED"}
    IN evidence[IF telling = {} THEN Len(evidence) ELSE Max(telling)]

Acknowledged ==
    \E i \in DOMAIN evidence :
        evidence[i].candidate.level = "REQUEST_ACKNOWLEDGED" /\ evidence[i].reasons # {}

\* The verdict on top of the page.
Outcome ==
    CASE state = "DONE"                 -> "confirmed"
      [] state # "DONE" /\ Acknowledged -> "not proven"
      [] OTHER                          -> "waiting"

Verdict == IF Outcome = "confirmed" THEN "verified" ELSE "still working"

\* The three steps of the story below it that are complete.
Story ==
    {step \in {"contacted"} : shared # None \/ evidence # <<>>}
    \cup {step \in {"acknowledgement is not proof"} : Acknowledged}
    \cup {step \in {"accepted"} : Outcome = "confirmed"}

\* What the conversation says of an answer.
Explained(reasons) ==
    CASE reasons = {}        -> "met the contract"
      [] "level" \in reasons -> "only acknowledged"
      [] OTHER               -> "needs review"

------------------------------------------------------------------------------
(***************************************************************************)
(* Properties.                                                             *)
(***************************************************************************)

TypeOK ==
    /\ draft \in Drafts \cup {None} /\ found \subseteq Money /\ plan \in Plans \cup {None}
    /\ state \in {"ANALYZING", "REFUSED", "AWAITING_APPROVAL", "READY", "FAILED",
                  "WAITING_EXTERNAL", "NEEDS_ATTENTION", "DONE"}
    /\ shared = None \/ DOMAIN shared \subseteq Facts
    /\ Len(evidence) <= MaxAnswers

\* Whatever the owner corrects, clears or adds, the proof asked for is about the
\* money and the reference the draft on the page shows, and the plan that is
\* approved asks for an amount only with its currency (buildPlan, revisedPlan).
PlanFollowsDraft ==
    plan # None =>
        /\ \A f \in Money \cup {"transactionRef"} : plan.proof[f] = draft[f]
        /\ state \notin {"ANALYZING", "AWAITING_APPROVAL"} =>
               (plan.proof.amountMinor = None) = (plan.proof.currency = None)

\* The sandbox's honest confirmation of a follow-up proves the case, whatever was
\* extracted, corrected and approved: every fact the verifier asks for was shared
\* by the runner and is echoed (case-runner, server, verifier).
HonestAnswerProves ==
    shared # None /\ plan.channel = "CONTROLLED_SANDBOX" =>
        Reasons(plan, SandboxCandidate("MERCHANT_CONFIRMED", None, FALSE)) = {}

\* The policy refuses the runner's proposal from an approved plan only when the
\* owner supplied a money fact that the extraction had not found: buildPlan lists
\* the fields to share and revisedPlan keeps the list.
DeniedOnlyForAddedFacts ==
    state = "FAILED" => \E f \in Money : draft[f] # None /\ f \notin found

\* Money reaches the company exactly when the page on which the owner approved said so,
\* whatever was extracted, corrected, cleared or added before (plan-review shows the
\* draft, the runner shares what the proof needs).
SharedMoneyWasDisclosed ==
    shared # None => DOMAIN shared \cap Money = Disclosed(draft) \cap Money

\* The page and the verifier agree: the facts of an answer all match on the page exactly
\* when the verifier found nothing against them, the page of a confirmed case is about
\* the answer that proves it and tells the whole story, and the conversation explains
\* the last answer as what it did to the case (outcome-comparison, case-projection,
\* case-conversation, verifier).
PageAgreesWithVerifier ==
    /\ \A i \in DOMAIN evidence :
           (FactRows(plan, evidence[i].candidate) = {"MATCH"})
               = (evidence[i].reasons \cap (Facts \cup {"tracking"}) = {})
    /\ Verdict = "verified" =>
           /\ Shown.reasons = {}
           /\ FactRows(plan, Shown.candidate) = {"MATCH"}
           /\ {"contacted", "accepted"} \subseteq Story
    /\ evidence # <<>> =>
           state = CASE Explained(Last(evidence).reasons) = "met the contract"  -> "DONE"
                     [] Explained(Last(evidence).reasons) = "only acknowledged" -> "WAITING_EXTERNAL"
                     [] OTHER -> "NEEDS_ATTENTION"

\* specs/003-winning-product-loop/spec.md:350 (FR-006): "Company, outcome,
\* amount/currency or item, reference, promised date, follow-up time, recipient and
\* evidence requirement MUST be editable before activation."  A plan edited so and
\* approved is one the policy lets the runner carry out.  Not so: see
\* DeniedOnlyForAddedFacts.
ApprovedPlanIsPermitted == state # "FAILED"
=============================================================================
