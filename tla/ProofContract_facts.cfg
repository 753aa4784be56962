\* Two amounts, two currencies, two outcomes, two answers.
CONSTANTS
  None = none
  Other = other
  Amounts = {a1, a2}
  Currencies = {c1, c2}
  Refs = {r1}
  Results = {o1, o2}
  MaxAnswers = 2
SPECIFICATION Spec
INVARIANTS PlanFollowsDraft HonestAnswerProves DeniedOnlyForAddedFacts SharedMoneyWasDisclosed PageAgreesWithVerifier
\* A case that is closed, refused or answered as often as the bound says stops.
CHECK_DEADLOCK FALSE
