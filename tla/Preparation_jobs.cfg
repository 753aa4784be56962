\* A source uploaded twice, two deliveries, a retry, and one thing going wrong.
CONSTANTS
  Uploads = {u1, u2}
  Workers = {w1, w2}
  Retriers = {r1}
  None = none
  MaxAttempts = 2
  MaxTries = 2
  CaseLimit = 1
  CallLimit = 2
  MaxRetries = 1
  MaxTroubles = 1
SPECIFICATION FairSpec
INVARIANTS JobsAttended ReadyHasDraft
PROPERTIES DraftsStand JobsSettle
\* Jobs that are settled and answered leave nothing to do.
CHECK_DEADLOCK FALSE
