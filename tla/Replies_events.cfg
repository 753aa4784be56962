\* An event of any kind and a callback around one follow-up, and one thing going wrong.
CONSTANTS
  Events = {e1}
  Callbacks = {c1}
  Webhooks = {h1}
  Workers = {w1, w2}
  None = none
  MaxTries = 2
  MaxPosts = 2
  MaxVersion = 4
  MaxTroubles = 1
  MaxLogicalSends = 1
  MaxAttempts = 2
SPECIFICATION FairSpec
INVARIANTS EventsAttended BounceReachesOwner AnsweredIsRecorded
PROPERTIES KeepsDocument EventsSettle
\* Events that are processed and callbacks that are answered leave nothing to do.
CHECK_DEADLOCK FALSE
