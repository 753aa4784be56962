\* Failed enqueues, and RESUME: every wake is dispatched, and served.
CONSTANTS
  Invocations = {i1, i2}
  MaxTries = 2
  Limit = 1
  OtherWriters = {"RESUME"}
  FaultKinds = {"enqueue"}
  MaxVersion = 4
  MaxFaults = 1
SPECIFICATION FairSpec
PROPERTIES EveryIntentDispatched 
\* The queue is empty and the case rests: nothing more has to happen.
CHECK_DEADLOCK FALSE
