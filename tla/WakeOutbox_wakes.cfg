\* Every writer of the case and every kind of fault: two invocations in any order.
CONSTANTS
  Invocations = {i1, i2}
  MaxTries = 2
  Limit = 1
  OtherWriters = {"BOUNCE", "CONTROL", "RESUME", "EVIDENCE"}
  FaultKinds = {"enqueue", "storage", "early", "crash", "unknown"}
  MaxVersion = 4
  MaxFaults = 1
SPECIFICATION Spec
SYMMETRY Interchangeable
INVARIANTS TasksFollowIntents WakeAccounted DispatchedHasTask
\* The queue is empty and the case rests: nothing more has to happen.
CHECK_DEADLOCK FALSE
