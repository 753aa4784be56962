\* A worker dies holding the reservation; every later delivery finds it in flight.
SPECIFICATION FairSpec
CONSTANTS
    MaxLogicalSends = 2
    MaxAttempts = 2
    Workers = {w1}
    Handlers = {h1}
    EvidenceIds = {e1}
    FaultKinds = {"crash"}
    MaxFaults = 1
    MaxControls = 0
    MaxBounces = 0
    MaxTries = 5
CHECK_DEADLOCK FALSE
PROPERTIES
    NextActionFollows
