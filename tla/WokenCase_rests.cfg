\* An instance dies anywhere, runs race evidence and RESUME: the case comes to rest or its wake was lost.
SPECIFICATION FairSpec
CONSTANTS
    MaxLogicalSends = 2
    MaxAttempts = 2
    Workers = {w1, w2}
    Handlers = {h1}
    EvidenceIds = {e1}
    FaultKinds = {"crash"}
    MaxFaults = 1
    MaxControls = 1
    MaxBounces = 0
    MaxTries = 5
CHECK_DEADLOCK FALSE
PROPERTIES
    EventuallyRests
