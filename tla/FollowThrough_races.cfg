\* Two deliveries of the same task race each other and every other writer.
SPECIFICATION Spec
CONSTANTS
    MaxLogicalSends = 2
    MaxAttempts = 2
    Workers = {w1, w2}
    Handlers = {h1}
    EvidenceIds = {e1, e2}
    FaultKinds = {"crash", "storage", "unknown"}
    MaxFaults = 1
    MaxControls = 1
    MaxBounces = 0
SYMMETRY Interchangeable
CHECK_DEADLOCK FALSE
INVARIANTS
    TypeOK
    OneOwner
    CountedMeansPerformed
    WakeRetained
