\* One worker against two evidence handlers, the owner's commands and bounces.
SPECIFICATION Spec
CONSTANTS
    MaxLogicalSends = 2
    MaxAttempts = 2
    Workers = {w1}
    Handlers = {h1, h2}
    EvidenceIds = {e1, e2}
    FaultKinds = {}
    MaxFaults = 0
    MaxControls = 2
    MaxBounces = 1
SYMMETRY Interchangeable
CHECK_DEADLOCK FALSE
INVARIANTS
    DoneMeansProven
    HistoryAccountsForVersions
PROPERTIES
    WithdrawnIsFinal
    KeepsLifecycle
    KeepsDocument
