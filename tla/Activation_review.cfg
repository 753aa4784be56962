\* Two requests at once, of any kind, and two keys.
CONSTANTS
  Requests = {r1, r2}
  Keys = {k1, k2}
  Actions = {"STOP", "RESUME", "REVISE", "DELETE"}
  Available = {"CONTROLLED_SANDBOX", "MANAGED_EMAIL"}
  FirstChannel = "CONTROLLED_SANDBOX"
  MaxLogicalSends = 1
  MaxAttempts = 1
  MaxPlan = 2
  MaxVersion = 3
SPECIFICATION Spec
SYMMETRY Interchangeable
INVARIANTS TypeOK PlanVersionsUnique EmailNeedsIdentity DeletedStaysDeleted KeysTakeEffectOnce
PROPERTIES RunNeverStartsOver
