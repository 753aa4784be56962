\* One request after another: REVISE reopens a draft that approval has closed.
CONSTANTS
  Requests = {r1}
  Keys = {k1, k2}
  Actions = {"STOP", "RESUME", "REVISE", "DELETE"}
  Available = {"CONTROLLED_SANDBOX", "MANAGED_EMAIL"}
  FirstChannel = "CONTROLLED_SANDBOX"
  MaxLogicalSends = 1
  MaxAttempts = 1
  MaxPlan = 2
  MaxVersion = 3
SPECIFICATION Spec
INVARIANTS AwaitingIsApprovable
