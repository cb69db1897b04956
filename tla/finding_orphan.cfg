SPECIFICATION Spec
CONSTANTS
  Policies = {"Terminate"}
  ReusePolicies = {"AllowDuplicate"}
  MaxRuns = 1
  MaxFaults = 0
INVARIANTS NoOrphan
CHECK_DEADLOCK FALSE
