SPECIFICATION FairSpec
CONSTANTS
  Policies = {"Cancel", "Terminate"}
  ReusePolicies = {"AllowDuplicate", "RejectDuplicate", "TerminateIfRunning"}
  MaxRuns = 2
  MaxFaults = 1
INVARIANTS TypeOK  FinishedIsClosed
PROPERTIES RunIDStable PolicyApplied DeletionCompletes RunFollowed
CHECK_DEADLOCK FALSE
