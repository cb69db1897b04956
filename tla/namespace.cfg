SPECIFICATION FairSpec
CONSTANTS
  Clusters = {"a", "b"}
  Local = "a"
  MaxEdits = 2
  MaxFaults = 1
INVARIANTS TypeOK ReadyIsActive
PROPERTIES DeletionHonoured  Converges
CHECK_DEADLOCK FALSE
