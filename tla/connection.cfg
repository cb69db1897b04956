SPECIFICATION FairSpec
CONSTANTS
  Locals = {"a", "b"}
  Externals = {"x"}
  MaxEdits = 1
  MaxFaults = 1
INVARIANTS TypeOK ReadyMeansConnected
PROPERTIES Connects DeletionCompletes
CHECK_DEADLOCK FALSE
