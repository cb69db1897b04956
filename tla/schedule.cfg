SPECIFICATION FairSpec
CONSTANTS
  MaxEdits = 2
  MaxFaults = 1
  Reverts = FALSE
INVARIANTS TypeOK
PROPERTIES DeletionHonoured DeletionCompletes 
CHECK_DEADLOCK FALSE
