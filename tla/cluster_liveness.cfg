SPECIFICATION FairRunningSpec
CONSTANTS
  Versions <- TwoMinors
  Minor <- MinorOf
  AllowedFrom <- FromPrevious
  MinSchema <- SchemaOf
  Services <- TwoRoles
  Replicas <- OneReplica
  MaxFaults = 1
PROPERTIES UpgradeCompletes
CHECK_DEADLOCK FALSE
