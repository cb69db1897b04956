SPECIFICATION RunningSpec
CONSTANTS
  Versions <- ThreeMinors
  Minor <- MinorOf
  AllowedFrom <- FromPrevious
  MinSchema <- SchemaOf
  Services <- ThreeRoles
  Replicas <- OneReplica
  MaxFaults = 0
INVARIANTS OneRoleAtATime
PROPERTIES StampAfterRoll
CHECK_DEADLOCK FALSE
