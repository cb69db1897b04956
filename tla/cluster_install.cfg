SPECIFICATION Spec
CONSTANTS
  Versions <- TwoMinors
  Minor <- MinorOf
  AllowedFrom <- FromPrevious
  MinSchema <- SchemaOf
  Services <- TwoRoles
  Replicas <- OneReplica
  MaxFaults = 1
INVARIANTS TypeOK SchemaGate
PROPERTIES StampAfterRoll
CHECK_DEADLOCK FALSE
