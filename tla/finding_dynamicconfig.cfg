SPECIFICATION FairSpec
CONSTANTS
  Bases <- OnlyPlain
  MaxEvents = 1
PROPERTIES DynamicConfigRolls
CHECK_DEADLOCK FALSE
