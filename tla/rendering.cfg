SPECIFICATION FairSpec
CONSTANTS
  Bases <- PlainAndFull
  MaxEvents = 1
INVARIANTS ReferencesExist SelectorsMatch 
PROPERTIES RotationReachesPods ClientServed
CHECK_DEADLOCK FALSE
