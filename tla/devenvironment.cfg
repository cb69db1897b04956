SPECIFICATION FairSpec
CONSTANTS
  Images = {1, 2}
  MaxEvents = 1
 
PROPERTIES PhaseCatchesUp AttributeRegistered 
CHECK_DEADLOCK FALSE
