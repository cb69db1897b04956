SPECIFICATION FairSpec
CONSTANTS
  Versions <- TwoReleases
  MinSchema <- SchemaLine
  EsVersion <- Template
  Layouts <- EveryDriver
  MaxFaults = 1
INVARIANTS ReadyMeansMigrated SetupBeforeUpdate SuccessIsCurrent
PROPERTIES SchemaCompletes KeepsPromise
CHECK_DEADLOCK FALSE
