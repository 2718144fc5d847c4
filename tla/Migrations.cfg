SPECIFICATION FairSpec
CONSTANTS
  Instances <- MCInstances
  Directories <- MCDirectories
  MaxFaults = 2
INVARIANTS
  TypeOK
  AppliedOnce
  SchemaIsStage
  ServesMigrated
PROPERTIES
  HistorySpec
  EventuallyServes
\* When all instances serve and no fault is left nothing is left to do.
CHECK_DEADLOCK FALSE
