SPECIFICATION Spec
CONSTANTS
  MaxLinks = 3
  Chats <- MCNoChats
  MaxTime = 2
  FirstChanges <- MCFirstChanges
  BatchSetting = 1
  MinBatch = 2
  MaxBatch = 3
  Workers = 2
  Backends <- MCBackends
  OffLoop = TRUE
  MaxEvents = 1
  MaxFaults = 1
INVARIANTS
  TypeOK
  NeverRepeated
  MissedBounded
  SweepComplete
PROPERTY LastUpdatedGrows
