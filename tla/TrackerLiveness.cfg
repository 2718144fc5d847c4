SPECIFICATION FairSpec
CONSTANTS
  MaxLinks = 2
  Chats <- MCChats
  MaxTime = 2
  FirstChanges <- MCFirstOfTwo
  BatchSetting = 1
  MinBatch = 1
  MaxBatch = 3
  Workers = 1
  Backends <- MCBackends
  OffLoop = TRUE
  MaxEvents = 1
  MaxFaults = 1
PROPERTIES
  SweepEnds
  ChangeNoticed
