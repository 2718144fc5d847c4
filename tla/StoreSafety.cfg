SPECIFICATION Spec
CONSTANTS
  c1 = c1
  c2 = c2
  r1 = r1
  r2 = r2
  Chats <- MCChats
  Urls <- MCUrls
  Supported <- MCSupported
  Tags <- MCTags
  Requests <- MCRequests
  Backends <- MCBackends
  MaxFaults = 1
SYMMETRY MCSymmetry
INVARIANTS
  TypeOK
  NoOrphans
  SqlAnswersTrue
  SqlErrorsOwn
\* Every request is answered once: then nothing is left to do.
CHECK_DEADLOCK FALSE
