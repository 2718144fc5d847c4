SPECIFICATION FairSpec
CONSTANTS
  None = None
  u1 = u1
  here = here
  there = there
  a = a
  b = b
  c1 = c1
  c2 = c2
  r1 = r1
  r2 = r2
  Users <- MCUsers
  Convs <- MCConvs
  Owners <- MCOwners
  Private <- MCPrivate
  Urls <- MCUrls
  Supported <- MCSupported
  Attempts = 2
  Threshold = 2
  Keeping <- MCBoth
  MaxFaults = 2
  Chats <- MCChats
  Requests <- MCRequests
  MaxLength = 3
  Loads <- MCLoads
INVARIANTS
  TypeOK
  SuccessIsReal
  FailureHasReason
  NumberIsOfShownList
  UrlIsLastGiven
  LossBounded
  InOrder
PROPERTIES
  EveryPostAnswered
  EventuallyConsumed
  EveryCallReturns
\* The topic and the posts are finite: when all is done nothing is left to do.
CHECK_DEADLOCK FALSE
