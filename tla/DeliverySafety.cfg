SPECIFICATION FairSpec
CONSTANTS
  u1 = u1
  u2 = u2
  u3 = u3
  Updates <- MCUpdates
  Workers = 2
  Attempts = 2
  Threshold = 1
  Backends <- MCBackends
  Accepting <- MCAccepting
  MaxElapses = 1
INVARIANTS
  TypeOK
  NothingDropped
  LoadBounded
PROPERTIES
  EveryCallReturns
  EventuallySettled
\* The updates are finite: when all are sent nothing is left to do.
CHECK_DEADLOCK FALSE
