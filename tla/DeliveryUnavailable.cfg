SPECIFICATION Spec
CONSTANTS
  u1 = u1
  u2 = u2
  u3 = u3
  Updates <- MCUpdates
  Workers = 2
  Attempts = 2
  Threshold = 2
  Backends <- MCHttp
  Accepting <- MCRejects
  MaxElapses = 1
SYMMETRY MCSymmetry
\* The updates are finite: when all are sent nothing is left to do.
CHECK_DEADLOCK FALSE
INVARIANT FallbackOnlyWhenUnavailable
