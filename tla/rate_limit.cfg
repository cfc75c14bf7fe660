SPECIFICATION Spec
CONSTANTS
  Caller = {c1, c2, c3, c4, c5}
  RateKeys = {u, v}
  Limit = 2
  Minute = 2
  LockWait = 2
  MaxTime = 7
SYMMETRY Symmetric
INVARIANTS RateBound OwnPlace
CHECK_DEADLOCK FALSE
