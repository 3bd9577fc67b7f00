CONSTANTS
  Turns = {t1, t2}
  MaxCrashes = 1
SPECIFICATION Spec
INVARIANT NothingLost
CHECK_DEADLOCK FALSE
