CONSTANTS
  Procs = {p1, p2, p3}
  NoPid = NoPid
  Empty = Empty
  MaxCrashes = 1
  MaxErrors = 1
SPECIFICATION Spec
INVARIANT MutexUnlessStolen
CHECK_DEADLOCK FALSE
