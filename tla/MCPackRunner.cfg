CONSTANTS
  N = 3
  Reviews = {2}
  MaxRuns = 2
  MaxActions = 3
  MaxCrashes = 2
SPECIFICATION Spec
INVARIANTS NoIdleRun ParkedHonestly
PROPERTIES DoneIsFinal RequestTakesEffect RunSettles
CHECK_DEADLOCK FALSE
