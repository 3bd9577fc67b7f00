CONSTANTS
  Deploys = {a, b}
  Retries = 1
  MaxResume = 1
  MaxCommands = 3
  MaxDeaths = 1
SPECIFICATION Spec
INVARIANTS NeverAbandoned CrashLoopIsTold StoppedStaysDown
PROPERTIES LiveComesBack Recovers
CHECK_DEADLOCK FALSE
