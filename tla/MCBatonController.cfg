CONSTANTS
  Convs = {c1, c2}
  None = None
  MaxSwitches = 2
SPECIFICATION Spec
INVARIANTS TimelySingleDriver
PROPERTIES ConversationKept BatonPassesToRunning SwitchEnds
CHECK_DEADLOCK FALSE
