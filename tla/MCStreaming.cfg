CONSTANTS
  Perms = {p1, p2}
  NoQuestion = NoQuestion
  Freeform = Freeform
  MaxTurns = 2
  MaxDeltas = 2
  MaxStops = 1
  MaxDenials = 1
SPECIFICATION StreamingSpec
INVARIANTS LostOnlyByTakeover ClosedOnPhone
PROPERTIES SettlesUnlessTakenOver
CHECK_DEADLOCK FALSE
