CONSTANTS
  Adapters = {a1, a2, a3}
  Drivers = {d1, d2}
  Attempts = 2
  Prompts = {p1}
  MaxEvents = 2
  NoAdapter = none
SPECIFICATION Spec
INVARIANT DeathIsNoticed
CHECK_DEADLOCK FALSE
