CONSTANTS
  Procs = {q1, q2}
  NoPid = NoPid
  Empty = Empty
  MaxErrors = 1
  MaxCrashes = 1
  Commands = {c1, c2}
  Unparsable = {c2}
  Slots = {s1, s2}
  Cap = 1
  Prompts = {p1, p2}
  Others = {o1}
  MaxSignIns = 2
SPECIFICATION StartSpec
INVARIANT QueueNotOvertaken
PROPERTIES TwiceOnlyIfEvicted EveryCommandRuns EverybodyGetsThrough
CHECK_DEADLOCK FALSE
