CONSTANTS
  Chunks = {a, b}
  MaxSnap = 3
  Memory = 1
  TurnIds = {t1, t2}
  MaxCrashes = 1
  Tasks = {t1, t2}
  Mentions = {m1}
  Stops = {s1}
  Queries = {q1}
SPECIFICATION PipelineSpec
INVARIANTS FinalIsLast LostOnlyUnderFlush FlushToCome OnePrompt CleanupSparesTasks
PROPERTIES ReturnsWhenSent EverySubmitSettles QueueDrains FirstComeFirstServed 
CHECK_DEADLOCK FALSE
