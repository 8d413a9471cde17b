\* One long-running worker, whose first flush fails.
CONSTANTS
  w1 = w1
  w2 = w2
  Workers = {w1}
  Ids = {1}
  Mercure = {1}
  Columns = {"title"}
  Vals = {1, 2}
  None = None
  AssignedIds = FALSE
  LongRunning = TRUE
  MaxFlushes = 2
SPECIFICATION Spec
CHECK_DEADLOCK FALSE

INVARIANTS PublishedWasCommitted
