\* Two workers whose processes end with the request.
CONSTANTS
  w1 = w1
  w2 = w2
  Workers = {w1, w2}
  Ids = {1, 2}
  Mercure = {1, 2}
  Columns = {"title", "stock"}
  Vals = {1, 2}
  None = None
  AssignedIds = FALSE
  LongRunning = FALSE
  MaxFlushes = 2
SPECIFICATION Spec
CHECK_DEADLOCK FALSE
SYMMETRY Symmetry
INVARIANTS TypeOK PublishedWasCommitted CommittedIsPublished LastUpdateIsCurrent
