\* Plain JSON responses, purged by surrogate key.
CONSTANTS
  b1 = b1
  b2 = b2
  a1 = a1
  a2 = a2
  w1 = w1
  w2 = w2
  r1 = r1
  Books = {b1, b2}
  Authors = {a1}
  Titles = {0, 1}
  Workers = {w1}
  Readers = {r1}
  Urls <- MCBookUrls
  Formats = {"json"}
  Associations <- MCAuthorFirst
  Resources = {"author"}
  Purger = "keys"
  LongRunning = FALSE
  ChunkSize = 2
  NoBook = NoBook
  NoAuthor = NoAuthor
  NotCached = NotCached
  MaxFlushes = 1
  MaxRenders = 1
SPECIFICATION Spec
CHECK_DEADLOCK FALSE
INVARIANTS StaleIsOwed

