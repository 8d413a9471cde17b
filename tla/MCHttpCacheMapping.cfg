\* An association to a class that is no resource comes first.
CONSTANTS
  b1 = b1
  b2 = b2
  a1 = a1
  a2 = a2
  w1 = w1
  w2 = w2
  r1 = r1
  Books = {b1, b2}
  Authors = {a1}
  Titles = {0}
  Workers = {w1}
  Readers = {r1}
  Urls <- MCAuthorUrls
  Formats = {"jsonld"}
  Associations <- MCFileFirst
  Resources = {"author"}
  Purger = "ban"
  LongRunning = FALSE
  ChunkSize = 2
  NoBook = NoBook
  NoAuthor = NoAuthor
  NotCached = NotCached
  MaxFlushes = 1
  MaxRenders = 1
SPECIFICATION Spec
CHECK_DEADLOCK FALSE
INVARIANTS StaleIsOwed

