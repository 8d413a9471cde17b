\* Two workers write, the proxy bans by regular expression.
CONSTANTS
  b1 = b1
  b2 = b2
  a1 = a1
  a2 = a2
  w1 = w1
  w2 = w2
  r1 = r1
  Books = {b1}
  Authors = {a1}
  Titles = {0, 1}
  Workers = {w1, w2}
  Readers = {r1}
  Urls <- MCUrls
  Formats = {"jsonld", "json"}
  Associations <- MCAuthorFirst
  Resources = {"author"}
  Purger = "ban"
  LongRunning = FALSE
  ChunkSize = 2
  NoBook = NoBook
  NoAuthor = NoAuthor
  NotCached = NotCached
  MaxFlushes = 2
  MaxRenders = 1
SPECIFICATION FairSpec
CHECK_DEADLOCK FALSE
INVARIANTS TypeOK StaleIsOwed
PROPERTIES StaleIsDropped
