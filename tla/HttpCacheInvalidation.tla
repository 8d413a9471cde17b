------------------------ MODULE HttpCacheInvalidation ------------------------
(***************************************************************************)
(* Tag-based invalidation of the HTTP cache. A response that a proxy may   *)
(* cache carries as tags the IRIs of the resources it was made from        *)
(* (AbstractItemNormalizer, AddTagsProcessor). When Doctrine flushes, the  *)
(* PurgeHttpCacheListener of the PHP worker collects the IRIs the change   *)
(* concerns, and purges the responses they tag once it is committed.       *)
(*                                                                         *)
(* The resources are books with an author. The response of an author       *)
(* embeds its books; every book is serialized with the IRI of its author.  *)
(***************************************************************************)
EXTENDS Naturals, Sequences, FiniteSets

CONSTANTS
  Books,        \* identifiers of the books
  Authors,      \* identifiers of the authors, which always exist
  Titles,       \* values of a property of a book
  Workers,      \* PHP workers that handle the writes
  Readers,      \* requests the proxy forwards on a miss
  Urls,         \* what clients read
  Formats,      \* formats the responses are serialized in
  Associations, \* the associations of a book, in the order of its mapping
  Resources,    \* the associations whose target is a resource
  Purger,       \* how the proxy selects what a tag purges
  LongRunning,  \* whether the process of a worker outlives its requests
  ChunkSize,    \* tags that fit the header of a purge request
  NoBook,       \* no book with that identifier
  NoAuthor,     \* the author of a book that has none
  NotCached,    \* no response of that URL in the cache
  MaxFlushes,   \* bound: flushes in a behaviour
  MaxRenders    \* bound: requests forwarded by the proxy in a behaviour

Book == [title : Titles, author : Authors \cup {NoAuthor}]

CollectionUrl == <<"books", "all">>
BookUrl(b) == <<"books", b>>
AuthorUrl(a) == <<"authors", a>>
AuthorBooksUrl(a) == <<"authorBooks", a>>

ItemUrls == {BookUrl(b) : b \in Books} \cup {AuthorUrl(a) : a \in Authors}
SubresourceUrls == {AuthorBooksUrl(a) : a \in Authors}

ASSUME ConstantsAssumption ==
  /\ Urls \subseteq ItemUrls \cup SubresourceUrls \cup {CollectionUrl}
  /\ Formats \subseteq {"jsonld", "json"}
  /\ Associations \in Seq({"author", "file"})
  /\ Resources \subseteq {"author", "file"}
  /\ Purger \in {"ban", "keys"}
  /\ LongRunning \in BOOLEAN
  /\ ChunkSize \in Nat \ {0}
  /\ NoBook \notin Book /\ NoAuthor \notin Authors /\ Books # {}
  /\ MaxFlushes \in Nat /\ MaxRenders \in Nat

VARIABLES
  rows,    \* the committed books
  cache,   \* the proxy: per URL, the response it holds
  reader,  \* per forwarded request: the response on its way to the proxy
  worker,  \* per PHP worker: its flush and the listener's tags
  lost,    \* history: tags whose purge failed and is not tried again
  flushes, \* flushes started so far
  renders  \* requests forwarded so far

vars == <<rows, cache, reader, worker, lost, flushes, renders>>

Idle == [pc |-> "idle", book |-> CHOOSE b \in Books : TRUE,
         loaded |-> NoBook, row |-> NoBook, tags |-> {}, remaining |-> {}]

NoResponse == [pc |-> "idle"]

Init ==
  /\ rows \in [Books -> Book \cup {NoBook}]
  /\ cache = [u \in Urls |-> NotCached]
  /\ reader = [r \in Readers |-> NoResponse]
  /\ worker = [w \in Workers |-> Idle]
  /\ lost = {}
  /\ flushes = 0
  /\ renders = 0

-----------------------------------------------------------------------------
(* Reads: what a response shows, and the tags it carries.                  *)

(* The books a URL shows; those of an item URL are none when it is absent. *)
Shown(u, db) ==
  {b \in Books : /\ db[b] # NoBook
                 /\ \/ u \in {CollectionUrl, BookUrl(b)}
                    \/ u \in {AuthorUrl(db[b].author),
                              AuthorBooksUrl(db[b].author)}}

View(u, db) == [b \in Shown(u, db) |-> db[b]]

(* Fault: the relation is not tested for null.                             *)
addTagsForAny(author) == {AuthorUrl(author)}

addTagsFor(author) == IF author = NoAuthor THEN {} ELSE {AuthorUrl(author)}

(* Tags of the items normalized: JSON-LD gives their path; plain JSON      *)
(* leaves AbstractItemNormalizer compute their absolute URL.               *)
ItemTags(u, view) ==
  {BookUrl(b) : b \in DOMAIN view} \cup ({u} \cap {AuthorUrl(a) : a \in Authors})

(* Tags of the relations serialized as an IRI: always paths.               *)
RelationTags(view) == UNION {addTagsFor(view[b].author) : b \in DOMAIN view}

(* The tag of the collection itself.                                       *)
CollectionTags(u) == {u} \cap (SubresourceUrls \cup {CollectionUrl})

(* The path of the books of an author ends with that of all the books.     *)
EndingTags(u) == IF u \in SubresourceUrls THEN {CollectionUrl} ELSE {}

(* The purge requests name paths. A key is compared with each tag; a ban   *)
(* is a regular expression, and finds the paths that a tag ends with.      *)
PurgedBy(response) ==
  LET tags == RelationTags(response.view) \cup CollectionTags(response.url)
      items == ItemTags(response.url, response.view)
  IN  CASE Purger = "ban" -> tags \cup items \cup EndingTags(response.url)
        [] Purger = "keys" /\ response.format = "jsonld" -> tags \cup items
        [] OTHER -> tags

Exists(u) == \A b \in Books : u = BookUrl(b) => rows[b] # NoBook

Render(r, u, format) ==
  /\ reader[r].pc = "idle"
  /\ cache[u] = NotCached
  /\ Exists(u)
  /\ renders < MaxRenders
  /\ renders' = renders + 1
  /\ reader' = [reader EXCEPT ![r] =
       [pc |-> "rendered", url |-> u, format |-> format, view |-> View(u, rows)]]
  /\ UNCHANGED <<rows, cache, worker, lost, flushes>>

(* A response that was overtaken by a commit is late.                      *)
Store(r) ==
  LET u == reader[r].url
  IN  /\ reader[r].pc = "rendered"
      /\ cache' = [cache EXCEPT ![u] =
           [url |-> u, format |-> reader[r].format, view |-> reader[r].view,
            late |-> reader[r].view # View(u, rows)]]
      /\ reader' = [reader EXCEPT ![r] = NoResponse]
      /\ UNCHANGED <<rows, worker, lost, flushes, renders>>

-----------------------------------------------------------------------------
(* Writes: a worker loads a book or makes a new one, changes it in memory, *)
(* and flushes.                                                            *)

Load(w, b) ==
  /\ worker[w].pc = "idle"
  /\ flushes < MaxFlushes
  /\ flushes' = flushes + 1
  /\ worker' = [worker EXCEPT ![w] =
       [worker[w] EXCEPT !.pc = "loaded", !.book = b, !.loaded = rows[b]]]
  /\ UNCHANGED <<rows, cache, reader, lost, renders>>

(* The collection, and the item unless it is new.                          *)
gatherResourceAndItemTags(b, purgeItem) ==
  {CollectionUrl} \cup (IF purgeItem THEN {BookUrl(b)} ELSE {})

(* Fault: the relations of the entities are left to preUpdate.             *)
gatherNoRelationTags(entity) == {}

(* The loop over the associations returns at the first one whose target is *)
(* not a resource.                                                         *)
AuthorIsReached ==
  \E i \in DOMAIN Associations :
    /\ Associations[i] = "author"
    /\ \A j \in 1..i : Associations[j] \in Resources

gatherRelationTags(entity) ==
  IF AuthorIsReached THEN addTagsFor(entity.author) ELSE {}

(* row is the new value of the book, NoBook when it is removed; the entity *)
(* is the object in memory.                                                *)
onFlush(w, row) ==
  LET k == worker[w]
      entity == IF row = NoBook THEN k.loaded ELSE row
  IN  /\ k.pc = "loaded"
      /\ row # k.loaded
      /\ worker' = [worker EXCEPT ![w] =
           [k EXCEPT !.pc = "flushing", !.row = row,
              !.tags = @ \cup gatherRelationTags(entity) \cup
                 gatherResourceAndItemTags(k.book, k.loaded # NoBook)]]
      /\ UNCHANGED <<rows, cache, reader, lost, flushes, renders>>

(* The old and the new object of the association, when it changes.         *)
changedAssociation(k) ==
  IF k.loaded.author # k.row.author
  THEN addTagsFor(k.loaded.author) \cup addTagsFor(k.row.author) ELSE {}

updates(k) == k.loaded # NoBook /\ k.row # NoBook

preUpdate(w) ==
  LET k == worker[w]
  IN  /\ k.pc = "flushing" /\ updates(k)
      /\ worker' = [worker EXCEPT ![w] =
           [k EXCEPT !.pc = "updating",
              !.tags = @ \cup changedAssociation(k) \cup
                 gatherResourceAndItemTags(k.book, TRUE)]]
      /\ UNCHANGED <<rows, cache, reader, lost, flushes, renders>>

executing(k) == k.pc = "updating" \/ (k.pc = "flushing" /\ ~updates(k))

(* The UPDATE sets the columns that differ from the snapshot; it matches   *)
(* no row when the book is gone.                                           *)
Written(row, k) ==
  IF ~updates(k) THEN k.row
  ELSE IF row = NoBook THEN NoBook
  ELSE [f \in DOMAIN row |->
          IF k.row[f] # k.loaded[f] THEN k.row[f] ELSE row[f]]

Commit(w) ==
  LET k == worker[w]
  IN  /\ executing(k)
      /\ k.loaded = NoBook => rows[k.book] = NoBook
      /\ rows' = [rows EXCEPT ![k.book] = Written(@, k)]
      /\ worker' = [worker EXCEPT ![w] =
           [Idle EXCEPT !.pc = "committed", !.tags = k.tags]]
      /\ UNCHANGED <<cache, reader, lost, flushes, renders>>

(* The process ends with the request unless it is a long-running one: then *)
(* its listener keeps the tags it has.                                     *)
Abandoned(k) == [Idle EXCEPT !.tags = IF LongRunning THEN k.tags ELSE {}]

(* The statement or the commit fails: there is no postFlush event.         *)
Rollback(w) ==
  /\ executing(worker[w])
  /\ worker' = [worker EXCEPT ![w] = Abandoned(@)]
  /\ UNCHANGED <<rows, cache, reader, lost, flushes, renders>>

postFlush(w) ==
  /\ worker[w].pc = "committed"
  /\ worker' = [worker EXCEPT ![w] =
       [worker[w] EXCEPT !.pc = "purging", !.remaining = worker[w].tags]]
  /\ UNCHANGED <<rows, cache, reader, lost, flushes, renders>>

(* The cache without the responses that one of the tags purges.            *)
purge(tags) ==
  [u \in Urls |-> IF cache[u] # NotCached /\ PurgedBy(cache[u]) \cap tags # {}
                  THEN NotCached ELSE cache[u]]

(* Fault: a last chunk that is not full is not sent.                       *)
PurgeFullChunk(w) ==
  /\ worker[w].pc = "purging"
  /\ \E chunk \in SUBSET worker[w].remaining :
       /\ Cardinality(chunk) = ChunkSize
       /\ cache' = purge(chunk)
       /\ worker' = [worker EXCEPT ![w].remaining = @ \ chunk]
  /\ UNCHANGED <<rows, reader, lost, flushes, renders>>

PurgeChunk(w) ==
  /\ worker[w].pc = "purging"
  /\ \E chunk \in SUBSET worker[w].remaining :
       /\ Cardinality(chunk) \in 1..ChunkSize
       /\ cache' = purge(chunk)
       /\ worker' = [worker EXCEPT ![w].remaining = @ \ chunk]
  /\ UNCHANGED <<rows, reader, lost, flushes, renders>>

(* The purger throws before a chunk: the list of tags is not cleared.      *)
PurgeThrows(w) ==
  LET k == worker[w]
  IN  /\ k.pc = "purging" /\ k.remaining # {}
      /\ worker' = [worker EXCEPT ![w] = Abandoned(k)]
      /\ lost' = lost \cup (k.remaining \ Abandoned(k).tags)
      /\ UNCHANGED <<rows, cache, reader, flushes, renders>>

PurgeDone(w) ==
  /\ worker[w].pc = "purging" /\ worker[w].remaining = {}
  /\ worker' = [worker EXCEPT ![w] = Idle]
  /\ UNCHANGED <<rows, cache, reader, lost, flushes, renders>>

Next ==
  \/ \E r \in Readers :
       \/ \E u \in Urls, format \in Formats : Render(r, u, format)
       \/ Store(r)
  \/ \E w \in Workers :
       \/ \E b \in Books : Load(w, b)
       \/ \E row \in Book \cup {NoBook} : onFlush(w, row)
       \/ preUpdate(w)
       \/ Commit(w)
       \/ Rollback(w)
       \/ postFlush(w)
       \/ PurgeChunk(w)
       \/ PurgeThrows(w)
       \/ PurgeDone(w)

Spec == Init /\ [][Next]_vars

(* A PHP process that has committed runs on to the end of its request.     *)
Fairness ==
  \A w \in Workers :
    WF_vars(postFlush(w) \/ PurgeChunk(w) \/ PurgeDone(w))

FairSpec == Spec /\ Fairness

-----------------------------------------------------------------------------
(* Properties                                                              *)

Tags == ItemUrls \cup {CollectionUrl}

Views == UNION {[D -> Book] : D \in SUBSET Books}

Response == [url : Urls, format : Formats, view : Views, late : BOOLEAN]

Rendered ==
  [pc : {"rendered"}, url : Urls, format : Formats, view : Views]

(* Types of the state; the tags collected are those of existing routes.    *)
TypeOK ==
  /\ rows \in [Books -> Book \cup {NoBook}]
  /\ cache \in [Urls -> Response \cup {NotCached}]
  /\ reader \in [Readers -> Rendered \cup {NoResponse}]
  /\ worker \in [Workers ->
       [pc : {"idle", "loaded", "flushing", "updating", "committed", "purging"},
        book : Books, loaded : Book \cup {NoBook}, row : Book \cup {NoBook},
        tags : SUBSET Tags, remaining : SUBSET Tags]]
  /\ lost \subseteq Tags
  /\ flushes \in 0..MaxFlushes
  /\ renders \in 0..MaxRenders

(* The cache holds for u a response that was current when it was stored    *)
(* and is not any more.                                                    *)
Stale(u) ==
  /\ cache[u] # NotCached
  /\ ~cache[u].late
  /\ cache[u].view # View(u, rows)

(* The tags whose purge a worker has still to request: those of a commit, *)
(* or, in a long-running process, any the listener still holds.            *)
Owed(w) ==
  IF worker[w].pc = "purging" THEN worker[w].remaining
  ELSE IF worker[w].pc = "committed" \/ LongRunning THEN worker[w].tags
  ELSE {}

AllOwed == lost \cup UNION {Owed(w) : w \in Workers}

(* "Purges responses containing modified entities from the proxy cache":   *)
(* whatever the writes, their overlaps, their rollbacks and the failures   *)
(* of the proxy, each response the cache holds that a commit has made      *)
(* stale is one that a worker is about to purge, or that a failed purge    *)
(* request named. (A response rendered before a commit and stored after it *)
(* is not covered: nothing purges it.)                                     *)
StaleIsOwed ==
  \A u \in Urls : Stale(u) => PurgedBy(cache[u]) \cap AllOwed # {}

(* A response that a commit has made stale does not stay in the cache,     *)
(* unless a purge request failed.                                          *)
StaleIsDropped == \A u \in Urls : Stale(u) ~> (~Stale(u) \/ lost # {})
=============================================================================
