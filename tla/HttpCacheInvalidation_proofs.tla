-------------------- MODULE HttpCacheInvalidation_proofs ---------------------
(***************************************************************************)
(* Proofs about HttpCacheInvalidation, for every set of books, authors,    *)
(* workers and readers, and any number of flushes and reads.               *)
(***************************************************************************)
EXTENDS HttpCacheInvalidation, TLAPS

Worker ==
  [pc : {"idle", "loaded", "flushing", "updating", "committed", "purging"},
   book : Books, loaded : Book \cup {NoBook}, row : Book \cup {NoBook},
   tags : SUBSET Tags, remaining : SUBSET Tags]

-----------------------------------------------------------------------------
(* Typing of the operators.                                                *)

(* A view maps the books shown to their values.                            *)
LEMMA ViewType ==
  ASSUME NEW u, NEW db \in [Books -> Book \cup {NoBook}]
  PROVE  View(u, db) \in Views
<1>1. Shown(u, db) \subseteq Books
  BY DEF Shown
<1>2. \A b \in Shown(u, db) : db[b] \in Book
  BY DEF Shown
<1>3. View(u, db) \in [Shown(u, db) -> Book]
  BY <1>2 DEF View
<1> QED  BY <1>1, <1>3 DEF Views

(* The tags of a relation are those of a route.                            *)
LEMMA RelationTagType ==
  ASSUME NEW author \in Authors \cup {NoAuthor}
  PROVE  addTagsFor(author) \subseteq Tags
BY DEF addTagsFor, Tags, ItemUrls

LEMMA ItemTagType ==
  ASSUME NEW b \in Books, NEW purgeItem \in BOOLEAN
  PROVE  gatherResourceAndItemTags(b, purgeItem) \subseteq Tags
BY DEF gatherResourceAndItemTags, Tags, ItemUrls

LEMMA AuthorType ==
  ASSUME NEW book \in Book
  PROVE  book.author \in Authors \cup {NoAuthor}
BY DEF Book

LEMMA IdleType == Idle \in Worker
BY ConstantsAssumption DEF Idle, Worker, Tags

LEMMA AbandonedType ==
  ASSUME NEW k \in Worker
  PROVE  Abandoned(k) \in Worker
BY IdleType DEF Abandoned, Worker

(* What an UPDATE leaves is a book, or no book where there was none.       *)
LEMMA WrittenType ==
  ASSUME NEW k \in Worker, NEW row \in Book \cup {NoBook}
  PROVE  Written(row, k) \in Book \cup {NoBook}
<1>1. CASE ~updates(k)
  BY <1>1 DEF Written, Worker
<1>2. CASE updates(k) /\ row = NoBook
  BY <1>2 DEF Written
<1>3. CASE updates(k) /\ row # NoBook
  <2>1. k.row \in Book /\ k.loaded \in Book /\ row \in Book
    BY <1>3 DEF updates, Worker
  <2> QED  BY <1>3, <2>1 DEF Written, Book
<1> QED  BY <1>1, <1>2, <1>3

-----------------------------------------------------------------------------
(* Types.                                                                  *)

LEMMA TypeStep == TypeOK /\ [Next]_vars => TypeOK'
<1> SUFFICES ASSUME TypeOK, [Next]_vars PROVE TypeOK'
  OBVIOUS
<1>0. worker \in [Workers -> Worker]
  BY DEF TypeOK, Worker
<1>a. ASSUME worker' \in [Workers -> Worker],
             UNCHANGED <<rows, cache, reader, lost, flushes, renders>>
      PROVE  TypeOK'
  BY <1>a DEF TypeOK, Worker
<1>1. ASSUME NEW r \in Readers, NEW u \in Urls, NEW format \in Formats,
             Render(r, u, format)
      PROVE  TypeOK'
  <2>1. [pc |-> "rendered", url |-> u, format |-> format,
         view |-> View(u, rows)] \in Rendered
    BY <1>1, ViewType DEF TypeOK, Rendered
  <2>2. reader' \in [Readers -> Rendered \cup {NoResponse}]
    BY <1>1, <2>1 DEF TypeOK, Render
  <2>3. renders' \in 0..MaxRenders
    BY <1>1, ConstantsAssumption DEF TypeOK, Render
  <2> QED  BY <1>1, <2>2, <2>3 DEF TypeOK, Render
<1>2. ASSUME NEW r \in Readers, Store(r)
      PROVE  TypeOK'
  <2>1. reader[r] \in Rendered
    BY <1>2 DEF TypeOK, Store, NoResponse
  <2>2. [url |-> reader[r].url, format |-> reader[r].format,
         view |-> reader[r].view,
         late |-> reader[r].view # View(reader[r].url, rows)] \in Response
    BY <2>1 DEF Rendered, Response
  <2>3. cache' \in [Urls -> Response \cup {NotCached}]
    BY <1>2, <2>2 DEF TypeOK, Store
  <2>4. reader' \in [Readers -> Rendered \cup {NoResponse}]
    BY <1>2 DEF TypeOK, Store
  <2> QED  BY <1>2, <2>3, <2>4 DEF TypeOK, Store
<1>3. ASSUME NEW w \in Workers, NEW b \in Books, Load(w, b)
      PROVE  TypeOK'
  <2>1. rows[b] \in Book \cup {NoBook}
    BY <1>3 DEF TypeOK
  <2>2. worker' \in [Workers -> Worker]
    BY <1>0, <1>3, <2>1 DEF Load, Worker
  <2>3. flushes' \in 0..MaxFlushes
    BY <1>3, ConstantsAssumption DEF TypeOK, Load
  <2> QED  BY <1>3, <2>2, <2>3 DEF TypeOK, Load, Worker
<1>4. ASSUME NEW w \in Workers, NEW row \in Book \cup {NoBook}, onFlush(w, row)
      PROVE  TypeOK'
  <2> DEFINE k == worker[w]
             entity == IF row = NoBook THEN k.loaded ELSE row
  <2>1. k \in Worker
    BY <1>0, <1>4
  <2>2. entity \in Book
    BY <1>4, <2>1 DEF onFlush, Worker
  <2>3. gatherRelationTags(entity) \subseteq Tags
    BY <2>2, AuthorType, RelationTagType DEF gatherRelationTags
  <2>4. gatherResourceAndItemTags(k.book, k.loaded # NoBook) \subseteq Tags
    BY <2>1, ItemTagType DEF Worker
  <2>5. worker' = [worker EXCEPT ![w] =
          [k EXCEPT !.pc = "flushing", !.row = row,
             !.tags = k.tags \cup gatherRelationTags(entity) \cup
                gatherResourceAndItemTags(k.book, k.loaded # NoBook)]]
    BY <1>4 DEF onFlush
  <2>6. worker' \in [Workers -> Worker]
    <3> HIDE DEF k, entity
    <3> QED  BY <1>0, <1>4, <2>1, <2>3, <2>4, <2>5 DEF Worker
  <2> QED  BY <1>4, <1>a, <2>6 DEF onFlush
<1>5. ASSUME NEW w \in Workers, preUpdate(w)
      PROVE  TypeOK'
  <2> DEFINE k == worker[w]
  <2>1. k \in Worker /\ k.loaded \in Book /\ k.row \in Book
    BY <1>0, <1>5 DEF preUpdate, updates, Worker
  <2>2. changedAssociation(k) \subseteq Tags
    BY <2>1, AuthorType, RelationTagType DEF changedAssociation
  <2>3. gatherResourceAndItemTags(k.book, TRUE) \subseteq Tags
    BY <2>1, ItemTagType DEF Worker
  <2>4. worker' = [worker EXCEPT ![w] =
          [k EXCEPT !.pc = "updating",
             !.tags = k.tags \cup changedAssociation(k) \cup
                gatherResourceAndItemTags(k.book, TRUE)]]
    BY <1>5 DEF preUpdate
  <2>5. worker' \in [Workers -> Worker]
    <3> HIDE DEF k
    <3> QED  BY <1>0, <1>5, <2>1, <2>2, <2>3, <2>4 DEF Worker
  <2> QED  BY <1>5, <1>a, <2>5 DEF preUpdate
<1>6. ASSUME NEW w \in Workers, Commit(w)
      PROVE  TypeOK'
  <2>1. worker[w] \in Worker /\ worker[w].book \in Books
    BY <1>0, <1>6 DEF Worker
  <2>2. Written(rows[worker[w].book], worker[w]) \in Book \cup {NoBook}
    BY <2>1, WrittenType DEF TypeOK
  <2>3. rows' \in [Books -> Book \cup {NoBook}]
    BY <1>6, <2>1, <2>2 DEF TypeOK, Commit
  <2>4. [Idle EXCEPT !.pc = "committed", !.tags = worker[w].tags] \in Worker
    BY <2>1, IdleType DEF Worker
  <2>5. worker' \in [Workers -> Worker]
    BY <1>0, <1>6, <2>4 DEF Commit
  <2> QED  BY <1>6, <2>3, <2>5 DEF TypeOK, Commit, Worker
<1>7. ASSUME NEW w \in Workers, Rollback(w)
      PROVE  TypeOK'
  <2>1. worker' \in [Workers -> Worker]
    BY <1>0, <1>7, AbandonedType DEF Rollback
  <2> QED  BY <1>7, <1>a, <2>1 DEF Rollback
<1>8. ASSUME NEW w \in Workers, postFlush(w)
      PROVE  TypeOK'
  <2>1. worker' \in [Workers -> Worker]
    BY <1>0, <1>8 DEF postFlush, Worker
  <2> QED  BY <1>8, <1>a, <2>1 DEF postFlush
<1>9. ASSUME NEW w \in Workers, PurgeChunk(w)
      PROVE  TypeOK'
  <2>1. PICK chunk \in SUBSET worker[w].remaining :
          /\ cache' = purge(chunk)
          /\ worker' = [worker EXCEPT ![w].remaining = @ \ chunk]
    BY <1>9 DEF PurgeChunk
  <2>2. cache' \in [Urls -> Response \cup {NotCached}]
    BY <2>1 DEF purge, TypeOK
  <2>3. worker' \in [Workers -> Worker]
    BY <1>0, <2>1 DEF Worker
  <2> QED  BY <1>9, <2>2, <2>3 DEF PurgeChunk, TypeOK, Worker
<1>10. ASSUME NEW w \in Workers, PurgeThrows(w)
       PROVE  TypeOK'
  <2>1. worker' \in [Workers -> Worker]
    BY <1>0, <1>10, AbandonedType DEF PurgeThrows
  <2>2. worker[w].remaining \subseteq Tags
    BY <1>0, <1>10 DEF Worker
  <2>3. lost' \subseteq Tags
    BY <1>10, <2>2 DEF PurgeThrows, TypeOK
  <2> QED  BY <1>10, <2>1, <2>3 DEF PurgeThrows, TypeOK, Worker
<1>11. ASSUME NEW w \in Workers, PurgeDone(w)
       PROVE  TypeOK'
  <2>1. worker' \in [Workers -> Worker]
    BY <1>0, <1>11, IdleType DEF PurgeDone
  <2> QED  BY <1>11, <1>a, <2>1 DEF PurgeDone
<1>12. CASE UNCHANGED vars
  BY <1>12 DEF vars, TypeOK
<1> QED
  BY <1>1, <1>2, <1>3, <1>4, <1>5, <1>6, <1>7, <1>8, <1>9, <1>10, <1>11,
     <1>12 DEF Next

(* The listener only ever holds tags of routes, the proxy only responses   *)
(* that were rendered: every state is well typed.                          *)
THEOREM TypeCorrect == Spec => []TypeOK
<1>1. Init => TypeOK
  BY IdleType, ConstantsAssumption DEF Init, TypeOK, Worker
<1> QED  BY <1>1, TypeStep, PTL DEF Spec

-----------------------------------------------------------------------------
(* Stale responses.                                                        *)

(* The listener looks at the author of every book flushed, and the proxy   *)
(* bans, or can match every key: no response is plain JSON, and none is of *)
(* a collection of a subresource, whose tag is the key of nothing.         *)
Configured ==
  /\ AuthorIsReached
  /\ \/ Purger = "ban"
     \/ Formats \subseteq {"jsonld"} /\ Urls \cap SubresourceUrls = {}

(* What the listener has collected before the commit.                      *)
Collected(k) ==
  k.pc \in {"flushing", "updating"} =>
    /\ CollectionUrl \in k.tags
    /\ k.loaded # NoBook => BookUrl(k.book) \in k.tags
    /\ k.row # NoBook => addTagsFor(k.row.author) \subseteq k.tags

(* The response of an item was rendered from that item.                    *)
ShowsItem(u, view) == \A b \in Books : u = BookUrl(b) => b \in DOMAIN view

IInv ==
  /\ TypeOK
  /\ \A w \in Workers : /\ Collected(worker[w])
                        /\ worker[w].remaining \subseteq worker[w].tags
  /\ \A r \in Readers :
       reader[r].pc = "rendered" => ShowsItem(reader[r].url, reader[r].view)
  /\ \A u \in Urls :
       cache[u] # NotCached =>
         cache[u].url = u /\ ShowsItem(u, cache[u].view)
  /\ StaleIsOwed

(* A commit that changes what a current response shows concerns one of the *)
(* tags the response carries.                                              *)
LEMMA ChangeIsTagged ==
  ASSUME Configured,
         NEW response \in Response,
         ShowsItem(response.url, response.view),
         NEW db \in [Books -> Book \cup {NoBook}],
         NEW k \in Worker,
         executing(k), Collected(k),
         k.loaded = NoBook => db[k.book] = NoBook,
         NEW after,
         after = [db EXCEPT ![k.book] = Written(db[k.book], k)],
         response.view = View(response.url, db),
         response.view # View(response.url, after)
  PROVE  PurgedBy(response) \cap k.tags # {}
<1> DEFINE u == response.url
           b == k.book
<1>1. /\ u \in Urls /\ b \in Books
      /\ u \in ItemUrls \cup SubresourceUrls \cup {CollectionUrl}
      /\ u \in SubresourceUrls => Purger = "ban"
  BY ConstantsAssumption DEF Response, Worker, Configured
<1>2. k.pc \in {"flushing", "updating"}
  BY DEF executing
<1>3. ItemTags(u, response.view) \subseteq PurgedBy(response)
  <2>1. CASE Purger = "ban"
    BY <2>1 DEF PurgedBy
  <2>2. CASE Purger # "ban"
    <3>1. Purger = "keys" /\ response.format = "jsonld"
      BY <2>2, ConstantsAssumption DEF Configured, Response
    <3> QED  BY <3>1 DEF PurgedBy
  <2> QED  BY <2>1, <2>2
<1>4. CASE u \in SubresourceUrls \cup {CollectionUrl}
  <2>1. CASE u = CollectionUrl
    <3>1. CollectionUrl \in CollectionTags(u)
      BY <2>1 DEF CollectionTags
    <3>2. CollectionTags(u) \subseteq PurgedBy(response)
      BY Zenon DEF PurgedBy
    <3> QED  BY <1>2, <3>1, <3>2 DEF Collected
  <2>2. CASE u \in SubresourceUrls
    <3>1. Purger = "ban"
      BY <1>1, <2>2
    <3>2. CollectionUrl \in PurgedBy(response)
      BY <2>2, <3>1 DEF PurgedBy, EndingTags
    <3> QED  BY <1>2, <3>2 DEF Collected
  <2> QED  BY <1>4, <2>1, <2>2
<1>5. CASE b \in Shown(u, db)
  <2>1. b \in DOMAIN response.view
    BY <1>5 DEF View
  <2>2. BookUrl(b) \in PurgedBy(response)
    BY <1>1, <1>3, <2>1 DEF ItemTags
  <2>3. db[b] # NoBook
    BY <1>5 DEF Shown
  <2> QED  BY <1>2, <2>2, <2>3 DEF Collected
<1>6. CASE u \notin SubresourceUrls \cup {CollectionUrl} /\ b \notin Shown(u, db)
  <2>1. \A c \in Books : c # b => after[c] = db[c]
    OBVIOUS
  <2>2. b \in Shown(u, after)
    <3> SUFFICES ASSUME b \notin Shown(u, after) PROVE FALSE
      OBVIOUS
    <3>1. Shown(u, after) = Shown(u, db)
      BY <1>6, <2>1 DEF Shown
    <3>2. \A c \in Shown(u, db) : c # b /\ c \in Books
      BY <1>6 DEF Shown
    <3>3. View(u, after) = View(u, db)
      BY <2>1, <3>1, <3>2 DEF View
    <3> QED  BY <3>3
  <2>3. after[b] = Written(db[b], k) /\ after[b] # NoBook
    BY <1>1, <2>2 DEF Shown
  <2>4. u # BookUrl(b)
    <3> SUFFICES ASSUME u = BookUrl(b) PROVE FALSE
      OBVIOUS
    <3>1. b \in DOMAIN response.view
      BY <1>1 DEF ShowsItem
    <3> QED  BY <1>6, <3>1 DEF View
  <2>5. PICK a \in Authors : u = AuthorUrl(a)
    <3>1. u \in {AuthorUrl(after[b].author), AuthorBooksUrl(after[b].author)}
      BY <1>6, <2>2, <2>4 DEF Shown
    <3>2. \A c \in Books : u # BookUrl(c)
      <4>1. CASE u = AuthorUrl(after[b].author)
        BY <4>1 DEF AuthorUrl, BookUrl
      <4>2. CASE u = AuthorBooksUrl(after[b].author)
        BY <4>2 DEF AuthorBooksUrl, BookUrl
      <4> QED  BY <3>1, <4>1, <4>2
    <3> QED  BY <1>1, <1>6, <3>2 DEF ItemUrls
  <2>6. after[b].author = a
    <3>1. u \in {AuthorUrl(after[b].author), AuthorBooksUrl(after[b].author)}
      BY <1>6, <2>2, <2>4 DEF Shown
    <3> QED  BY <2>5, <3>1 DEF AuthorUrl, AuthorBooksUrl
  <2>7. k.row # NoBook /\ k.row.author = a
    <3>1. CASE ~updates(k)
      BY <2>3, <2>6, <3>1 DEF Written
    <3>2. CASE updates(k)
      <4>1. db[b] \in Book /\ k.row \in Book /\ k.loaded \in Book
        BY <1>1, <2>3, <3>2 DEF Written, updates, Worker
      <4>2. db[b] # NoBook
        BY <4>1, ConstantsAssumption
      <4>3. db[b].author # a
        BY <1>1, <1>6, <2>5, <4>2 DEF Shown
      <4>4. after[b] = [f \in DOMAIN db[b] |->
              IF k.row[f] # k.loaded[f] THEN k.row[f] ELSE db[b][f]]
        BY <2>3, <3>2, <4>2 DEF Written
      <4>5. after[b].author = k.row.author
        BY <2>6, <4>1, <4>3, <4>4 DEF Book
      <4> QED  BY <2>6, <3>2, <4>5 DEF updates
    <3> QED  BY <3>1, <3>2
  <2>8. AuthorUrl(a) \in k.tags
    <3>1. a # NoAuthor
      BY <2>5, ConstantsAssumption
    <3> QED  BY <1>2, <2>7, <3>1 DEF Collected, addTagsFor
  <2>9. AuthorUrl(a) \in PurgedBy(response)
    BY <1>3, <2>5 DEF ItemTags
  <2> QED  BY <2>8, <2>9
<1> QED  BY <1>4, <1>5, <1>6

(* A step that writes neither the table nor the cache, and forgets no tag  *)
(* that is owed.                                                           *)
LEMMA NothingForgotten ==
  ASSUME StaleIsOwed, rows' = rows, cache' = cache, AllOwed \subseteq AllOwed'
  PROVE  StaleIsOwed'
BY DEF StaleIsOwed, Stale

(* What is owed by the workers a step leaves alone stays owed.             *)
LEMMA OwedByOne ==
  ASSUME NEW w \in Workers, NEW k,
         worker \in [Workers -> Worker],
         worker' = [worker EXCEPT ![w] = k],
         lost \subseteq lost',
         Owed(w) \subseteq Owed(w)' \cup lost'
  PROVE  AllOwed \subseteq AllOwed'
<1>1. \A x \in Workers : x # w => Owed(x)' = Owed(x)
  BY DEF Owed
<1>2. \A x \in Workers : Owed(x) \subseteq AllOwed'
  BY <1>1 DEF AllOwed
<1> QED  BY <1>2 DEF AllOwed

LEMMA StaleStep == Configured /\ IInv /\ [Next]_vars => IInv'
<1> SUFFICES ASSUME Configured, IInv, [Next]_vars PROVE IInv'
  OBVIOUS
<1>t. TypeOK'
  BY TypeStep DEF IInv
<1>0. worker \in [Workers -> Worker]
  BY DEF IInv, TypeOK, Worker
(* A step of one worker that writes neither the table nor the cache.       *)
<1>a. ASSUME NEW w \in Workers, NEW k,
             worker' = [worker EXCEPT ![w] = k],
             Collected(k), k.remaining \subseteq k.tags,
             UNCHANGED <<rows, cache, reader>>, lost \subseteq lost',
             Owed(w) \subseteq Owed(w)' \cup lost'
      PROVE  IInv'
  <2>1. StaleIsOwed'
    BY <1>0, <1>a, OwedByOne, NothingForgotten DEF IInv
  <2>2. \A x \in Workers : /\ Collected(worker'[x])
                           /\ worker'[x].remaining \subseteq worker'[x].tags
    BY <1>0, <1>a DEF IInv
  <2> QED  BY <1>t, <1>a, <2>1, <2>2 DEF IInv
<1>1. ASSUME NEW r \in Readers, NEW u \in Urls, NEW format \in Formats,
             Render(r, u, format)
      PROVE  IInv'
  <2>1. AllOwed' = AllOwed
    BY <1>1 DEF Render, AllOwed, Owed
  <2>2. StaleIsOwed'
    BY <1>1, <2>1, NothingForgotten DEF Render, IInv
  <2>3. ShowsItem(u, View(u, rows))
    BY <1>1 DEF Render, Exists, ShowsItem, View, Shown
  <2>4. \A x \in Readers :
          reader'[x].pc = "rendered" => ShowsItem(reader'[x].url, reader'[x].view)
    BY <1>1, <2>3 DEF Render, IInv, TypeOK
  <2> QED  BY <1>t, <1>1, <2>2, <2>4 DEF Render, IInv
<1>2. ASSUME NEW r \in Readers, Store(r)
      PROVE  IInv'
  <2> DEFINE v == reader[r].url
             stored == [url |-> v, format |-> reader[r].format,
                        view |-> reader[r].view,
                        late |-> reader[r].view # View(v, rows)]
  <2>1. reader[r] \in Rendered /\ v \in Urls
    BY <1>2 DEF IInv, TypeOK, Store, NoResponse, Rendered
  <2>2. cache' = [cache EXCEPT ![v] = stored] /\ rows' = rows
    BY <1>2 DEF Store
  <2>3. stored.url = v /\ stored.view = reader[r].view
        /\ (stored.late <=> reader[r].view # View(v, rows))
    OBVIOUS
  <2>4. ShowsItem(v, reader[r].view)
    BY <1>2 DEF IInv, Store
  <2> HIDE DEF stored
  <2>5. AllOwed' = AllOwed
    BY <1>2 DEF Store, AllOwed, Owed
  <2>6. cache \in [Urls -> Response \cup {NotCached}]
    BY DEF IInv, TypeOK
  <2>7. ASSUME NEW u \in Urls, Stale(u)'
        PROVE  u # v /\ Stale(u)
    BY <2>1, <2>2, <2>3, <2>6, <2>7 DEF Stale
  <2>8. StaleIsOwed'
    BY <2>1, <2>2, <2>5, <2>6, <2>7 DEF IInv, StaleIsOwed
  <2>9. \A u \in Urls :
          cache'[u] # NotCached =>
            cache'[u].url = u /\ ShowsItem(u, cache'[u].view)
    BY <2>1, <2>2, <2>3, <2>4, <2>6 DEF IInv
  <2>10. \A x \in Readers :
          reader'[x].pc = "rendered" => ShowsItem(reader'[x].url, reader'[x].view)
    BY <1>2 DEF Store, IInv, TypeOK, NoResponse
  <2> QED  BY <1>t, <1>2, <2>8, <2>9, <2>10 DEF Store, IInv
<1>3. ASSUME NEW w \in Workers, NEW b \in Books, Load(w, b)
      PROVE  IInv'
  <2> DEFINE k == [worker[w] EXCEPT !.pc = "loaded", !.book = b, !.loaded = rows[b]]
  <2>1. worker[w] \in Worker
    BY <1>0, <1>3
  <2>2. k.pc = "loaded" /\ k.tags = worker[w].tags
        /\ k.remaining = worker[w].remaining
    BY <2>1 DEF Worker
  <2>3. worker' = [worker EXCEPT ![w] = k]
    BY <1>3 DEF Load
  <2> HIDE DEF k
  <2>4. worker'[w] = k
    BY <1>0, <1>3, <2>3
  <2>5. Owed(w) \subseteq Owed(w)'
    BY <1>3, <2>2, <2>4 DEF Owed, Load
  <2>6. Collected(k) /\ k.remaining \subseteq k.tags
    BY <1>3, <2>2 DEF Collected, IInv
  <2> QED  BY <1>3, <1>a, <2>3, <2>5, <2>6 DEF Load
<1>4. ASSUME NEW w \in Workers, NEW row \in Book \cup {NoBook}, onFlush(w, row)
      PROVE  IInv'
  <2> DEFINE o == worker[w]
             entity == IF row = NoBook THEN o.loaded ELSE row
             collected == o.tags \cup gatherRelationTags(entity) \cup
                gatherResourceAndItemTags(o.book, o.loaded # NoBook)
             k == [o EXCEPT !.pc = "flushing", !.row = row, !.tags = collected]
  <2>1. o \in Worker
    BY <1>0, <1>4
  <2>2. /\ k.pc = "flushing" /\ k.tags = collected /\ k.row = row
        /\ k.loaded = o.loaded /\ k.book = o.book /\ k.remaining = o.remaining
    BY <2>1 DEF Worker
  <2>3. worker' = [worker EXCEPT ![w] = k]
    BY <1>4 DEF onFlush
  <2>4. /\ CollectionUrl \in collected
        /\ o.loaded # NoBook => BookUrl(o.book) \in collected
        /\ row # NoBook => addTagsFor(row.author) \subseteq collected
        /\ o.tags \subseteq collected
    BY DEF gatherResourceAndItemTags, gatherRelationTags, Configured
  <2> HIDE DEF k, collected, entity
  <2>5. worker'[w] = k
    BY <1>0, <1>4, <2>3
  <2>6. Owed(w) \subseteq Owed(w)'
    BY <1>4, <2>2, <2>4, <2>5 DEF Owed, onFlush
  <2>7. Collected(k) /\ k.remaining \subseteq k.tags
    BY <1>4, <2>2, <2>4 DEF Collected, IInv
  <2> QED  BY <1>4, <1>a, <2>3, <2>6, <2>7 DEF onFlush
<1>5. ASSUME NEW w \in Workers, preUpdate(w)
      PROVE  IInv'
  <2> DEFINE o == worker[w]
             collected == o.tags \cup changedAssociation(o) \cup
                gatherResourceAndItemTags(o.book, TRUE)
             k == [o EXCEPT !.pc = "updating", !.tags = collected]
  <2>1. o \in Worker
    BY <1>0, <1>5
  <2>2. /\ k.pc = "updating" /\ k.tags = collected /\ k.row = o.row
        /\ k.loaded = o.loaded /\ k.book = o.book /\ k.remaining = o.remaining
    BY <2>1 DEF Worker
  <2>3. worker' = [worker EXCEPT ![w] = k]
    BY <1>5 DEF preUpdate
  <2>4. o.tags \subseteq collected
    OBVIOUS
  <2> HIDE DEF k, collected
  <2>5. worker'[w] = k
    BY <1>0, <1>5, <2>3
  <2>6. Owed(w) \subseteq Owed(w)'
    BY <1>5, <2>2, <2>4, <2>5 DEF Owed, preUpdate
  <2>7. Collected(k) /\ k.remaining \subseteq k.tags
    BY <1>5, <2>2, <2>4 DEF Collected, IInv, preUpdate
  <2> QED  BY <1>5, <1>a, <2>3, <2>6, <2>7 DEF preUpdate
<1>6. ASSUME NEW w \in Workers, Commit(w)
      PROVE  IInv'
  <2> DEFINE k == worker[w]
             done == [Idle EXCEPT !.pc = "committed", !.tags = k.tags]
  <2>1. k \in Worker /\ executing(k) /\ Collected(k)
    BY <1>0, <1>6 DEF Commit, IInv
  <2>2. done.pc = "committed" /\ done.tags = k.tags /\ done.remaining = {}
    BY DEF Idle
  <2>3. worker' = [worker EXCEPT ![w] = done]
    BY <1>6 DEF Commit
  <2> HIDE DEF done
  <2>4. worker'[w] = done
    BY <1>0, <1>6, <2>3
  <2>5. Owed(w)' = k.tags
    BY <2>2, <2>4 DEF Owed
  <2>6. Owed(w) \subseteq Owed(w)'
    BY <2>1, <2>5 DEF Owed, executing
  <2>7. AllOwed \subseteq AllOwed'
    BY <1>0, <1>6, <2>3, <2>6, OwedByOne DEF Commit
  <2>8. k.tags \subseteq AllOwed'
    BY <1>6, <2>5 DEF AllOwed
  <2>9. ASSUME NEW u \in Urls, Stale(u)'
        PROVE  PurgedBy(cache[u]) \cap AllOwed' # {}
    <3>1. cache[u] # NotCached /\ ~cache[u].late
      BY <1>6, <2>9 DEF Stale, Commit
    <3>2. cache[u] \in Response /\ cache[u].url = u
          /\ ShowsItem(u, cache[u].view)
      BY <3>1 DEF IInv, TypeOK
    <3>3. CASE Stale(u)
      BY <2>7, <3>3 DEF IInv, StaleIsOwed
    <3>4. CASE ~Stale(u)
      <4>1. cache[u].view = View(u, rows)
        BY <3>1, <3>4 DEF Stale
      <4>2. cache[u].view # View(u, rows')
        BY <1>6, <2>9 DEF Stale, Commit
      <4>3. rows' = [rows EXCEPT ![k.book] = Written(rows[k.book], k)]
            /\ (k.loaded = NoBook => rows[k.book] = NoBook)
        BY <1>6 DEF Commit
      <4>4. rows \in [Books -> Book \cup {NoBook}]
        BY DEF IInv, TypeOK
      <4>5. PurgedBy(cache[u]) \cap k.tags # {}
        BY <2>1, <3>2, <4>1, <4>2, <4>3, <4>4, ChangeIsTagged
      <4> QED  BY <2>8, <4>5
    <3> QED  BY <3>3, <3>4
  <2>10. StaleIsOwed'
    BY <1>6, <2>9 DEF StaleIsOwed, Commit
  <2>11. \A x \in Workers : /\ Collected(worker'[x])
                            /\ worker'[x].remaining \subseteq worker'[x].tags
    BY <1>0, <2>2, <2>3 DEF IInv, Collected
  <2> QED  BY <1>t, <1>6, <2>10, <2>11 DEF IInv, Commit
<1>7. ASSUME NEW w \in Workers, Rollback(w)
      PROVE  IInv'
  <2> DEFINE k == Abandoned(worker[w])
  <2>1. /\ k.pc = "idle" /\ k.remaining = {}
        /\ k.tags = IF LongRunning THEN worker[w].tags ELSE {}
    BY DEF Abandoned, Idle
  <2>2. worker' = [worker EXCEPT ![w] = k]
    BY <1>7 DEF Rollback
  <2> HIDE DEF k
  <2>3. worker'[w] = k
    BY <1>0, <1>7, <2>2
  <2>4. Owed(w) \subseteq Owed(w)'
    BY <1>7, <2>1, <2>3 DEF Owed, Rollback, executing
  <2>5. Collected(k) /\ k.remaining \subseteq k.tags
    BY <2>1 DEF Collected
  <2> QED  BY <1>7, <1>a, <2>2, <2>4, <2>5 DEF Rollback
<1>8. ASSUME NEW w \in Workers, postFlush(w)
      PROVE  IInv'
  <2> DEFINE k == [worker[w] EXCEPT !.pc = "purging", !.remaining = worker[w].tags]
  <2>1. worker[w] \in Worker
    BY <1>0, <1>8
  <2>2. /\ k.pc = "purging" /\ k.remaining = worker[w].tags
        /\ k.tags = worker[w].tags
    BY <2>1 DEF Worker
  <2>3. worker' = [worker EXCEPT ![w] = k]
    BY <1>8 DEF postFlush
  <2> HIDE DEF k
  <2>4. worker'[w] = k
    BY <1>0, <1>8, <2>3
  <2>5. Owed(w) \subseteq Owed(w)'
    BY <1>8, <2>2, <2>4 DEF Owed, postFlush
  <2>6. Collected(k) /\ k.remaining \subseteq k.tags
    BY <2>2 DEF Collected
  <2> QED  BY <1>8, <1>a, <2>3, <2>5, <2>6 DEF postFlush
<1>9. ASSUME NEW w \in Workers, PurgeChunk(w)
      PROVE  IInv'
  <2>1. PICK chunk \in SUBSET worker[w].remaining :
          /\ cache' = purge(chunk)
          /\ worker' = [worker EXCEPT ![w].remaining = @ \ chunk]
    BY <1>9 DEF PurgeChunk
  <2>2. /\ worker'[w].pc = "purging" /\ worker[w].pc = "purging"
        /\ worker'[w].tags = worker[w].tags
        /\ worker'[w].remaining = worker[w].remaining \ chunk
        /\ \A x \in Workers : x # w => worker'[x] = worker[x]
    BY <1>0, <1>9, <2>1 DEF PurgeChunk, Worker
  <2>3. Owed(w) \subseteq Owed(w)' \cup chunk
    BY <2>2 DEF Owed
  <2>4. \A x \in Workers : x # w => Owed(x)' = Owed(x)
    BY <2>2 DEF Owed
  <2>5. AllOwed \subseteq AllOwed' \cup chunk
    BY <1>9, <2>3, <2>4 DEF AllOwed, PurgeChunk
  <2>6. \A u \in Urls :
          cache'[u] # NotCached =>
            cache'[u] = cache[u] /\ PurgedBy(cache[u]) \cap chunk = {}
    BY <2>1 DEF purge
  <2>7. StaleIsOwed'
    BY <1>9, <2>5, <2>6 DEF IInv, StaleIsOwed, Stale, PurgeChunk
  <2>8. \A x \in Workers : /\ Collected(worker'[x])
                           /\ worker'[x].remaining \subseteq worker'[x].tags
    BY <2>2 DEF IInv, Collected
  <2> QED  BY <1>t, <1>9, <2>6, <2>7, <2>8 DEF IInv, PurgeChunk
<1>10. ASSUME NEW w \in Workers, PurgeThrows(w)
       PROVE  IInv'
  <2> DEFINE k == Abandoned(worker[w])
  <2>1. /\ k.pc = "idle" /\ k.remaining = {}
        /\ k.tags = IF LongRunning THEN worker[w].tags ELSE {}
    BY DEF Abandoned, Idle
  <2>2. worker' = [worker EXCEPT ![w] = k]
        /\ lost' = lost \cup (worker[w].remaining \ k.tags)
    BY <1>10 DEF PurgeThrows
  <2> HIDE DEF k
  <2>3. worker'[w] = k
    BY <1>0, <1>10, <2>2
  <2>4. Owed(w) = worker[w].remaining
    BY <1>10 DEF Owed, PurgeThrows
  <2>5. Owed(w)' = k.tags
    BY <2>1, <2>3 DEF Owed
  <2>6. Collected(k) /\ k.remaining \subseteq k.tags
    BY <2>1 DEF Collected
  <2> QED  BY <1>10, <1>a, <2>2, <2>4, <2>5, <2>6 DEF PurgeThrows
<1>11. ASSUME NEW w \in Workers, PurgeDone(w)
       PROVE  IInv'
  <2>1. Owed(w) = {}
    BY <1>11 DEF Owed, PurgeDone
  <2>2. Collected(Idle) /\ Idle.remaining \subseteq Idle.tags
    BY DEF Collected, Idle
  <2> QED  BY <1>11, <1>a, <2>1, <2>2 DEF PurgeDone
<1>12. CASE UNCHANGED vars
  <2>1. AllOwed' = AllOwed
    BY <1>12 DEF vars, AllOwed, Owed
  <2>2. StaleIsOwed'
    BY <1>12, <2>1, NothingForgotten DEF vars, IInv
  <2> QED  BY <1>t, <1>12, <2>2 DEF vars, IInv
<1> QED
  BY <1>1, <1>2, <1>3, <1>4, <1>5, <1>6, <1>7, <1>8, <1>9, <1>10, <1>11,
     <1>12 DEF Next

(* For every number of resources, workers and readers: if the listener     *)
(* looks at the relations and the proxy matches its tags, no response that *)
(* a commit made stale is forgotten, unless its purge request failed.      *)
THEOREM NothingStaleForgotten ==
  ASSUME Configured
  PROVE  Spec => []StaleIsOwed
<1>1. Init => IInv
  <2> SUFFICES ASSUME Init PROVE IInv
    OBVIOUS
  <2>1. TypeOK
    BY IdleType, ConstantsAssumption DEF Init, TypeOK, Worker
  <2>2. \A w \in Workers : /\ Collected(worker[w])
                           /\ worker[w].remaining \subseteq worker[w].tags
    BY DEF Init, Idle, Collected
  <2>3. \A r \in Readers : reader[r].pc # "rendered"
    BY DEF Init, NoResponse
  <2>4. \A u \in Urls : cache[u] = NotCached
    BY DEF Init
  <2> QED  BY <2>1, <2>2, <2>3, <2>4 DEF IInv, StaleIsOwed, Stale
<1>2. IInv /\ [Next]_vars => IInv'
  BY StaleStep
<1>3. IInv => StaleIsOwed
  BY DEF IInv
<1> QED  BY <1>1, <1>2, <1>3, PTL DEF Spec
=============================================================================
