--------------------------- MODULE CollectionWalk ---------------------------
(***************************************************************************)
(* A client walks through a collection, one request after the other, with  *)
(* the links, cursors or page numbers of each answer, while others insert  *)
(* and delete items. A request makes up to three queries: the count that   *)
(* "last" needs, the items of the slice and the total, before the slice or *)
(* after it.                                                               *)
(***************************************************************************)
EXTENDS Pagination, SortedSets, Sequences, SequencesExt

CONSTANTS
  Items,       \* identifiers, by which the collection is sorted
  Styles,      \* how the client walks
  Sizes,       \* numbers of items it asks for
  FirstPages,  \* pages a numbered walk may begin with
  MaxChanges   \* bound: items inserted or deleted by others

(* pages, back: the Hydra links next and previous, the second from the     *)
(* last page on; partial: next, of a collection without total; field: next *)
(* with paginationViaCursor; numbered: GraphQL with page numbers; forward, *)
(* backward: GraphQL with the cursors of pageInfo; edges: with the cursor  *)
(* of the last edge, until a page is empty.                                *)
AllStyles == {"pages", "back", "partial", "field", "numbered", "forward",
              "backward", "edges"}

ASSUME WalkAssumption ==
  /\ Items \subseteq Nat /\ IsFiniteSet(Items)
  /\ Styles \subseteq AllStyles
  /\ Sizes \subseteq Int
  /\ FirstPages \subseteq Int
  /\ MaxChanges \in Nat

VARIABLES
  items,    \* the collection
  walk,     \* the client's walk and the request being handled
  steady,   \* history: items that were there all along
  changes   \* history: insertions and deletions

vars == <<items, walk, steady, changes>>

isGraphQl(style) == style \in {"numbered", "forward", "backward", "edges"}

(* pageInfo is selected, and the paginator has a total.                    *)
isCounted(style) == style \in {"forward", "backward"}

(* The total of a Hydra collection and the paginationInfo of GraphQL come  *)
(* before the items, which are read when they are iterated.                *)
totalComesFirst(style) == style \in {"pages", "back", "numbered"}

Walk(style, size, args) ==
  [pc |-> "addCount", style |-> style, size |-> size, args |-> args,
   first |-> args, count |-> 0, offset |-> 0, limit |-> 0,
   total |-> 0, page |-> <<>>, seen |-> <<>>]

firstArgs(style, size, page) ==
  CASE style \in {"pages", "numbered"} ->
         [NoArgs EXCEPT !.itemsPerPage = size, !.page = page]
    [] style \in {"forward", "edges"} -> [NoArgs EXCEPT !.first = size]
    [] style = "backward" -> [NoArgs EXCEPT !.last = size]
    [] OTHER -> [NoArgs EXCEPT !.itemsPerPage = size]

(* The offset of "last" does not know the maximum: a client that walks     *)
(* backward is supposed to ask for less.                                   *)
mayAsk(style, size) == style = "backward" => Capped(size) = size

Init ==
  /\ items \in SUBSET Items
  /\ steady = items
  /\ changes = 0
  /\ \E style \in Styles, size \in Sizes, page \in FirstPages :
       /\ mayAsk(style, size)
       /\ walk = Walk(style, size, firstArgs(style, size, page))

Slice(S, offset, limit) ==
  SubSeq(Sorted(S), offset + 1, Min({offset + limit, Cardinality(S)}))

Advance(w) == walk' = w /\ UNCHANGED <<items, steady, changes>>

-----------------------------------------------------------------------------
(* The server.                                                             *)

(* PaginationExtension counts for "last" without "before" only.            *)
addCountToContext ==
  LET args == walk.args
      counts == isGraphQl(walk.style) /\ args.last # Null /\ args.before = Null
  IN  /\ walk.pc = "addCount"
      /\ Advance([walk EXCEPT !.pc = "paginate",
           !.count = IF counts THEN Cardinality(items) ELSE 0])

getPagination ==
  LET graphql == isGraphQl(walk.style)
      firstQuery == IF totalComesFirst(walk.style) THEN "total" ELSE "slice"
  IN  /\ walk.pc = "paginate"
      /\ \/ /\ isInvalid(graphql, walk.args, walk.count)
            /\ Advance([walk EXCEPT !.pc = "rejected"])
         \/ /\ ~isInvalid(graphql, walk.args, walk.count)
            /\ Advance([walk EXCEPT !.pc = firstQuery,
                 !.offset = getOffset(graphql, walk.args, walk.count),
                 !.limit = getLimit(graphql, walk.args)])

filtered == {i \in items : walk.args.gt # Null => i > walk.args.gt}

(* The query with the first result and the maximum of results.             *)
getIterator ==
  /\ walk.pc = "slice"
  /\ Advance([walk EXCEPT
       !.pc = IF isCounted(walk.style) THEN "total" ELSE "answer",
       !.page = Slice(filtered, walk.offset, walk.limit)])

(* hasNextPage is asked of the total when it is known. Otherwise it is a   *)
(* query for an item after the page, which finds one when the total at     *)
(* this moment is beyond the page.                                         *)
getTotalItems ==
  /\ walk.pc = "total"
  /\ Advance([walk EXCEPT
       !.pc = IF totalComesFirst(walk.style) THEN "slice" ELSE "answer",
       !.total = Cardinality(items)])

-----------------------------------------------------------------------------
(* The client takes the page, and asks for another or stops.               *)

Ask(args, seen) ==
  Advance([walk EXCEPT !.pc = "addCount", !.args = args, !.seen = seen,
    !.page = <<>>, !.count = 0, !.total = 0, !.offset = 0, !.limit = 0])

Stop(seen) == Advance([walk EXCEPT !.pc = "done", !.seen = seen])

Answered(style) == walk.pc = "answer" /\ walk.style = style

WithPage(page) == [walk.args EXCEPT !.page = page]

FollowNext ==
  LET view == IF walk.style = "partial"
              THEN partialLinks(Len(walk.page), walk.offset, walk.limit)
              ELSE links(walk.total, walk.offset, walk.limit)
      seen == walk.seen \o walk.page
  IN  /\ Answered("pages") \/ Answered("partial")
      /\ \/ view.next # Null /\ Ask(WithPage(view.next), seen)
         \/ view.next = Null /\ Stop(seen)

(* The first answer tells which page is the last.                          *)
FollowPrevious ==
  LET view == links(walk.total, walk.offset, walk.limit)
      seen == walk.page \o walk.seen
  IN  /\ Answered("back")
      /\ \/ walk.args.page = Null /\ view.last # Null
              /\ Ask(WithPage(view.last), <<>>)
         \/ walk.args.page = Null /\ view.last = Null /\ Stop(seen)
         \/ walk.args.page # Null /\ view.previous # Null
              /\ Ask(WithPage(view.previous), seen)
         \/ walk.args.page # Null /\ view.previous = Null /\ Stop(seen)

(* Fault: the range is not strict.                                         *)
cursorPaginationInclusive(page) == Last(page) - 1

(* The range filter after the last object of the page.                     *)
cursorPaginationFields(page) == Last(page)

FollowField ==
  LET seen == walk.seen \o walk.page
  IN  /\ Answered("field")
      /\ \/ walk.page = <<>> /\ Stop(seen)
         \/ walk.page # <<>>
              /\ Ask([walk.args EXCEPT !.gt = cursorPaginationFields(walk.page)],
                     seen)

(* paginationInfo tells whether there is a next page.                      *)
FollowNumbered ==
  LET seen == walk.seen \o walk.page
      more == hasNextPage(walk.total, walk.offset, walk.limit)
  IN  /\ Answered("numbered")
      /\ \/ more /\ Ask(WithPage(getPage(walk.args) + 1), seen)
         \/ ~more /\ Stop(seen)

Info == pageInfo(walk.args, Len(walk.page), walk.total, walk.offset, walk.limit)

(* A client may ask for another number of items each time.                 *)
Positive == {size \in Sizes : size > 0}

FollowForward ==
  LET seen == walk.seen \o walk.page
  IN  /\ Answered("forward")
      /\ \/ Info.hasNextPage /\ \E size \in Positive :
              Ask([NoArgs EXCEPT !.first = size, !.after = Info.endCursor], seen)
         \/ ~Info.hasNextPage /\ Stop(seen)

FollowBackward ==
  LET seen == walk.page \o walk.seen
  IN  /\ Answered("backward")
      /\ \/ Info.hasPreviousPage /\ \E size \in {n \in Positive : mayAsk("backward", n)} :
              Ask([NoArgs EXCEPT !.last = size, !.before = Info.startCursor], seen)
         \/ ~Info.hasPreviousPage /\ Stop(seen)

edgeCursor(index) ==
  cursorOffset(walk.args, FALSE, Len(walk.page), 1) + index

FollowEdges ==
  LET seen == walk.seen \o walk.page
  IN  /\ Answered("edges")
      /\ \/ walk.page # <<>>
              /\ Ask([walk.args EXCEPT !.after = edgeCursor(Len(walk.page) - 1)],
                     seen)
         \/ walk.page = <<>> /\ Stop(seen)

-----------------------------------------------------------------------------
(* The others.                                                             *)

Change(S) ==
  /\ walk.pc \notin {"done", "rejected"}
  /\ changes < MaxChanges
  /\ items' = S
  /\ steady' = steady \cap S
  /\ changes' = changes + 1
  /\ UNCHANGED walk

Insert == \E i \in Items \ items : Change(items \cup {i})
Delete == \E i \in items : Change(items \ {i})

Step ==
  \/ addCountToContext \/ getPagination \/ getIterator \/ getTotalItems
  \/ FollowNext \/ FollowPrevious \/ FollowField \/ FollowNumbered
  \/ FollowForward \/ FollowBackward \/ FollowEdges

Next == Step \/ Insert \/ Delete

Spec == Init /\ [][Next]_vars

(* A client that has an answer goes on; a request is answered.             *)
FairSpec == Spec /\ WF_vars(Step)

-----------------------------------------------------------------------------
(* Properties                                                              *)

TypeOK ==
  /\ items \subseteq Items
  /\ steady \subseteq items
  /\ changes \in 0..MaxChanges
  /\ walk \in
       [pc : {"addCount", "paginate", "slice", "total", "answer", "done",
              "rejected"},
        style : Styles, size : Sizes, args : Args, first : Args, count : Nat,
        offset : Nat, limit : Nat, total : Nat, page : Seq(Items),
        seen : Seq(Items)]
  /\ Len(walk.page) <= walk.limit

Ended == walk.pc = "done" /\ walk.size # 0

(* The items from the page on with which the walk began.                   *)
Expected ==
  LET skipped == IF walk.style \in {"pages", "numbered"}
                 THEN (getPage(walk.first) - 1) * walk.limit ELSE 0
  IN  SubSeq(Sorted(items), skipped + 1, Cardinality(items))

(* A client that follows the links, the cursors or the page numbers of the *)
(* answers to the end has seen all the items, each once, in their order,   *)
(* if nobody changed the collection: whatever the number of items, the     *)
(* limit, its change from page to page, and a last page that is full or    *)
(* not.                                                                    *)
EachItemOnce == Ended /\ changes = 0 => walk.seen = Expected

(* When the collection changes during the walk, an offset may skip or      *)
(* repeat items, but no more of them than the changes. (Going back by      *)
(* links may lose a page more: a collection that has come to fit one page  *)
(* has no links, whatever the page the client is on.)                      *)
LossBoundedByChanges ==
  Ended /\ walk.style # "back" /\ walk.first.page \in {Null, 1} =>
    LET seen == {walk.seen[k] : k \in DOMAIN walk.seen}
    IN  /\ Cardinality(steady \ seen) <= changes
        /\ Len(walk.seen) - Cardinality(seen) <= changes

(* With paginationViaCursor a walk through a partial collection misses and *)
(* repeats nothing, whatever others insert and delete. (With a total, a    *)
(* first answer of one page has no next link.)                             *)
FieldWalkIsExact ==
  walk.style = "field" =>
    /\ \A j, k \in DOMAIN walk.seen : j < k => walk.seen[j] < walk.seen[k]
    /\ Ended => \A i \in steady : \E k \in DOMAIN walk.seen : walk.seen[k] = i

(* The server never answers 400 to a request made of what it gave.         *)
LinksAreValid ==
  walk.pc = "rejected" /\ walk.size # 0 => walk.args = walk.first

(* A walk comes to its end, unless it asks for pages of 0 items, or goes   *)
(* backward from a cursor that deletions have left behind the end: the     *)
(* page is empty and says that there is a previous one, again and again.   *)
WalkEnds ==
  walk.size # 0 ~> \/ walk.pc \in {"done", "rejected"}
                   \/ walk.style = "backward" /\ changes > 0
=============================================================================
