----------------------------- MODULE Pagination -----------------------------
(***************************************************************************)
(* The arithmetic of pages: the limit and the offset that the arguments of *)
(* a request ask for, what a paginator says of its slice, and the cursors  *)
(* and links that the normalizers derive. Everything counts from 0 except  *)
(* pages, which count from 1, as in the code.                              *)
(***************************************************************************)
EXTENDS Integers

CONSTANTS
  Null,                  \* an argument that was not given; no answer
  ItemsPerPage,          \* the operation's
  ClientItemsPerPage,    \* whether clients may choose it
  MaximumItemsPerPage,   \* Null or the most they may ask for
  PHP_INT_MAX            \* a product beyond it is a float

ASSUME PaginationAssumption ==
  /\ Null \notin Int
  /\ ItemsPerPage \in Nat
  /\ ClientItemsPerPage \in BOOLEAN
  /\ MaximumItemsPerPage \in Nat \cup {Null}
  /\ PHP_INT_MAX \in Nat

(* The arguments of a request; "gt" is the range filter of a field.        *)
Args ==
  [page : Int \cup {Null}, itemsPerPage : Int \cup {Null},
   first : Int \cup {Null}, after : Int \cup {Null},
   last : Int \cup {Null}, before : Int \cup {Null}, gt : Int \cup {Null}]

NoArgs ==
  [page |-> Null, itemsPerPage |-> Null, first |-> Null, after |-> Null,
   last |-> Null, before |-> Null, gt |-> Null]

getParameterFromContext(args, name, default) ==
  IF args[name] = Null THEN default ELSE args[name]

AtLeastZero(n) == IF n < 0 THEN 0 ELSE n

-----------------------------------------------------------------------------
(* Pagination: what is asked. GraphQL arguments count only in GraphQL.     *)

getPage(args) == getParameterFromContext(args, "page", 1)

(* A page that would begin before the first item is cut to those before    *)
(* the cursor.                                                             *)
CutToBefore(limit, args) ==
  IF args.before # Null /\ args.before - limit < 0 THEN args.before ELSE limit

Capped(limit) ==
  IF MaximumItemsPerPage # Null /\ limit > MaximumItemsPerPage
  THEN MaximumItemsPerPage ELSE limit

getLimit(graphql, args) ==
  LET first == getParameterFromContext(args, "first", ItemsPerPage)
      last == getParameterFromContext(args, "last", first)
      limit == IF graphql THEN CutToBefore(last, args) ELSE ItemsPerPage
  IN  IF ClientItemsPerPage
      THEN Capped(getParameterFromContext(args, "itemsPerPage", limit))
      ELSE limit

(* Fault: the item of the cursor is sent again.                            *)
getOffsetOfCursor(graphql, args, count) ==
  CASE graphql /\ args.after # Null -> args.after
    [] graphql /\ args.after = Null /\ args.before # Null ->
         AtLeastZero(args.before - getLimit(graphql, args))
    [] graphql /\ args.after = Null /\ args.before = Null /\ args.last # Null ->
         AtLeastZero(count - args.last)
    [] OTHER -> (getPage(args) - 1) * getLimit(graphql, args)

(* Fault: more items are asked for than there are.                         *)
getOffsetUnclamped(graphql, args, count) ==
  CASE graphql /\ args.after # Null -> args.after + 1
    [] graphql /\ args.after = Null /\ args.before # Null ->
         args.before - getLimit(graphql, args)
    [] graphql /\ args.after = Null /\ args.before = Null /\ args.last # Null ->
         count - args.last
    [] OTHER -> (getPage(args) - 1) * getLimit(graphql, args)

getOffset(graphql, args, count) ==
  CASE graphql /\ args.after # Null -> args.after + 1
    [] graphql /\ args.after = Null /\ args.before # Null ->
         AtLeastZero(args.before - getLimit(graphql, args))
    [] graphql /\ args.after = Null /\ args.before = Null /\ args.last # Null ->
         AtLeastZero(count - args.last)
    [] OTHER -> (getPage(args) - 1) * getLimit(graphql, args)

(* The exceptions of getPage, getLimit, getPagination and getOffset.       *)
isInvalid(graphql, args, count) ==
  \/ getPage(args) < 1
  \/ getLimit(graphql, args) < 0
  \/ getLimit(graphql, args) = 0 /\ getPage(args) > 1
  \/ getOffset(graphql, args, count) > PHP_INT_MAX

-----------------------------------------------------------------------------
(* The paginators: what they say of a slice.                               *)

getCurrentPage(offset, limit) ==
  IF limit <= 0 THEN 1 ELSE (offset \div limit) + 1

(* The quotient is rounded up; no item makes one page.                     *)
getLastPage(total, limit) ==
  IF limit <= 0 \/ total = 0 THEN 1 ELSE (total + limit - 1) \div limit

hasNextPage(total, offset, limit) == total > offset + limit

-----------------------------------------------------------------------------
(* The GraphQL NormalizeProcessor. "counted" says that the paginator knows *)
(* the total and the client selected pageInfo or totalCount.               *)

cursorOffset(args, counted, nbPageItems, totalItems) ==
  LET after == IF args.after # Null THEN args.after + 1 ELSE 0
      offset == CASE counted /\ args.before # Null -> args.before - nbPageItems
                  [] counted /\ args.before = Null /\ args.last # Null ->
                       totalItems - args.last
                  [] OTHER -> after
  IN  AtLeastZero(offset)

NoPageInfo ==
  [startCursor |-> Null, endCursor |-> Null,
   hasNextPage |-> FALSE, hasPreviousPage |-> FALSE]

(* Fault: the offset is counted twice.                                     *)
followedByOffset(offset, totalItems, firstResult, maxResults) ==
  offset + maxResults * getCurrentPage(firstResult, maxResults) < totalItems

followedBy(offset, totalItems, firstResult, maxResults) ==
  LET rest == IF maxResults > 0 THEN offset % maxResults ELSE offset
  IN  rest + maxResults * getCurrentPage(firstResult, maxResults) < totalItems

(* Fault: there is a page before the first item.                           *)
precededByAny(offset) == offset >= 0

precededBy(offset) == offset > 0

pageInfo(args, nbPageItems, totalItems, firstResult, maxResults) ==
  LET offset == cursorOffset(args, TRUE, nbPageItems, totalItems)
  IN  IF totalItems = 0 THEN NoPageInfo
      ELSE [startCursor |-> offset,
            endCursor |-> AtLeastZero(offset + nbPageItems - 1),
            hasPreviousPage |-> precededBy(offset),
            hasNextPage |->
              followedBy(offset, totalItems, firstResult, maxResults)]

-----------------------------------------------------------------------------
(* The Hydra PartialCollectionViewNormalizer: the page of each link.       *)

NoLinks == [next |-> Null, previous |-> Null, last |-> Null]

linkTo(condition, page) == IF condition THEN page ELSE Null

(* Without a total, a full page is taken for a page that is not the last.  *)
partialLinks(pageTotalItems, firstResult, maxResults) ==
  LET current == getCurrentPage(firstResult, maxResults)
  IN  [next |-> linkTo(pageTotalItems >= maxResults, current + 1),
       previous |-> linkTo(current # 1, current - 1),
       last |-> Null]

(* Fault: the first page has a previous one.                               *)
linksBothWays(totalItems, firstResult, maxResults) ==
  LET current == getCurrentPage(firstResult, maxResults)
      last == getLastPage(totalItems, maxResults)
  IN  [next |-> linkTo(current < last, current + 1),
       previous |-> current - 1,
       last |-> last]

links(totalItems, firstResult, maxResults) ==
  LET current == getCurrentPage(firstResult, maxResults)
      last == getLastPage(totalItems, maxResults)
  IN  IF last = 1 THEN NoLinks
      ELSE [next |-> linkTo(current < last, current + 1),
            previous |-> linkTo(current # 1, current - 1),
            last |-> last]
=============================================================================
