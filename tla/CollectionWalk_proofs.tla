------------------------ MODULE CollectionWalk_proofs ------------------------
(***************************************************************************)
(* What a walk sees of a collection, proved for every collection, limit,   *)
(* style of walk and number of changes.                                    *)
(***************************************************************************)
EXTENDS CollectionWalk, SortedSets_proofs

(* Every page may hold an item. Pages of 0 items have no end.              *)
PagesHoldItems == ItemsPerPage > 0 /\ MaximumItemsPerPage # 0

Forth == {"pages", "partial", "numbered", "forward", "edges"}

Running == walk.pc \notin {"done", "rejected"}
Asked == walk.pc \in {"total", "slice", "answer"}

(* The slice of the request has been read.                                 *)
Taken ==
  walk.pc = "answer" \/ (walk.pc = "total" /\ ~totalComesFirst(walk.style))

Begin == getOffset(isGraphQl(walk.style), walk.args, walk.count)
Limit == getLimit(isGraphQl(walk.style), walk.args)

-----------------------------------------------------------------------------
(* The arithmetic of pages.                                                *)

(* The limits that a number of items per page and a number of edges become.*)
PageLimit(size) == IF ClientItemsPerPage THEN Capped(size) ELSE ItemsPerPage
EdgeLimit(size) == IF ClientItemsPerPage THEN Capped(size) ELSE size

(* What a client of each style sends.                                      *)
ArgsOf(style, size, a) ==
  /\ a \in Args
  /\ style \notin {"forward", "edges"} => a.first = Null /\ a.after = Null
  /\ style # "backward" => a.last = Null /\ a.before = Null
  /\ style # "field" => a.gt = Null
  /\ IF style \in {"forward", "edges", "backward"}
     THEN a.page = Null /\ a.itemsPerPage = Null
     ELSE a.itemsPerPage = size
  /\ style \in {"partial", "back"} => a.page \in (Nat \ {0}) \cup {Null}
  /\ style \in {"pages", "numbered"} => a.page \in Int
  /\ style = "field" => a.page = Null /\ a.gt \in Nat \cup {Null}
  /\ style = "edges" => a.first = size /\ a.after \in Nat \cup {Null}
  /\ style = "forward" =>
       /\ a.first \in Sizes
       /\ \/ a.after = Null /\ a.first = size
          \/ a.after \in Nat /\ a.first > 0
  /\ style = "backward" =>
       /\ a.last \in Sizes /\ mayAsk("backward", a.last)
       /\ \/ a.before = Null /\ a.last = size
          \/ a.before \in Nat \ {0} /\ a.last > 0

(* The maximum caps a limit, and never to 0.                               *)
LEMMA CappedIs ==
  ASSUME NEW n \in Int
  PROVE  /\ Capped(n) \in Int /\ Capped(n) <= n
         /\ MaximumItemsPerPage # 0 /\ n # 0 => Capped(n) # 0
         /\ MaximumItemsPerPage # 0 /\ n > 0 => Capped(n) > 0
         /\ \A m \in Int : m <= n /\ Capped(n) = n => Capped(m) = m
  BY PaginationAssumption DEF Capped

(* The limit and the offset of the requests of each style.                 *)
LEMMA LimitIs ==
  ASSUME NEW style \in AllStyles, NEW size \in Sizes, NEW a,
         ArgsOf(style, size, a)
  PROVE  /\ style \in {"pages", "back", "partial", "field", "numbered"} =>
              getLimit(isGraphQl(style), a) = PageLimit(size)
         /\ style \in {"forward", "edges"} =>
              getLimit(isGraphQl(style), a) = EdgeLimit(a.first)
         /\ style = "backward" =>
              getLimit(isGraphQl(style), a) =
                IF a.before # Null /\ a.before < a.last THEN a.before ELSE a.last
         /\ getLimit(isGraphQl(style), a) \in Int
<1>1. size \in Int /\ Sizes \subseteq Int
  BY WalkAssumption
<1>2. Null \notin Int /\ ItemsPerPage \in Int
  BY PaginationAssumption
<1> USE DEF ArgsOf, getLimit, getParameterFromContext, isGraphQl
<1>3. CASE style \in {"pages", "back", "partial", "field", "numbered"}
  BY <1>1, <1>2, <1>3, CappedIs DEF CutToBefore, PageLimit
<1>4. CASE style \in {"forward", "edges"}
  <2>1. a.first \in Int /\ a.first # Null /\ a.itemsPerPage = Null
        /\ a.last = Null /\ a.before = Null
    BY <1>1, <1>2, <1>4
  <2> QED
    BY <1>2, <1>4, <2>1, CappedIs DEF CutToBefore, EdgeLimit
<1>5. CASE style = "backward"
  <2>1. a.last \in Int /\ a.last # Null /\ a.itemsPerPage = Null
        /\ (a.before = Null \/ a.before \in Nat) /\ Capped(a.last) = a.last
    BY <1>1, <1>2, <1>5 DEF mayAsk
  <2> DEFINE l == IF a.before # Null /\ a.before < a.last THEN a.before ELSE a.last
  <2>2. CutToBefore(a.last, a) = l
    BY <1>2, <2>1 DEF CutToBefore
  <2>3. l \in Int /\ l <= a.last
    BY <1>2, <2>1
  <2>4. Capped(l) = l
    BY <2>1, <2>3, CappedIs
  <2>5. getLimit(TRUE, a) = l
    BY <2>1, <2>2, <2>4
  <2> QED
    BY <1>5, <2>3, <2>5
<1> QED
  BY <1>3, <1>4, <1>5 DEF AllStyles

(* The four cases of the offset.                                           *)
LEMMA OffsetCases ==
  ASSUME NEW a, NEW count, NEW g \in BOOLEAN
  PROVE  /\ g /\ a.after # Null => getOffset(g, a, count) = a.after + 1
         /\ g /\ a.after = Null /\ a.before # Null =>
              getOffset(g, a, count) = AtLeastZero(a.before - getLimit(g, a))
         /\ g /\ a.after = Null /\ a.before = Null /\ a.last # Null =>
              getOffset(g, a, count) = AtLeastZero(count - a.last)
         /\ ~g \/ (a.after = Null /\ a.before = Null /\ a.last = Null) =>
              getOffset(g, a, count) = (getPage(a) - 1) * getLimit(g, a)
  BY Zenon DEF getOffset

(* The offset of the requests of each style.                               *)
LEMMA OffsetIs ==
  ASSUME NEW style \in AllStyles, NEW size \in Sizes, NEW a, NEW count \in Nat,
         ArgsOf(style, size, a)
  PROVE  LET offset == getOffset(isGraphQl(style), a, count)
         IN  /\ style \in {"pages", "back", "partial", "field", "numbered"} =>
                  offset = (getPage(a) - 1) * PageLimit(size)
             /\ style \in {"forward", "edges"} =>
                  offset = IF a.after = Null THEN 0 ELSE a.after + 1
             /\ style = "backward" =>
                  offset = IF a.before = Null THEN AtLeastZero(count - a.last)
                           ELSE AtLeastZero(a.before - a.last)
             /\ getPage(a) \in Int /\ offset \in Int
<1>1. size \in Int /\ Sizes \subseteq Int
  BY WalkAssumption
<1>2. Null \notin Int
  BY PaginationAssumption
<1> DEFINE l == getLimit(isGraphQl(style), a)
           offset == getOffset(isGraphQl(style), a, count)
<1>3. l \in Int
  BY LimitIs
<1>4. getPage(a) \in Int
  BY <1>1, <1>2 DEF ArgsOf, Args, getPage, getParameterFromContext
<1>5. CASE style \in {"pages", "back", "partial", "field", "numbered"}
  <2>1. l = PageLimit(size)
    BY <1>5, LimitIs
  <2>2. offset = (getPage(a) - 1) * l
    <3>1. isGraphQl(style) \in BOOLEAN
      BY DEF isGraphQl
    <3>2. ~isGraphQl(style) \/ (a.after = Null /\ a.before = Null /\ a.last = Null)
      BY <1>5 DEF ArgsOf, isGraphQl
    <3> QED
      BY <3>1, <3>2, OffsetCases
  <2>3. offset \in Int
    BY <1>3, <1>4, <2>2
  <2> QED
    BY <1>4, <1>5, <2>1, <2>2, <2>3
<1>6. CASE style \in {"forward", "edges"}
  <2>1. /\ a.page = Null /\ a.last = Null /\ a.before = Null
        /\ a.after = Null \/ a.after \in Nat
        /\ isGraphQl(style) = TRUE
    BY <1>6 DEF ArgsOf, isGraphQl
  <2>2. getPage(a) = 1
    BY <2>1 DEF getPage, getParameterFromContext
  <2>3. a.after = Null => offset = (1 - 1) * l
    BY <2>1, <2>2, OffsetCases
  <2>4. (1 - 1) * l = 0
    BY <1>3
  <2>5. a.after # Null => offset = a.after + 1
    BY <2>1, OffsetCases
  <2>6. offset = IF a.after = Null THEN 0 ELSE a.after + 1
    BY <2>3, <2>4, <2>5
  <2> HIDE DEF offset
  <2>7. offset \in Int
    BY <2>1, <2>6
  <2> QED
    BY <1>4, <1>6, <2>6, <2>7 DEF offset
<1>7. CASE style = "backward"
  <2>1. /\ a.after = Null /\ a.last \in Int /\ a.last # Null /\ isGraphQl(style) = TRUE
        /\ a.before = Null \/ (a.before \in Nat /\ a.before # Null)
    BY <1>1, <1>2, <1>7 DEF ArgsOf, isGraphQl
  <2>2. a.before = Null => offset = AtLeastZero(count - a.last)
    BY <2>1, OffsetCases
  <2>3. a.before # Null => offset = AtLeastZero(a.before - l)
    BY <2>1, OffsetCases
  <2>4. a.before # Null => l = IF a.before < a.last THEN a.before ELSE a.last
    BY <1>7, LimitIs
  <2>5. a.before # Null => offset = AtLeastZero(a.before - a.last)
    <3> HIDE DEF l, offset
    <3>1. CASE a.before # Null /\ a.before < a.last
      <4>1. l = a.before /\ a.before - l = 0 /\ a.before - a.last < 0
        BY <2>1, <2>4, <3>1
      <4> QED
        BY <2>3, <3>1, <4>1 DEF AtLeastZero
    <3>2. CASE a.before # Null /\ ~(a.before < a.last)
      BY <2>1, <2>3, <2>4, <3>2 DEF AtLeastZero
    <3> QED
      BY <3>1, <3>2
  <2>6. AtLeastZero(count - a.last) \in Int
        /\ (a.before # Null => AtLeastZero(a.before - a.last) \in Int)
    BY <2>1 DEF AtLeastZero
  <2> QED
    BY <1>4, <1>7, <2>2, <2>5, <2>6
<1> QED
  BY <1>5, <1>6, <1>7 DEF AllStyles

(* A product, a quotient and a remainder.                                  *)
LEMMA Division ==
  ASSUME NEW x \in Nat, NEW l \in Nat \ {0}
  PROVE  /\ x \div l \in Nat /\ x % l \in Nat
         /\ x = l * (x \div l) + (x % l)
         /\ l * (x \div l) <= x /\ x < l * (x \div l) + l
  OBVIOUS

(* The current page is a page, and the one whose offset is asked for.      *)
LEMMA CurrentPage ==
  ASSUME NEW offset \in Nat, NEW limit \in Nat
  PROVE  /\ getCurrentPage(offset, limit) \in Nat \ {0}
         /\ \A p \in Nat \ {0} : limit # 0 /\ offset = (p - 1) * limit =>
              getCurrentPage(offset, limit) = p
<1>1. getCurrentPage(offset, limit) \in Nat \ {0}
  BY Division DEF getCurrentPage
<1>2. ASSUME NEW p \in Nat \ {0}, limit # 0, offset = (p - 1) * limit
      PROVE  getCurrentPage(offset, limit) = p
  <2> DEFINE q == p - 1
  <2>1. q \in Nat /\ offset = q * limit
    BY <1>2
  <2>2. (q * limit) \div limit = q
    <3> HIDE DEF q
    <3> QED
      BY <1>2, <2>1
  <2>3. offset \div limit = q
    BY <2>1, <2>2
  <2> QED
    BY <1>2, <2>3 DEF getCurrentPage
<1> QED
  BY <1>1, <1>2

(* A page is before the last if its end is before the end of the items.    *)
LEMMA LastPage ==
  ASSUME NEW total \in Nat, NEW limit \in Nat
  PROVE  /\ getLastPage(total, limit) \in Nat \ {0}
         /\ \A p \in Nat \ {0} : limit # 0 =>
              (p < getLastPage(total, limit) <=> p * limit < total)
<1>1. CASE limit = 0
  BY <1>1 DEF getLastPage
<1>2. CASE limit # 0 /\ total = 0
  <2>1. getLastPage(total, limit) = 1
    BY <1>2 DEF getLastPage
  <2>2. ASSUME NEW p \in Nat \ {0} PROVE ~(p * limit < total)
    BY <1>2
  <2> QED
    BY <2>1, <2>2
<1>3. CASE limit # 0 /\ total # 0
  <2> DEFINE x == total + limit - 1
             q == x \div limit
  <2>1. x \in Nat /\ x >= limit /\ limit \in Nat \ {0}
    BY <1>3
  <2>2. getLastPage(total, limit) = q
    BY <1>3 DEF getLastPage
  <2>3. q \in Nat /\ limit * q <= x /\ x < limit * q + limit
    <3> HIDE DEF x
    <3> QED
      BY <2>1, Division
  <2>4. x = total + limit - 1
    OBVIOUS
  <2> HIDE DEF q, x
  <2>5. q # 0
    BY <2>1, <2>3
  <2>6. ASSUME NEW p \in Nat \ {0} PROVE p < q <=> p * limit < total
    <3>1. limit * (p + 1) = p * limit + limit /\ p * limit \in Nat
      BY <2>1
    <3>2. p < q => limit * (p + 1) <= limit * q
      BY <2>1, <2>3
    <3>3. ~(p < q) => limit * q <= p * limit
      BY <2>1, <2>3
    <3> DEFINE u == p * limit
               v == limit * q
               r == limit * (p + 1)
    <3>4. v \in Nat
      BY <2>1, <2>3
    <3> HIDE DEF u, v, r
    <3>5. /\ u \in Nat /\ v \in Nat /\ r = u + limit
          /\ (p < q => r <= v) /\ (~(p < q) => v <= u)
          /\ v <= x /\ x < v + limit
      BY <2>3, <3>1, <3>2, <3>3, <3>4 DEF u, v, r
    <3>6. p < q <=> u < total
      BY <1>3, <2>1, <2>4, <3>5
    <3> QED
      BY <3>6 DEF u
  <2> QED
    BY <2>2, <2>3, <2>5, <2>6
<1> QED
  BY <1>1, <1>2, <1>3

(* A page is followed by another when items are left behind it.            *)
LEMMA FollowedBy ==
  ASSUME NEW x \in Nat, NEW limit \in Nat \ {0}, NEW total \in Nat
  PROVE  followedBy(x, total, x, limit) <=> x + limit < total
<1> DEFINE q == x \div limit
           r == x % limit
<1>1. q \in Nat /\ r \in Nat /\ x = limit * q + r
  BY Division
<1>2. followedBy(x, total, x, limit) <=> r + limit * (q + 1) < total
  BY DEF followedBy, getCurrentPage
<1> HIDE DEF q, r
<1>3. limit * (q + 1) = limit * q + limit /\ limit * q \in Nat
  BY <1>1
<1> QED
  BY <1>1, <1>2, <1>3

(* The links of page p, of n items, in a view with and one without total.  *)
LinksOfPage(view, part, p, n, limit, total) ==
  /\ view.next # Null <=> p * limit < total
  /\ view.next # Null => view.next = p + 1
  /\ part.next # Null <=> n >= limit
  /\ part.next # Null => part.next = p + 1
  /\ view.last # Null <=> limit < total
  /\ view.last # Null =>
       view.last # 1 /\ (view.last - 1) * limit < total
                     /\ total <= view.last * limit
  /\ view.previous # Null <=> limit < total /\ p # 1
  /\ view.previous # Null => view.previous = p - 1

ViewOf(view, part, current, last, n, limit) ==
  /\ current \in Nat \ {0} /\ last \in Nat \ {0}
  /\ view.next = IF last # 1 /\ current < last THEN current + 1 ELSE Null
  /\ view.previous = IF last # 1 /\ current # 1 THEN current - 1 ELSE Null
  /\ view.last = IF last # 1 THEN last ELSE Null
  /\ part.next = IF n >= limit THEN current + 1 ELSE Null

(* The links by the current and the last page.                             *)
LEMMA ViewIs ==
  ASSUME NEW total \in Nat, NEW n \in Nat, NEW offset \in Nat, NEW limit \in Nat
  PROVE  ViewOf(links(total, offset, limit), partialLinks(n, offset, limit),
                getCurrentPage(offset, limit), getLastPage(total, limit), n, limit)
<1> DEFINE current == getCurrentPage(offset, limit)
           last == getLastPage(total, limit)
           view == links(total, offset, limit)
<1>1. current \in Nat \ {0} /\ last \in Nat \ {0}
  BY CurrentPage, LastPage
<1>2. /\ view.next = IF last # 1 /\ current < last THEN current + 1 ELSE Null
      /\ view.previous = IF last # 1 /\ current # 1 THEN current - 1 ELSE Null
      /\ view.last = IF last # 1 THEN last ELSE Null
  <2> HIDE DEF current, last
  <2> QED
    BY DEF links, linkTo, NoLinks, current, last
<1>3. partialLinks(n, offset, limit).next = IF n >= limit THEN current + 1 ELSE Null
  BY DEF partialLinks, linkTo
<1> QED
  BY <1>1, <1>2, <1>3 DEF ViewOf

(* A link names a page or is missing.                                      *)
LEMMA LinksAre ==
  ASSUME NEW total \in Nat, NEW n \in Nat, NEW offset \in Nat, NEW limit \in Nat
  PROVE  LET view == links(total, offset, limit)
             pages == (Nat \ {0}) \cup {Null}
         IN  /\ view.next \in pages /\ view.previous \in pages
             /\ view.last \in pages
             /\ partialLinks(n, offset, limit).next \in pages
<1> DEFINE current == getCurrentPage(offset, limit)
           last == getLastPage(total, limit)
           view == links(total, offset, limit)
           part == partialLinks(n, offset, limit)
<1>1. ViewOf(view, part, current, last, n, limit)
  BY ViewIs
<1> HIDE DEF current, last, view, part
<1>2. /\ view.next \in (Nat \ {0}) \cup {Null}
      /\ view.previous \in (Nat \ {0}) \cup {Null}
      /\ view.last \in (Nat \ {0}) \cup {Null}
      /\ part.next \in (Nat \ {0}) \cup {Null}
  BY <1>1 DEF ViewOf
<1> QED
  BY <1>2 DEF view, part

(* The links of the page p.                                                *)
LEMMA LinksOfPageAre ==
  ASSUME NEW total \in Nat, NEW n \in Nat, NEW offset \in Nat,
         NEW limit \in Nat \ {0}, NEW p \in Nat \ {0},
         offset = (p - 1) * limit
  PROVE  LinksOfPage(links(total, offset, limit), partialLinks(n, offset, limit),
                     p, n, limit, total)
<1> DEFINE current == getCurrentPage(offset, limit)
           last == getLastPage(total, limit)
           view == links(total, offset, limit)
           part == partialLinks(n, offset, limit)
<1>a. ViewOf(view, part, current, last, n, limit)
  BY ViewIs
<1> HIDE DEF current, last, view, part
<1>0. /\ Null \notin Int /\ current \in Nat \ {0} /\ last \in Nat \ {0}
      /\ view.next = IF last # 1 /\ current < last THEN current + 1 ELSE Null
      /\ view.previous = IF last # 1 /\ current # 1 THEN current - 1 ELSE Null
      /\ view.last = IF last # 1 THEN last ELSE Null
      /\ part.next = IF n >= limit THEN current + 1 ELSE Null
  BY <1>a, PaginationAssumption DEF ViewOf
<1>1. current = p
  BY CurrentPage DEF current
<1>2. \A k \in Nat \ {0} : k < last <=> k * limit < total
  BY LastPage DEF last
<1>3. p < last <=> p * limit < total
  BY <1>2
<1>4. last # 1 <=> limit < total
  <2>1. 1 < last <=> 1 * limit < total
    BY <1>2
  <2>2. 1 * limit = limit
    OBVIOUS
  <2> QED
    BY <1>0, <2>1, <2>2
<1>5. last # 1 => (last - 1) * limit < total
  <2> SUFFICES ASSUME last # 1 PROVE (last - 1) * limit < total
    OBVIOUS
  <2> DEFINE k == last - 1
  <2>1. k \in Nat \ {0} /\ k < last
    BY <1>0
  <2> HIDE DEF k
  <2>2. k * limit < total
    BY <1>2, <2>1
  <2> QED
    BY <2>2 DEF k
<1>6. total <= last * limit
  <2>1. ~(last * limit < total)
    BY <1>0, <1>2
  <2>2. last * limit \in Nat
    BY <1>0
  <2> QED
    BY <2>1, <2>2
<1>7. p < last => last # 1
  BY <1>0
<1> QED
  BY <1>0, <1>1, <1>3, <1>4, <1>5, <1>6, <1>7
     DEF LinksOfPage, view, part

-----------------------------------------------------------------------------
(* Types.                                                                  *)

WalkType ==
  [pc : {"addCount", "paginate", "slice", "total", "answer", "done",
         "rejected"},
   style : Styles, size : Sizes, args : Args, first : Args, count : Nat,
   offset : Nat, limit : Nat, total : Nat, page : Seq(Items),
   seen : Seq(Items)]

(* What a walk remembers of its request and has room for.                  *)
Typed ==
  /\ TypeOK
  /\ ArgsOf(walk.style, walk.size, walk.args)
  /\ Running /\ ~Taken => walk.page = <<>>
  /\ walk.pc = "addCount" \/ walk.style # "backward" => walk.count = 0
  /\ Asked => /\ walk.offset = Begin /\ walk.limit = Limit
              /\ getPage(walk.args) >= 1
  /\ walk.total <= Cardinality(Items) /\ walk.count <= Cardinality(Items)
  /\ walk.page # <<>> => walk.offset + Len(walk.page) <= Cardinality(Items)
  /\ walk.pc = "total" =>
       walk.style \in {"pages", "back", "numbered", "forward", "backward"}
  /\ walk.pc = "done" /\ walk.style \in {"pages", "numbered"} =>
       walk.limit = PageLimit(walk.size)

(* The fields of a walk that a step changes.                               *)
SameWalk ==
  /\ walk'.style = walk.style /\ walk'.size = walk.size
  /\ walk'.first = walk.first
SameItems == items' = items /\ steady' = steady /\ changes' = changes

(* What asking for another page leaves the walk with.                      *)
LEMMA AskIs ==
  ASSUME walk \in WalkType, NEW a \in Args, NEW s \in Seq(Items), Ask(a, s)
  PROVE  /\ walk' \in WalkType /\ SameWalk /\ SameItems
         /\ walk'.pc = "addCount" /\ walk'.args = a /\ walk'.seen = s
         /\ walk'.page = <<>> /\ walk'.count = 0 /\ walk'.total = 0
         /\ walk'.offset = 0 /\ walk'.limit = 0
<1>1. <<>> \in Seq(Items)
  BY EmptySeq
<1> QED
  BY <1>1 DEF Ask, Advance, WalkType, SameWalk, SameItems

(* What ending it leaves the walk with.                                    *)
LEMMA StopIs ==
  ASSUME walk \in WalkType, NEW s \in Seq(Items), Stop(s)
  PROVE  /\ walk' \in WalkType /\ SameWalk /\ SameItems
         /\ walk'.pc = "done" /\ walk'.args = walk.args /\ walk'.seen = s
         /\ walk'.page = walk.page /\ walk'.count = walk.count
         /\ walk'.total = walk.total
         /\ walk'.offset = walk.offset /\ walk'.limit = walk.limit
  BY DEF Stop, Advance, WalkType, SameWalk, SameItems

(* The collection is finite, and no larger than what it is taken from.     *)
LEMMA ItemsAreFinite ==
  ASSUME TypeOK
  PROVE  /\ Items \in SUBSET Nat /\ IsFiniteSet(Items)
         /\ items \in SUBSET Nat /\ IsFiniteSet(items)
         /\ IsFiniteSet(steady) /\ steady \subseteq items
         /\ Cardinality(items) \in Nat /\ Cardinality(Items) \in Nat
         /\ Cardinality(items) <= Cardinality(Items)
         /\ walk \in WalkType
<1>1. Items \in SUBSET Nat /\ IsFiniteSet(Items)
  BY WalkAssumption
<1>2. items \subseteq Items /\ steady \subseteq items /\ walk \in WalkType
  BY DEF TypeOK, WalkType
<1>3. items \in SUBSET Nat
  BY <1>1, <1>2
<1>4. /\ IsFiniteSet(items) /\ Cardinality(items) \in Nat
      /\ Cardinality(Items) \in Nat /\ Cardinality(items) <= Cardinality(Items)
  BY <1>1, <1>2, NoMore
<1>5. IsFiniteSet(steady)
  BY <1>2, <1>4, NoMore
<1> QED
  BY <1>1, <1>2, <1>3, <1>4, <1>5

(* The slice of a query is a band of the collection.                       *)
LEMMA SliceIs ==
  ASSUME NEW S \in SUBSET Nat, IsFiniteSet(S), NEW o \in Nat, NEW l \in Nat
  PROVE  /\ Slice(S, o, l) = Band(S, o, o + l)
         /\ Slice(S, o, l) \in Seq(S) /\ Len(Slice(S, o, l)) \in Nat
         /\ Len(Slice(S, o, l)) <= l
         /\ Slice(S, o, l) # <<>> => o + Len(Slice(S, o, l)) <= Cardinality(S)
         /\ Len(Slice(S, o, l)) < l => o + Len(Slice(S, o, l)) >= Cardinality(S)
<1> DEFINE c == Cardinality(S)
           m == o + l
           t == Band(S, o, m)
<1>1. c \in Nat
  BY FS_CardinalityType
<1>0. m \in Nat /\ m = o + l
  OBVIOUS
<1>2. Min({m, c}) = IF m < c THEN m ELSE c
  BY <1>0, <1>1 DEF Min
<1>3. Slice(S, o, l) = t
  BY <1>2 DEF Slice, Band
<1> HIDE DEF m
<1>4. t \in Seq(S) /\ Len(t) = IF o < (IF m < c THEN m ELSE c)
                              THEN (IF m < c THEN m ELSE c) - o ELSE 0
  BY <1>0, BandIs
<1> HIDE DEF t
<1>5. Len(t) \in Nat /\ (t # <<>> => Len(t) # 0)
  BY <1>4, LenProperties, EmptySeq
<1> QED
  BY <1>0, <1>1, <1>3, <1>4, <1>5 DEF t

(* The steps of the server.                                                *)
LEMMA CountIs ==
  ASSUME Typed, addCountToContext
  PROVE  /\ walk' \in WalkType /\ SameWalk /\ SameItems
         /\ walk.pc = "addCount" /\ walk'.pc = "paginate"
         /\ walk'.args = walk.args /\ walk'.seen = walk.seen
         /\ walk'.page = walk.page /\ walk'.total = walk.total
         /\ walk'.offset = walk.offset /\ walk'.limit = walk.limit
         /\ walk'.count \in Nat /\ walk'.count <= Cardinality(Items)
         /\ IF walk.style = "backward" /\ walk.args.before = Null
            THEN walk'.count = Cardinality(items) ELSE walk'.count = 0
<1>1. /\ Cardinality(items) \in Nat /\ Cardinality(items) <= Cardinality(Items)
      /\ Cardinality(Items) \in Nat /\ walk \in WalkType
  BY ItemsAreFinite DEF Typed
<1> DEFINE counts == isGraphQl(walk.style) /\ walk.args.last # Null
                       /\ walk.args.before = Null
           n == IF counts THEN Cardinality(items) ELSE 0
<1>2. walk' = [walk EXCEPT !.pc = "paginate", !.count = n] /\ SameItems /\ walk.pc = "addCount"
  BY DEF addCountToContext, Advance, SameItems
<1>3. counts <=> walk.style = "backward" /\ walk.args.before = Null
  <2>1. walk.style # "backward" => walk.args.last = Null
    BY DEF Typed, ArgsOf
  <2>2. walk.style = "backward" => walk.args.last \in Int /\ walk.args.last # Null
    BY WalkAssumption, PaginationAssumption DEF Typed, ArgsOf
  <2> QED
    BY <2>1, <2>2 DEF isGraphQl
<1>4. /\ n \in Nat /\ n <= Cardinality(Items)
      /\ IF walk.style = "backward" /\ walk.args.before = Null
         THEN n = Cardinality(items) ELSE n = 0
  <2> HIDE DEF counts
  <2> QED
    BY <1>1, <1>3
<1> HIDE DEF n
<1> QED
  BY <1>1, <1>2, <1>4 DEF WalkType, SameWalk

(* What getPagination does to the walk.                                    *)
LEMMA PaginateIs ==
  ASSUME Typed, getPagination
  PROVE  /\ walk' \in WalkType /\ SameWalk /\ SameItems
         /\ walk.pc = "paginate" /\ walk'.pc \in {"rejected", "slice", "total"}
         /\ walk'.args = walk.args /\ walk'.seen = walk.seen
         /\ walk'.page = walk.page /\ walk'.total = walk.total
         /\ walk'.count = walk.count
         /\ walk'.pc = "rejected" <=>
              isInvalid(isGraphQl(walk.style), walk.args, walk.count)
         /\ walk'.pc # "rejected" =>
              /\ walk'.offset = Begin /\ walk'.limit = Limit
              /\ Begin \in Nat /\ Limit \in Nat /\ getPage(walk.args) >= 1
              /\ walk'.pc = "total" <=> totalComesFirst(walk.style)
         /\ walk'.pc = "rejected" =>
              walk'.offset = walk.offset /\ walk'.limit = walk.limit
<1>1. /\ walk \in WalkType /\ walk.style \in AllStyles /\ walk.size \in Sizes
      /\ walk.count \in Nat
  BY ItemsAreFinite, WalkAssumption DEF Typed, WalkType
<1>2. ArgsOf(walk.style, walk.size, walk.args) /\ walk.pc = "paginate"
  BY DEF Typed, getPagination
<1> DEFINE a == walk.args
           gq == isGraphQl(walk.style)
           invalid == isInvalid(gq, a, walk.count)
           first == IF totalComesFirst(walk.style) THEN "total" ELSE "slice"
<1>3. Begin \in Int /\ Limit \in Int /\ getPage(a) \in Int
  <2>1. Limit \in Int
    BY <1>1, <1>2, LimitIs DEF Limit
  <2>2. Begin \in Int /\ getPage(a) \in Int
    BY <1>1, <1>2, OffsetIs DEF Begin
  <2> QED
    BY <2>1, <2>2
<1>4. ~invalid => getPage(a) >= 1 /\ Limit >= 0
  BY <1>3 DEF isInvalid, Limit
<1>5. ~invalid => Begin >= 0
  <2> SUFFICES ASSUME ~invalid PROVE Begin >= 0
    OBVIOUS
  <2>1. CASE walk.style \in {"pages", "back", "partial", "field", "numbered"}
    <3>1. Begin = (getPage(a) - 1) * PageLimit(walk.size)
      BY <1>1, <1>2, <2>1, OffsetIs DEF Begin
    <3>2. Limit = PageLimit(walk.size)
      BY <1>1, <1>2, <2>1, LimitIs DEF Limit
    <3> DEFINE p == getPage(a) - 1
               l == PageLimit(walk.size)
    <3>3. p \in Nat /\ l \in Nat
      BY <1>3, <1>4, <3>2
    <3> HIDE DEF p, l
    <3>4. p * l \in Nat
      BY <3>3
    <3> QED
      BY <3>1, <3>4 DEF p, l
  <2>2. CASE walk.style \in {"forward", "edges"}
    <3>1. Begin = IF a.after = Null THEN 0 ELSE a.after + 1
      BY <1>1, <1>2, <2>2, OffsetIs DEF Begin
    <3>2. a.after = Null \/ a.after \in Nat
      BY <1>2, <2>2 DEF ArgsOf
    <3> QED
      BY <3>1, <3>2
  <2>3. CASE walk.style = "backward"
    <3>1. Begin = IF a.before = Null THEN AtLeastZero(walk.count - a.last)
                  ELSE AtLeastZero(a.before - a.last)
      BY <1>1, <1>2, <2>3, OffsetIs DEF Begin
    <3> QED
      BY <1>3, <3>1 DEF AtLeastZero
  <2> QED
    BY <1>1, <2>1, <2>2, <2>3 DEF AllStyles
<1>6. \/ invalid /\ walk' = [walk EXCEPT !.pc = "rejected"] /\ SameItems
      \/ ~invalid /\ SameItems
           /\ walk' = [walk EXCEPT !.pc = first, !.offset = Begin, !.limit = Limit]
  BY DEF getPagination, Advance, SameItems, Begin, Limit
<1>7. first \in {"slice", "total"}
      /\ (first = "total" <=> totalComesFirst(walk.style))
  OBVIOUS
<1> HIDE DEF invalid, first
<1>8. CASE invalid /\ walk' = [walk EXCEPT !.pc = "rejected"] /\ SameItems
  BY <1>1, <1>2, <1>8 DEF WalkType, SameWalk, invalid
<1>9. CASE ~invalid /\ SameItems
        /\ walk' = [walk EXCEPT !.pc = first, !.offset = Begin, !.limit = Limit]
  <2>1. Begin \in Nat /\ Limit \in Nat /\ getPage(a) >= 1
    BY <1>3, <1>4, <1>5, <1>9
  <2> QED
    BY <1>1, <1>2, <1>7, <1>9, <2>1 DEF WalkType, SameWalk, invalid
<1> QED
  BY <1>6, <1>8, <1>9

(* What the query of the items does to the walk.                           *)
LEMMA IterateIs ==
  ASSUME Typed, getIterator
  PROVE  /\ walk' \in WalkType /\ SameWalk /\ SameItems
         /\ walk.pc = "slice"
         /\ walk'.pc = IF isCounted(walk.style) THEN "total" ELSE "answer"
         /\ walk'.args = walk.args /\ walk'.seen = walk.seen
         /\ walk'.total = walk.total /\ walk'.count = walk.count
         /\ walk'.offset = walk.offset /\ walk'.limit = walk.limit
         /\ walk'.page = Slice(filtered, walk.offset, walk.limit)
         /\ filtered \in SUBSET items
         /\ walk.style # "field" => filtered = items
         /\ walk'.page \in Seq(Items) /\ Len(walk'.page) <= walk.limit
         /\ walk'.page # <<>> =>
              walk.offset + Len(walk'.page) <= Cardinality(Items)
<1>1. /\ items \in SUBSET Nat /\ IsFiniteSet(items) /\ items \subseteq Items
      /\ walk \in WalkType
      /\ Cardinality(items) \in Nat /\ Cardinality(items) <= Cardinality(Items)
      /\ Cardinality(Items) \in Nat
  BY ItemsAreFinite DEF Typed, TypeOK
<1>2. walk.offset \in Nat /\ walk.limit \in Nat
  BY <1>1 DEF WalkType
<1>3. filtered \in SUBSET items
  BY DEF filtered
<1>4. walk.style # "field" => filtered = items
  BY DEF Typed, ArgsOf, filtered
<1>5. filtered \in SUBSET Nat /\ IsFiniteSet(filtered)
      /\ Cardinality(filtered) \in Nat /\ Cardinality(filtered) <= Cardinality(items)
  BY <1>1, <1>3, NoMore
<1> DEFINE p == Slice(filtered, walk.offset, walk.limit)
<1>6. p \in Seq(filtered) /\ Len(p) \in Nat /\ Len(p) <= walk.limit
      /\ (p # <<>> => walk.offset + Len(p) <= Cardinality(filtered))
  BY <1>2, <1>5, SliceIs
<1>7. walk' = [walk EXCEPT
                 !.pc = IF isCounted(walk.style) THEN "total" ELSE "answer",
                 !.page = p]
      /\ SameItems /\ walk.pc = "slice"
  BY DEF getIterator, Advance, SameItems
<1> HIDE DEF p
<1>8. p \in Seq(Items)
  <2>1. filtered \subseteq Items
    BY <1>1, <1>3
  <2> QED
    BY <1>6, <2>1, SeqOfMore
<1>9. p # <<>> => walk.offset + Len(p) <= Cardinality(Items)
  BY <1>1, <1>2, <1>5, <1>6
<1> QED
  BY <1>1, <1>3, <1>4, <1>6, <1>7, <1>8, <1>9 DEF WalkType, SameWalk, p

(* What the query of the total does to the walk.                           *)
LEMMA TotalIs ==
  ASSUME Typed, getTotalItems
  PROVE  /\ walk' \in WalkType /\ SameWalk /\ SameItems
         /\ walk.pc = "total"
         /\ walk'.pc = IF totalComesFirst(walk.style) THEN "slice" ELSE "answer"
         /\ walk'.args = walk.args /\ walk'.seen = walk.seen
         /\ walk'.page = walk.page /\ walk'.count = walk.count
         /\ walk'.offset = walk.offset /\ walk'.limit = walk.limit
         /\ walk'.total = Cardinality(items)
<1>1. /\ Cardinality(items) \in Nat /\ walk \in WalkType
  BY ItemsAreFinite DEF Typed
<1> QED
  BY <1>1 DEF getTotalItems, Advance, WalkType, SameWalk, SameItems

(* An insertion or a deletion changes one item, and not the walk.          *)
LEMMA ChangeIs ==
  ASSUME Typed, Insert \/ Delete
  PROVE  /\ walk' = walk /\ Running /\ changes' = changes + 1
         /\ changes' \in 0..MaxChanges
         /\ steady' = steady \cap items'
         /\ items' \subseteq Items
         /\ \E i \in Items : \/ i \notin items /\ items' = items \cup {i}
                             \/ i \in items /\ items' = items \ {i}
<1>1. \E i \in Items : \/ i \notin items /\ Change(items \cup {i})
                       \/ i \in items /\ Change(items \ {i})
  BY DEF Typed, TypeOK, Insert, Delete
<1>2. PICK i \in Items : \/ i \notin items /\ Change(items \cup {i})
                         \/ i \in items /\ Change(items \ {i})
  BY <1>1
<1>3. items \subseteq Items /\ changes \in 0..MaxChanges /\ MaxChanges \in Nat
  BY WalkAssumption DEF Typed, TypeOK
<1>4. /\ walk' = walk /\ Running /\ changes' = changes + 1
      /\ changes < MaxChanges /\ steady' = steady \cap items'
  BY <1>2 DEF Change, Running
<1>5. \/ i \notin items /\ items' = items \cup {i}
      \/ i \in items /\ items' = items \ {i}
  BY <1>2 DEF Change
<1> QED
  BY <1>3, <1>4, <1>5

-----------------------------------------------------------------------------
(* The steps of the client.                                                *)

(* Arguments that ask for another page of the same walk.                   *)
LEMMA WithPageIs ==
  ASSUME Typed, NEW p \in Nat \ {0},
         walk.style \in {"pages", "back", "partial", "numbered"}
  PROVE  /\ ArgsOf(walk.style, walk.size, WithPage(p))
         /\ getPage(WithPage(p)) = p
         /\ WithPage(p).page = p /\ WithPage(p) \in Args
<1>1. walk.args \in Args /\ ArgsOf(walk.style, walk.size, walk.args)
  BY DEF Typed, ArgsOf
<1>2. Null \notin Int
  BY PaginationAssumption
<1>3. /\ WithPage(p) \in Args /\ WithPage(p).page = p
      /\ WithPage(p).itemsPerPage = walk.args.itemsPerPage
      /\ WithPage(p).first = walk.args.first
      /\ WithPage(p).after = walk.args.after
      /\ WithPage(p).last = walk.args.last
      /\ WithPage(p).before = walk.args.before
      /\ WithPage(p).gt = walk.args.gt
  BY <1>1 DEF WithPage, Args
<1>4. getPage(WithPage(p)) = p
  BY <1>2, <1>3 DEF getPage, getParameterFromContext
<1> QED
  BY <1>1, <1>3, <1>4 DEF ArgsOf

(* At an answer the walk knows the place of its page.                      *)
LEMMA AnswerIs ==
  ASSUME Typed, walk.pc = "answer"
  PROVE  /\ walk.style \in AllStyles /\ walk.size \in Sizes /\ walk.size \in Int
         /\ walk.args \in Args /\ walk.count \in Nat /\ walk.total \in Nat
         /\ walk.offset \in Nat /\ walk.limit \in Nat
         /\ walk.page \in Seq(Items) /\ walk.seen \in Seq(Items)
         /\ Len(walk.page) \in Nat /\ Len(walk.page) <= walk.limit
         /\ walk.seen \o walk.page \in Seq(Items)
         /\ walk.page \o walk.seen \in Seq(Items)
         /\ walk.offset = Begin /\ walk.limit = Limit
         /\ getPage(walk.args) \in Nat \ {0}
         /\ walk.style \in {"pages", "back", "partial", "numbered"} =>
              walk.offset = (getPage(walk.args) - 1) * walk.limit
         /\ walk.style # "backward" => walk.count = 0
<1>1. walk \in WalkType /\ Len(walk.page) <= walk.limit
  BY ItemsAreFinite DEF Typed, TypeOK
<1>2. /\ walk.style \in AllStyles /\ walk.size \in Sizes /\ walk.args \in Args
      /\ walk.count \in Nat /\ walk.total \in Nat
      /\ walk.offset \in Nat /\ walk.limit \in Nat
      /\ walk.page \in Seq(Items) /\ walk.seen \in Seq(Items)
      /\ walk.size \in Int
  BY <1>1, WalkAssumption DEF WalkType
<1>3. ArgsOf(walk.style, walk.size, walk.args)
  BY DEF Typed
<1>4. /\ walk.offset = Begin /\ walk.limit = Limit /\ getPage(walk.args) >= 1
      /\ walk.style # "backward" => walk.count = 0
  BY DEF Typed, Asked
<1>5. getPage(walk.args) \in Int
  BY <1>2, <1>3, OffsetIs
<1>6. walk.style \in {"pages", "back", "partial", "numbered"} =>
        walk.offset = (getPage(walk.args) - 1) * walk.limit
  <2>1. walk.style \in {"pages", "back", "partial", "numbered"} =>
          /\ walk.offset = (getPage(walk.args) - 1) * PageLimit(walk.size)
          /\ walk.limit = PageLimit(walk.size)
    BY <1>2, <1>3, <1>4, OffsetIs, LimitIs DEF Begin, Limit
  <2> QED
    BY <2>1
<1>7. /\ Len(walk.page) \in Nat
      /\ walk.seen \o walk.page \in Seq(Items)
      /\ walk.page \o walk.seen \in Seq(Items)
  BY <1>2, LenProperties, ConcatProperties
<1> QED
  BY <1>1, <1>2, <1>4, <1>5, <1>6, <1>7

(* What a walk that goes forth asks for next, and why it stops: it goes on *)
(* behind its page, or further if the page was not full.                   *)
After == walk.seen \o walk.page
Behind == walk.offset + Len(walk.page)

Onward(a) ==
  /\ ArgsOf(walk.style, walk.size, a) /\ Ask(a, After)
  /\ walk.limit > 0 =>
       LET o == getOffset(isGraphQl(walk.style), a, 0)
       IN  /\ o \in Nat /\ o >= Behind
           /\ o = Behind \/ Len(walk.page) < walk.limit
           /\ o <= Cardinality(Items) /\ getPage(a) >= 1
           /\ PagesHoldItems => getLimit(isGraphQl(walk.style), a) > 0

AtEnd ==
  /\ Stop(After)
  /\ walk.limit > 0 =>
       \/ Len(walk.page) < walk.limit
       \/ /\ walk.style \in {"pages", "numbered", "forward"}
          /\ walk.total <= walk.offset + walk.limit

(* The next page begins where the page before it ends.                     *)
LEMMA NextPage ==
  ASSUME Typed, walk.pc = "answer", NEW a,
         walk.style \in {"pages", "partial", "numbered"},
         a = WithPage(getPage(walk.args) + 1)
  PROVE  /\ a \in Args /\ ArgsOf(walk.style, walk.size, a)
         /\ getOffset(isGraphQl(walk.style), a, 0) = walk.offset + walk.limit
         /\ getLimit(isGraphQl(walk.style), a) = walk.limit
         /\ getPage(a) = getPage(walk.args) + 1 /\ getPage(a) >= 1
         /\ getPage(walk.args) * walk.limit = walk.offset + walk.limit
<1> DEFINE p == getPage(walk.args)
           l == walk.limit
<1>1. p \in Nat \ {0} /\ l \in Nat /\ walk.offset = (p - 1) * l
      /\ walk.style \in AllStyles /\ walk.size \in Sizes
      /\ l = Limit
  BY AnswerIs
<1>2. p + 1 \in Nat \ {0}
  BY <1>1
<1>3. /\ ArgsOf(walk.style, walk.size, a) /\ getPage(a) = p + 1 /\ a \in Args
  BY <1>2, WithPageIs
<1>4. l = PageLimit(walk.size)
  BY <1>1, LimitIs DEF Typed, Limit
<1>5. getLimit(isGraphQl(walk.style), a) = l
  BY <1>1, <1>3, <1>4, LimitIs
<1>6. getOffset(isGraphQl(walk.style), a, 0) = (getPage(a) - 1) * PageLimit(walk.size)
  BY <1>1, <1>3, OffsetIs
<1>7. (p - 1) * l + l = p * l
  <2> HIDE DEF p, l
  <2> QED
    BY <1>1
<1>8. getPage(a) - 1 = p
  BY <1>1, <1>3
<1> QED
  BY <1>1, <1>3, <1>4, <1>5, <1>6, <1>7, <1>8

(* The link to the next page leads on, or there is none and the walk ends. *)
LEMMA FollowNextIs ==
  ASSUME Typed, FollowNext
  PROVE  /\ walk.pc = "answer" /\ walk.style \in {"pages", "partial"}
         /\ AtEnd \/ \E a \in Args : Onward(a)
<1> DEFINE p == getPage(walk.args)
           l == walk.limit
           n == Len(walk.page)
           view == IF walk.style = "partial"
                   THEN partialLinks(n, walk.offset, l)
                   ELSE links(walk.total, walk.offset, l)
           a == WithPage(view.next)
<1>1. walk.pc = "answer" /\ walk.style \in {"pages", "partial"}
  BY DEF FollowNext, Answered
<1>2. /\ p \in Nat \ {0} /\ l \in Nat /\ n \in Nat /\ n <= l
      /\ walk.offset \in Nat /\ walk.total \in Nat
      /\ walk.offset = (p - 1) * l
      /\ walk.total <= Cardinality(Items)
      /\ walk.page # <<>> => Behind <= Cardinality(Items)
      /\ Cardinality(Items) \in Nat
  BY <1>1, AnswerIs, ItemsAreFinite DEF Typed, Behind
<1>3. \/ view.next # Null /\ Ask(a, After)
      \/ view.next = Null /\ Stop(After)
  BY DEF FollowNext, After
<1>4. view.next \in (Nat \ {0}) \cup {Null}
  <2>1. /\ links(walk.total, walk.offset, l).next \in (Nat \ {0}) \cup {Null}
        /\ partialLinks(n, walk.offset, l).next \in (Nat \ {0}) \cup {Null}
    BY <1>2, LinksAre
  <2> QED
    BY <2>1
<1>5. l > 0 => /\ view.next # Null => view.next = p + 1
               /\ walk.style = "pages" => (view.next # Null <=> p * l < walk.total)
               /\ walk.style = "partial" => (view.next # Null <=> n >= l)
  <2> DEFINE whole == links(walk.total, walk.offset, l)
             part == partialLinks(n, walk.offset, l)
  <2>1. l > 0 => /\ whole.next # Null <=> p * l < walk.total
                 /\ whole.next # Null => whole.next = p + 1
                 /\ part.next # Null <=> n >= l
                 /\ part.next # Null => part.next = p + 1
    <3>1. ASSUME l > 0 PROVE LinksOfPage(whole, part, p, n, l, walk.total)
      <4> HIDE DEF p, l, n
      <4> QED
        <5>1. l \in Nat \ {0}
          BY <1>2, <3>1
        <5> QED
          BY <1>2, <5>1, LinksOfPageAre
    <3> QED
      BY <3>1 DEF LinksOfPage
  <2> HIDE DEF whole, part
  <2>2. view = IF walk.style = "partial" THEN part ELSE whole
    BY DEF whole, part
  <2> HIDE DEF view
  <2> QED
    BY <1>1, <2>1, <2>2
<1> HIDE DEF view
<1>6. CASE view.next = Null /\ Stop(After)
  <2>1. p * l = walk.offset + l
    <3> HIDE DEF p, l
    <3> QED
      BY <1>2
  <2>2. l > 0 /\ walk.style = "pages" => walk.total <= walk.offset + l
    BY <1>2, <1>5, <1>6, <2>1
  <2>3. l > 0 /\ walk.style = "partial" => n < l
    BY <1>2, <1>5, <1>6
  <2> QED
    BY <1>1, <1>6, <2>2, <2>3 DEF AtEnd
<1>7. CASE view.next # Null /\ Ask(a, After)
  <2>1. view.next \in Nat \ {0}
    BY <1>4, <1>7
  <2>2. ArgsOf(walk.style, walk.size, a) /\ a \in Args
    BY <1>1, <2>1, WithPageIs
  <2>3. ASSUME l > 0
        PROVE  LET o == getOffset(isGraphQl(walk.style), a, 0)
               IN  /\ o \in Nat /\ o >= Behind
                   /\ o = Behind \/ n < l
                   /\ o <= Cardinality(Items) /\ getPage(a) >= 1
                   /\ getLimit(isGraphQl(walk.style), a) > 0
    <3>1. a = WithPage(p + 1)
      BY <1>5, <1>7, <2>3
    <3> HIDE DEF a
    <3>2. /\ getOffset(isGraphQl(walk.style), a, 0) = walk.offset + l
          /\ getLimit(isGraphQl(walk.style), a) = l
          /\ getPage(a) >= 1 /\ p * l = walk.offset + l
      BY <1>1, <3>1, NextPage
    <3>3. walk.offset + l >= Behind /\ (walk.offset + l = Behind \/ n < l)
      BY <1>2 DEF Behind
    <3>4. walk.offset + l <= Cardinality(Items)
      <4>1. CASE walk.style = "pages"
        BY <1>2, <1>5, <1>7, <2>3, <3>2, <4>1
      <4>2. CASE walk.style = "partial"
        <5>1. n = l /\ n > 0
          BY <1>2, <1>5, <1>7, <2>3, <4>2
        <5>2. walk.page # <<>>
          BY <5>1
        <5> QED
          BY <1>2, <5>1, <5>2 DEF Behind
      <4> QED
        BY <1>1, <4>1, <4>2
    <3> QED
      BY <1>2, <2>3, <3>2, <3>3, <3>4
  <2> HIDE DEF a
  <2>4. Onward(a)
    BY <1>7, <2>2, <2>3 DEF Onward
  <2> QED
    BY <1>1, <2>2, <2>4
<1> QED
  BY <1>1, <1>3, <1>6, <1>7

(* A page number leads on, or it was that of the last page.                *)
LEMMA FollowNumberedIs ==
  ASSUME Typed, FollowNumbered
  PROVE  /\ walk.pc = "answer" /\ walk.style = "numbered"
         /\ AtEnd \/ \E a \in Args : Onward(a)
<1> DEFINE p == getPage(walk.args)
           l == walk.limit
           n == Len(walk.page)
           a == WithPage(p + 1)
           c == walk.total
<1>1. walk.pc = "answer" /\ walk.style = "numbered"
  BY DEF FollowNumbered, Answered
<1>2. /\ l \in Nat /\ n \in Nat /\ n <= l /\ walk.offset \in Nat
      /\ Cardinality(Items) \in Nat /\ c \in Nat /\ c <= Cardinality(Items)
  BY <1>1, AnswerIs, ItemsAreFinite DEF Typed
<1>3. \/ c > walk.offset + l /\ Ask(a, After)
      \/ ~(c > walk.offset + l) /\ Stop(After)
  BY DEF FollowNumbered, hasNextPage, After
<1>4. /\ getOffset(isGraphQl(walk.style), a, 0) = walk.offset + l
      /\ getLimit(isGraphQl(walk.style), a) = l
      /\ getPage(a) >= 1 /\ a \in Args /\ ArgsOf(walk.style, walk.size, a)
  BY <1>1, NextPage
<1> HIDE DEF a, c
<1>5. CASE c > walk.offset + l /\ Ask(a, After)
  <2>1. ASSUME l > 0
        PROVE  LET o == getOffset(isGraphQl(walk.style), a, 0)
               IN  /\ o \in Nat /\ o >= Behind
                   /\ o = Behind \/ n < l
                   /\ o <= Cardinality(Items) /\ getPage(a) >= 1
                   /\ getLimit(isGraphQl(walk.style), a) > 0
    BY <1>2, <1>4, <1>5, <2>1 DEF Behind
  <2>2. Onward(a)
    BY <1>4, <1>5, <2>1 DEF Onward
  <2> QED
    BY <1>1, <1>4, <2>2
<1>6. CASE ~(c > walk.offset + l) /\ Stop(After)
  BY <1>1, <1>2, <1>6 DEF AtEnd, c
<1> QED
  BY <1>1, <1>3, <1>5, <1>6

(* The cursor of the last item of a page.                                  *)
LEMMA ForwardInfo ==
  ASSUME Typed, walk.pc = "answer", walk.style = "forward"
  PROVE  LET x == walk.offset + Len(walk.page) - 1
         IN  /\ Info.hasNextPage \in BOOLEAN
             /\ walk.total = 0 => ~Info.hasNextPage
             /\ walk.limit > 0 =>
                  (Info.hasNextPage <=> walk.offset + walk.limit < walk.total)
             /\ walk.total # 0 =>
                  Info.endCursor = IF x < 0 THEN 0 ELSE x
<1> DEFINE t == walk.total
           a == walk.args
           n == Len(walk.page)
           cursor == cursorOffset(a, TRUE, n, t)
<1>1. /\ walk.offset \in Nat /\ walk.limit \in Nat /\ t \in Nat /\ n \in Nat
      /\ walk.style \in AllStyles /\ walk.size \in Sizes
      /\ ArgsOf(walk.style, walk.size, a) /\ walk.offset = Begin
      /\ walk.count \in Nat
  BY AnswerIs DEF Typed
<1>2. a.before = Null /\ a.last = Null /\ (a.after = Null \/ a.after \in Nat)
  BY <1>1 DEF ArgsOf
<1>3. walk.offset = IF a.after = Null THEN 0 ELSE a.after + 1
  BY <1>1, OffsetIs DEF Begin
<1>4. cursor = walk.offset
  <2>1. cursor = AtLeastZero(IF a.after # Null THEN a.after + 1 ELSE 0)
    BY <1>2, Zenon DEF cursorOffset
  <2> HIDE DEF cursor
  <2> QED
    BY <1>2, <1>3, <2>1 DEF AtLeastZero
<1>5. Info = IF t = 0 THEN NoPageInfo
             ELSE [startCursor |-> cursor,
                   endCursor |-> AtLeastZero(cursor + n - 1),
                   hasPreviousPage |-> precededBy(cursor),
                   hasNextPage |-> followedBy(cursor, t, walk.offset, walk.limit)]
  BY DEF Info, pageInfo
<1> HIDE DEF cursor
<1>6. t = 0 => Info.hasNextPage = FALSE
  BY <1>5 DEF NoPageInfo
<1>7. t # 0 =>
        /\ Info.hasNextPage = followedBy(walk.offset, t, walk.offset, walk.limit)
        /\ Info.endCursor = AtLeastZero(walk.offset + n - 1)
  BY <1>4, <1>5
<1>8. walk.limit > 0 =>
        (followedBy(walk.offset, t, walk.offset, walk.limit)
           <=> walk.offset + walk.limit < t)
  BY <1>1, FollowedBy
<1>9. followedBy(walk.offset, t, walk.offset, walk.limit) \in BOOLEAN
  BY DEF followedBy
<1>10. /\ Info.hasNextPage \in BOOLEAN
       /\ t = 0 => ~Info.hasNextPage
       /\ walk.limit > 0 => (Info.hasNextPage <=> walk.offset + walk.limit < t)
  <2>1. CASE t = 0
    <3>1. Info.hasNextPage = FALSE
      BY <1>6, <2>1
    <3>2. ~(walk.offset + walk.limit < t)
      BY <1>1, <2>1
    <3> QED
      BY <3>1, <3>2, Zenon
  <2>2. CASE t # 0
    BY <1>7, <1>8, <1>9, <2>2
  <2> QED
    BY <2>1, <2>2
<1>11. t # 0 => Info.endCursor = IF walk.offset + n - 1 < 0 THEN 0
                                 ELSE walk.offset + n - 1
  BY <1>7 DEF AtLeastZero
<1> QED
  BY <1>10, <1>11

(* A request without arguments.                                            *)
LEMMA NoArgsIs ==
  /\ NoArgs \in Args
  /\ NoArgs.page = Null /\ NoArgs.itemsPerPage = Null /\ NoArgs.first = Null
  /\ NoArgs.after = Null /\ NoArgs.last = Null /\ NoArgs.before = Null
  /\ NoArgs.gt = Null
  BY DEF NoArgs, Args

(* The end cursor leads on, or there is no next page.                      *)
LEMMA FollowForwardIs ==
  ASSUME Typed, FollowForward
  PROVE  /\ walk.pc = "answer" /\ walk.style = "forward"
         /\ AtEnd \/ \E a \in Args : Onward(a)
<1> DEFINE l == walk.limit
           n == Len(walk.page)
           t == walk.total
           x == walk.offset + n - 1
           cursor == IF x < 0 THEN 0 ELSE x
           a(size) == [NoArgs EXCEPT !.first = size, !.after = Info.endCursor]
<1>1. walk.pc = "answer" /\ walk.style = "forward"
  BY DEF FollowForward, Answered
<1>2. /\ l \in Nat /\ n \in Nat /\ n <= l /\ walk.offset \in Nat /\ t \in Nat
      /\ t <= Cardinality(Items) /\ Cardinality(Items) \in Nat
      /\ walk.page # <<>> => Behind <= Cardinality(Items)
      /\ walk.style \in AllStyles /\ walk.size \in Sizes
  BY <1>1, AnswerIs, ItemsAreFinite DEF Typed, Behind
<1>3. \/ Info.hasNextPage /\ \E size \in Positive : Ask(a(size), After)
      \/ ~Info.hasNextPage /\ Stop(After)
  BY DEF FollowForward, After
<1>4. /\ t = 0 => ~Info.hasNextPage
      /\ l > 0 => (Info.hasNextPage <=> walk.offset + l < t)
      /\ t # 0 => Info.endCursor = cursor
  BY <1>1, ForwardInfo
<1>5. CASE ~Info.hasNextPage /\ Stop(After)
  <2>1. l > 0 => t <= walk.offset + l
    BY <1>2, <1>4, <1>5
  <2> QED
    BY <1>1, <1>5, <2>1 DEF AtEnd
<1>6. CASE Info.hasNextPage /\ \E size \in Positive : Ask(a(size), After)
  <2>1. PICK size \in Positive : Ask(a(size), After)
    BY <1>6
  <2>2. Info.endCursor = cursor /\ cursor \in Nat /\ size \in Sizes /\ size > 0
        /\ size \in Int
    BY <1>2, <1>4, <1>6, WalkAssumption DEF Positive
  <2> DEFINE b == a(size)
  <2>3. /\ b \in Args /\ b.first = size /\ b.after = cursor /\ b.page = Null
        /\ b.itemsPerPage = Null /\ b.last = Null /\ b.before = Null /\ b.gt = Null
    <3>1. b = [NoArgs EXCEPT !.first = size, !.after = cursor]
      BY <2>2
    <3> HIDE DEF a, b, cursor
    <3>2. size \in Int \cup {Null} /\ cursor \in Int \cup {Null}
      BY <2>2
    <3> QED
      BY <3>1, <3>2, NoArgsIs DEF Args
  <2> HIDE DEF a, b, cursor
  <2>4. ArgsOf(walk.style, walk.size, b)
    BY <1>1, <2>2, <2>3 DEF ArgsOf
  <2>5. getOffset(isGraphQl(walk.style), b, 0) = cursor + 1
    <3>1. b.after # Null
      BY <2>2, <2>3, PaginationAssumption
    <3> QED
      BY <1>1, <1>2, <2>3, <2>4, <3>1, OffsetIs
  <2>6. getPage(b) = 1
    BY <2>3 DEF getPage, getParameterFromContext
  <2>7. PagesHoldItems => getLimit(isGraphQl(walk.style), b) > 0
    <3>1. getLimit(isGraphQl(walk.style), b) = EdgeLimit(size)
      BY <1>1, <1>2, <2>3, <2>4, LimitIs
    <3>2. PagesHoldItems => EdgeLimit(size) > 0
      BY <2>2, CappedIs DEF EdgeLimit, PagesHoldItems
    <3> QED
      BY <3>1, <3>2
  <2>8. ASSUME l > 0
        PROVE  LET o == getOffset(isGraphQl(walk.style), b, 0)
               IN  /\ o \in Nat /\ o >= Behind
                   /\ o = Behind \/ n < l
                   /\ o <= Cardinality(Items) /\ getPage(b) >= 1
    <3>1. walk.offset + l < t
      BY <1>4, <1>6, <2>8
    <3>2. Behind = x + 1 /\ cursor + 1 = IF x < 0 THEN 1 ELSE x + 1
      BY <1>2 DEF Behind, cursor
    <3>3. n = 0 => Behind = walk.offset
      BY <1>2 DEF Behind
    <3>4. n # 0 => Behind <= Cardinality(Items)
      <4>1. n # 0 => walk.page # <<>>
        BY EmptySeq
      <4> QED
        BY <1>2, <4>1
    <3>5. x < 0 => n = 0 /\ walk.offset = 0
      BY <1>2
    <3>6. Behind \in Nat
      BY <1>2 DEF Behind
    <3> HIDE DEF x
    <3> QED
      BY <1>2, <2>2, <2>5, <2>6, <2>8, <3>1, <3>2, <3>3, <3>4, <3>5, <3>6
  <2>9. Onward(b)
    BY <2>1, <2>4, <2>7, <2>8 DEF Onward, b
  <2> QED
    BY <1>1, <2>3, <2>9
<1> QED
  BY <1>1, <1>3, <1>5, <1>6

(* The cursor of an edge leads on, or there was none.                      *)
LEMMA FollowEdgesIs ==
  ASSUME Typed, FollowEdges
  PROVE  /\ walk.pc = "answer" /\ walk.style = "edges"
         /\ AtEnd \/ \E a \in Args : Onward(a)
<1> DEFINE l == walk.limit
           n == Len(walk.page)
           cursor == edgeCursor(n - 1)
           a == [walk.args EXCEPT !.after = cursor]
<1>1. walk.pc = "answer" /\ walk.style = "edges"
  BY DEF FollowEdges, Answered
<1>2. /\ l \in Nat /\ n \in Nat /\ n <= l /\ walk.offset \in Nat
      /\ Cardinality(Items) \in Nat /\ walk.page \in Seq(Items)
      /\ walk.page # <<>> => Behind <= Cardinality(Items)
      /\ walk.style \in AllStyles /\ walk.size \in Sizes /\ walk.args \in Args
      /\ ArgsOf(walk.style, walk.size, walk.args) /\ walk.count = 0
      /\ walk.offset = Begin /\ l = Limit
  BY <1>1, AnswerIs, ItemsAreFinite DEF Typed, Behind
<1>3. \/ walk.page # <<>> /\ Ask(a, After)
      \/ walk.page = <<>> /\ Stop(After)
  BY DEF FollowEdges, After
<1>4. CASE walk.page = <<>> /\ Stop(After)
  <2>1. n = 0
    BY <1>4, EmptySeq
  <2> QED
    BY <1>1, <1>2, <1>4, <2>1 DEF AtEnd
<1>5. CASE walk.page # <<>> /\ Ask(a, After)
  <2>1. n # 0
    BY <1>2, <1>5, EmptySeq
  <2>2. walk.args.after = Null \/ walk.args.after \in Nat
    BY <1>1, <1>2 DEF ArgsOf
  <2>3. walk.offset = IF walk.args.after = Null THEN 0 ELSE walk.args.after + 1
    BY <1>1, <1>2, OffsetIs DEF Begin
  <2>4. cursor = Behind - 1
    <3> DEFINE start == cursorOffset(walk.args, FALSE, n, 1)
    <3>1. start = AtLeastZero(IF walk.args.after # Null
                              THEN walk.args.after + 1 ELSE 0)
      BY Zenon DEF cursorOffset
    <3>2. start = walk.offset
      <4> HIDE DEF start
      <4> QED
        BY <2>2, <2>3, <3>1 DEF AtLeastZero
    <3>3. cursor = start + (n - 1)
      BY DEF edgeCursor
    <3> HIDE DEF start, cursor
    <3> QED
      BY <1>2, <3>2, <3>3 DEF Behind
  <2>5. Behind \in Nat /\ Behind >= 1
    BY <1>2, <2>1 DEF Behind
  <2> HIDE DEF cursor
  <2>6. cursor \in Nat /\ cursor + 1 = Behind
    BY <2>4, <2>5
  <2>7. /\ a \in Args /\ a.first = walk.args.first /\ a.after = cursor
        /\ a.page = walk.args.page /\ a.itemsPerPage = walk.args.itemsPerPage
        /\ a.last = walk.args.last /\ a.before = walk.args.before
        /\ a.gt = walk.args.gt
    BY <1>2, <2>6 DEF Args
  <2> HIDE DEF a
  <2>8. ArgsOf(walk.style, walk.size, a)
    BY <1>1, <1>2, <2>6, <2>7 DEF ArgsOf
  <2>9. getOffset(isGraphQl(walk.style), a, 0) = Behind
    <3>1. a.after # Null
      BY <2>6, <2>7, PaginationAssumption
    <3>2. getOffset(isGraphQl(walk.style), a, 0) = cursor + 1
      BY <1>1, <1>2, <2>7, <2>8, <3>1, OffsetIs
    <3> QED
      BY <2>6, <3>2
  <2>10. getLimit(isGraphQl(walk.style), a) = l
    BY <1>1, <1>2, <2>7, <2>8, LimitIs DEF Limit
  <2>11. getPage(a) = 1
    BY <1>1, <2>7, <2>8 DEF getPage, getParameterFromContext, ArgsOf
  <2>12. Onward(a)
    BY <1>2, <1>5, <2>5, <2>8, <2>9, <2>10, <2>11 DEF Onward
  <2> QED
    BY <1>1, <2>7, <2>12
<1> QED
  BY <1>1, <1>3, <1>4, <1>5

(* The range filter leads behind the last item, or the page was empty.     *)
LEMMA FollowFieldIs ==
  ASSUME Typed, FollowField
  PROVE  /\ walk.pc = "answer" /\ walk.style = "field"
         /\ \/ walk.page = <<>> /\ Stop(After)
            \/ /\ walk.page # <<>>
               /\ \E a \in Args :
                    /\ ArgsOf(walk.style, walk.size, a) /\ Ask(a, After)
                    /\ a.gt = walk.page[Len(walk.page)] /\ a.page = Null
                    /\ a.gt \in Nat
<1> DEFINE n == Len(walk.page)
           last == Last(walk.page)
           a == [walk.args EXCEPT !.gt = last]
<1>1. walk.pc = "answer" /\ walk.style = "field"
  BY DEF FollowField, Answered
<1>2. /\ walk.page \in Seq(Items) /\ walk.args \in Args
      /\ ArgsOf(walk.style, walk.size, walk.args)
      /\ \A i \in Items : i \in Nat
  BY <1>1, AnswerIs, WalkAssumption DEF Typed
<1>3. CASE walk.page = <<>>
  BY <1>1, <1>3 DEF FollowField, After
<1>4. CASE walk.page # <<>>
  <2>1. n \in Nat \ {0}
    BY <1>2, <1>4, EmptySeq
  <2>2. last = walk.page[n] /\ last \in Nat
    <3>1. walk.page[n] \in Items
      BY <1>2, <2>1, ElementOfSeq
    <3> QED
      BY <1>2, <3>1 DEF Last
  <2>3. Ask(a, After)
    BY <1>4 DEF FollowField, cursorPaginationFields, After
  <2> HIDE DEF last
  <2>4. /\ a \in Args /\ a.gt = last /\ a.first = walk.args.first
        /\ a.after = walk.args.after
        /\ a.page = walk.args.page /\ a.itemsPerPage = walk.args.itemsPerPage
        /\ a.last = walk.args.last /\ a.before = walk.args.before
    BY <1>2, <2>2 DEF Args
  <2> HIDE DEF a
  <2>5. ArgsOf(walk.style, walk.size, a) /\ a.page = Null
    BY <1>1, <1>2, <2>2, <2>4 DEF ArgsOf
  <2> QED
    BY <1>1, <1>4, <2>2, <2>3, <2>4, <2>5
<1> QED
  BY <1>3, <1>4

(* A walk that goes back asks for the last page and then for the previous. *)
Before == walk.page \o walk.seen

BackTo(q, s) ==
  /\ q \in Nat \ {0} /\ Ask(WithPage(q), s)
  /\ ArgsOf(walk.style, walk.size, WithPage(q)) /\ WithPage(q) \in Args
  /\ getPage(WithPage(q)) = q
  /\ WithPage(q).page = q
  /\ getOffset(isGraphQl(walk.style), WithPage(q), 0) = (q - 1) * walk.limit
  /\ getLimit(isGraphQl(walk.style), WithPage(q)) = walk.limit

(* A request for the page q, walking back.                                 *)
LEMMA BackToIs ==
  ASSUME Typed, walk.pc = "answer", walk.style = "back",
         NEW q \in Nat \ {0}, NEW s, Ask(WithPage(q), s)
  PROVE  BackTo(q, s)
<1>1. /\ walk.style \in AllStyles /\ walk.size \in Sizes
      /\ walk.limit = Limit /\ ArgsOf(walk.style, walk.size, walk.args)
  BY AnswerIs DEF Typed
<1>2. /\ ArgsOf(walk.style, walk.size, WithPage(q))
      /\ getPage(WithPage(q)) = q
      /\ WithPage(q) \in Args /\ WithPage(q).page = q
  BY WithPageIs
<1>3. /\ getLimit(isGraphQl(walk.style), WithPage(q)) = PageLimit(walk.size)
      /\ walk.limit = PageLimit(walk.size)
  BY <1>1, <1>2, LimitIs DEF Limit
<1>4. getOffset(isGraphQl(walk.style), WithPage(q), 0)
        = (getPage(WithPage(q)) - 1) * PageLimit(walk.size)
  BY <1>1, <1>2, OffsetIs
<1> QED
  BY <1>2, <1>3, <1>4 DEF BackTo

(* The link to the last page begins a walk back by links, the link to the  *)
(* previous page leads on, and it ends on the first page.                  *)
LEMMA FollowPreviousIs ==
  ASSUME Typed, FollowPrevious
  PROVE  /\ walk.pc = "answer" /\ walk.style = "back"
         /\ \/ /\ walk.args.page = Null
               /\ \E q : /\ BackTo(q, <<>>)
                         /\ walk.limit > 0 =>
                              /\ (q - 1) * walk.limit < walk.total
                              /\ walk.total <= q * walk.limit
            \/ /\ walk.args.page = Null /\ Stop(Before)
               /\ walk.limit > 0 => walk.total <= walk.limit
            \/ /\ walk.args.page # Null
               /\ \E q : /\ BackTo(q, Before)
                         /\ walk.limit > 0 =>
                              (q - 1) * walk.limit + walk.limit = walk.offset
            \/ /\ walk.args.page # Null /\ Stop(Before)
               /\ walk.limit > 0 => walk.offset = 0 \/ walk.total <= walk.limit
<1> DEFINE p == getPage(walk.args)
           l == walk.limit
           t == walk.total
           n == Len(walk.page)
           o == walk.offset
           view == links(t, o, l)
           part == partialLinks(n, o, l)
<1>1. walk.pc = "answer" /\ walk.style = "back"
  BY DEF FollowPrevious, Answered
<1>2. /\ p \in Nat \ {0} /\ l \in Nat /\ t \in Nat /\ o \in Nat /\ n \in Nat
      /\ o = (p - 1) * l
  BY <1>1, AnswerIs
<1>3. /\ view.previous \in (Nat \ {0}) \cup {Null}
      /\ view.last \in (Nat \ {0}) \cup {Null}
      /\ l > 0 => LinksOfPage(view, part, p, n, l, t)
  <2> HIDE DEF p, l, n, o, t
  <2>1. /\ view.previous \in (Nat \ {0}) \cup {Null}
        /\ view.last \in (Nat \ {0}) \cup {Null}
    BY <1>2, LinksAre
  <2>2. ASSUME l > 0 PROVE LinksOfPage(view, part, p, n, l, t)
    BY <1>2, <2>2, LinksOfPageAre
  <2> QED
    BY <2>1, <2>2
<1>4. l > 0 =>
        /\ view.last # Null <=> l < t
        /\ view.last # Null => (view.last - 1) * l < t /\ t <= view.last * l
        /\ view.previous # Null <=> l < t /\ p # 1
        /\ view.previous # Null => view.previous = p - 1
  BY <1>3 DEF LinksOfPage
<1>5. \/ walk.args.page = Null /\ view.last # Null
           /\ Ask(WithPage(view.last), <<>>)
      \/ walk.args.page = Null /\ view.last = Null /\ Stop(Before)
      \/ walk.args.page # Null /\ view.previous # Null
           /\ Ask(WithPage(view.previous), Before)
      \/ walk.args.page # Null /\ view.previous = Null /\ Stop(Before)
  BY DEF FollowPrevious, Before
<1> HIDE DEF view
<1>6. CASE walk.args.page = Null /\ view.last # Null
             /\ Ask(WithPage(view.last), <<>>)
  <2>1. view.last \in Nat \ {0}
    BY <1>3, <1>6
  <2>2. BackTo(view.last, <<>>)
    BY <1>1, <1>6, <2>1, BackToIs
  <2> QED
    BY <1>1, <1>4, <1>6, <2>2
<1>7. CASE walk.args.page = Null /\ view.last = Null /\ Stop(Before)
  <2>1. l > 0 => t <= l
    BY <1>2, <1>4, <1>7
  <2> QED
    BY <1>1, <1>7, <2>1
<1>8. CASE walk.args.page # Null /\ view.previous # Null
             /\ Ask(WithPage(view.previous), Before)
  <2> DEFINE q == view.previous
  <2>1. q \in Nat \ {0}
    BY <1>3, <1>8
  <2>2. BackTo(q, Before)
    BY <1>1, <1>8, <2>1, BackToIs
  <2>3. l > 0 => q = p - 1
    BY <1>4, <1>8
  <2> HIDE DEF q, l, p, o
  <2>4. (q - 1) * l + l = q * l
    BY <1>2, <2>1
  <2>5. l > 0 => (q - 1) * l + l = o
    BY <1>2, <2>3, <2>4
  <2> QED
    BY <1>1, <1>8, <2>2, <2>5 DEF l, o
<1>9. CASE walk.args.page # Null /\ view.previous = Null /\ Stop(Before)
  <2>1. p = 1 => o = 0
    <3> HIDE DEF p, l, o
    <3>1. p = 1 => p - 1 = 0
      OBVIOUS
    <3>2. 0 * l = 0
      BY <1>2
    <3> QED
      BY <1>2, <3>1, <3>2
  <2>2. l > 0 => o = 0 \/ t <= l
    BY <1>2, <1>4, <1>9, <2>1
  <2> QED
    BY <1>1, <1>9, <2>2
<1> QED
  BY <1>5, <1>6, <1>7, <1>8, <1>9

(* The cursor at the start of the page of a walk that goes backward.       *)
Top ==
  IF walk.args.before = Null THEN AtLeastZero(walk.total - walk.args.last)
  ELSE AtLeastZero(walk.args.before - Len(walk.page))

(* The start cursor leads back, or the page began the collection.          *)
LEMMA FollowBackwardIs ==
  ASSUME Typed, FollowBackward
  PROVE  /\ walk.pc = "answer" /\ walk.style = "backward" /\ Top \in Nat
         /\ \/ /\ Top > 0 /\ walk.total # 0
               /\ \E a \in Args :
                    /\ ArgsOf(walk.style, walk.size, a) /\ Ask(a, Before)
                    /\ a.before = Top /\ a.before # Null /\ a.last \in Int
                    /\ a.last > 0 /\ getPage(a) = 1
            \/ (Top = 0 \/ walk.total = 0) /\ Stop(Before)
<1> DEFINE t == walk.total
           g == walk.args
           n == Len(walk.page)
           cursor == cursorOffset(g, TRUE, n, t)
           a(size) == [NoArgs EXCEPT !.last = size, !.before = Info.startCursor]
           Mine == {m \in Positive : mayAsk("backward", m)}
<1>1. walk.pc = "answer" /\ walk.style = "backward"
  BY DEF FollowBackward, Answered
<1>2. /\ t \in Nat /\ n \in Nat
      /\ g.last \in Int /\ g.last # Null /\ g.after = Null
      /\ g.before = Null \/ (g.before \in Nat /\ g.before # Null)
      /\ walk.style \in AllStyles /\ walk.size \in Sizes
  <2>1. ArgsOf(walk.style, walk.size, g) /\ t \in Nat /\ n \in Nat
        /\ walk.style \in AllStyles /\ walk.size \in Sizes
    BY <1>1, AnswerIs DEF Typed
  <2> QED
    BY <1>1, <2>1, WalkAssumption, PaginationAssumption DEF ArgsOf
<1>3. cursor = Top
  <2>1. CASE g.before = Null
    BY <1>2, <2>1, Zenon DEF cursorOffset, Top
  <2>2. CASE g.before # Null
    BY <1>2, <2>2, Zenon DEF cursorOffset, Top
  <2> QED
    BY <2>1, <2>2
<1>4. Top \in Nat
  BY <1>2 DEF Top, AtLeastZero
<1>5. /\ t = 0 => Info.hasPreviousPage = FALSE
      /\ t # 0 => /\ Info.startCursor = Top
                  /\ Info.hasPreviousPage = (Top > 0)
  BY <1>3 DEF Info, pageInfo, NoPageInfo, precededBy
<1>6. \/ Info.hasPreviousPage /\ \E size \in Mine : Ask(a(size), Before)
      \/ ~Info.hasPreviousPage /\ Stop(Before)
  BY DEF FollowBackward, Before
<1>7. CASE ~Info.hasPreviousPage /\ Stop(Before)
  <2>1. Top = 0 \/ t = 0
    <3>1. t # 0 => ~(Top > 0)
      BY <1>5, <1>7, Zenon
    <3> QED
      BY <1>4, <3>1
  <2> QED
    BY <1>1, <1>4, <1>7, <2>1
<1>8. CASE Info.hasPreviousPage /\ \E size \in Mine : Ask(a(size), Before)
  <2>1. t # 0 /\ Top > 0 /\ Info.startCursor = Top
    BY <1>5, <1>8
  <2>2. PICK size \in Mine : Ask(a(size), Before)
    BY <1>8
  <2>3. size \in Sizes /\ size \in Int /\ size > 0 /\ mayAsk("backward", size)
    BY WalkAssumption DEF Positive
  <2> DEFINE b == a(size)
  <2>4. b = [NoArgs EXCEPT !.last = size, !.before = Top]
    BY <2>1
  <2> HIDE DEF a, b
  <2>5. /\ b \in Args /\ b.last = size /\ b.before = Top /\ b.page = Null
        /\ b.itemsPerPage = Null /\ b.first = Null /\ b.after = Null
        /\ b.gt = Null
    <3>1. size \in Int \cup {Null} /\ Top \in Int \cup {Null}
      BY <1>4, <2>3
    <3> QED
      BY <2>4, <3>1, NoArgsIs DEF Args
  <2>6. ArgsOf(walk.style, walk.size, b)
    BY <1>1, <1>4, <2>1, <2>3, <2>5 DEF ArgsOf
  <2>7. getPage(b) = 1
    BY <2>5 DEF getPage, getParameterFromContext
  <2>8. Top # Null
    BY <1>4, PaginationAssumption
  <2>9. Ask(b, Before)
    BY <2>2 DEF b
  <2> QED
    BY <1>1, <1>4, <2>1, <2>3, <2>5, <2>6, <2>7, <2>8, <2>9
<1> QED
  BY <1>6, <1>7, <1>8

-----------------------------------------------------------------------------
(* Every step keeps the types.                                             *)

Follow ==
  \/ FollowNext \/ FollowPrevious \/ FollowField \/ FollowNumbered
  \/ FollowForward \/ FollowBackward \/ FollowEdges

(* Whatever the style, the client asks for another page or stops.          *)
LEMMA FollowIs ==
  ASSUME Typed, Follow
  PROVE  /\ walk.pc = "answer"
         /\ \/ \E a \in Args, s \in Seq(Items) :
                 ArgsOf(walk.style, walk.size, a) /\ Ask(a, s)
            \/ \E s \in Seq(Items) : Stop(s)
<1>1. walk.pc = "answer"
  BY DEF Follow, FollowNext, FollowPrevious, FollowField, FollowNumbered,
         FollowForward, FollowBackward, FollowEdges, Answered
<1>2. After \in Seq(Items) /\ Before \in Seq(Items) /\ <<>> \in Seq(Items)
  BY <1>1, AnswerIs, EmptySeq DEF After, Before
<1>3. ASSUME AtEnd \/ \E a \in Args : Onward(a)
      PROVE  \/ \E a \in Args, s \in Seq(Items) :
                  ArgsOf(walk.style, walk.size, a) /\ Ask(a, s)
             \/ \E s \in Seq(Items) : Stop(s)
  BY <1>2, <1>3 DEF AtEnd, Onward
<1>4. CASE FollowNext
  BY <1>1, <1>3, <1>4, FollowNextIs
<1>5. CASE FollowNumbered
  BY <1>1, <1>3, <1>5, FollowNumberedIs
<1>6. CASE FollowForward
  BY <1>1, <1>3, <1>6, FollowForwardIs
<1>7. CASE FollowEdges
  BY <1>1, <1>3, <1>7, FollowEdgesIs
<1>8. CASE FollowField
  BY <1>1, <1>2, <1>8, FollowFieldIs
<1>9. CASE FollowBackward
  BY <1>1, <1>2, <1>9, FollowBackwardIs
<1>10. CASE FollowPrevious
  BY <1>1, <1>2, <1>10, FollowPreviousIs DEF BackTo
<1> QED
  BY <1>4, <1>5, <1>6, <1>7, <1>8, <1>9, <1>10 DEF Follow

(* Asking for another page keeps the types.                                *)
LEMMA AskTyped ==
  ASSUME Typed, NEW a \in Args, NEW s \in Seq(Items),
         ArgsOf(walk.style, walk.size, a), Ask(a, s)
  PROVE  Typed'
<1>1. /\ walk' \in WalkType /\ SameWalk /\ SameItems
      /\ walk'.pc = "addCount" /\ walk'.args = a
      /\ walk'.page = <<>> /\ walk'.count = 0 /\ walk'.total = 0
      /\ walk'.offset = 0 /\ walk'.limit = 0
  BY ItemsAreFinite, AskIs DEF Typed
<1>2. TypeOK'
  BY <1>1, EmptySeq DEF Typed, TypeOK, WalkType, SameItems
<1>3. Cardinality(Items) \in Nat
  BY ItemsAreFinite DEF Typed
<1> QED
  BY <1>1, <1>2, <1>3 DEF Typed, SameWalk, Asked

(* So does stopping.                                                       *)
LEMMA StopTyped ==
  ASSUME Typed, walk.pc = "answer", NEW s \in Seq(Items), Stop(s)
  PROVE  Typed'
<1>1. /\ walk' \in WalkType /\ SameWalk /\ SameItems
      /\ walk'.pc = "done" /\ walk'.args = walk.args
      /\ walk'.page = walk.page /\ walk'.count = walk.count
      /\ walk'.total = walk.total
      /\ walk'.offset = walk.offset /\ walk'.limit = walk.limit
  BY ItemsAreFinite, StopIs DEF Typed
<1>2. TypeOK'
  BY <1>1 DEF Typed, TypeOK, WalkType, SameItems
<1>3. walk.style \in {"pages", "numbered"} => walk.limit = PageLimit(walk.size)
  <2>1. /\ walk.style \in AllStyles /\ walk.size \in Sizes
        /\ walk.limit = Limit /\ ArgsOf(walk.style, walk.size, walk.args)
    BY AnswerIs DEF Typed
  <2> QED
    BY <2>1, LimitIs DEF Limit
<1> QED
  BY <1>1, <1>2, <1>3 DEF Typed, SameWalk, Asked, Running

(* The walk begins with its first request.                                 *)
LEMMA InitIs ==
  ASSUME Init
  PROVE  /\ Typed
         /\ walk.pc = "addCount" /\ walk.first = walk.args /\ walk.count = 0
         /\ walk.page = <<>> /\ walk.seen = <<>>
         /\ walk.args.before = Null /\ walk.args.after = Null
         /\ walk.args.gt = Null
         /\ walk.style \notin {"pages", "numbered"} => walk.args.page = Null
         /\ steady = items /\ changes = 0
<1>1. PICK style \in Styles, size \in Sizes, page \in FirstPages :
        /\ mayAsk(style, size)
        /\ walk = Walk(style, size, firstArgs(style, size, page))
  BY DEF Init
<1> DEFINE a == firstArgs(style, size, page)
<1>2. style \in AllStyles /\ size \in Int /\ page \in Int /\ MaxChanges \in Nat
  BY WalkAssumption
<1>3. /\ a \in Args /\ ArgsOf(style, size, a)
      /\ a.before = Null /\ a.after = Null /\ a.gt = Null
      /\ style \notin {"pages", "numbered"} => a.page = Null
  <2>1. CASE style \in {"pages", "numbered"}
    <3>1. a = [NoArgs EXCEPT !.itemsPerPage = size, !.page = page]
      BY <2>1, Zenon DEF firstArgs
    <3> HIDE DEF a
    <3>2. /\ a \in Args /\ a.page = page /\ a.itemsPerPage = size
          /\ a.first = Null /\ a.after = Null /\ a.last = Null
          /\ a.before = Null /\ a.gt = Null
      BY <1>2, <3>1, NoArgsIs DEF Args
    <3> QED
      BY <1>2, <2>1, <3>2 DEF ArgsOf
  <2>2. CASE style \in {"forward", "edges"}
    <3>1. a = [NoArgs EXCEPT !.first = size]
      BY <2>2, Zenon DEF firstArgs
    <3> HIDE DEF a
    <3>2. /\ a \in Args /\ a.page = Null /\ a.itemsPerPage = Null
          /\ a.first = size /\ a.after = Null /\ a.last = Null
          /\ a.before = Null /\ a.gt = Null
      BY <1>2, <3>1, NoArgsIs DEF Args
    <3> QED
      BY <1>2, <2>2, <3>2 DEF ArgsOf
  <2>3. CASE style = "backward"
    <3>1. a = [NoArgs EXCEPT !.last = size]
      BY <2>3, Zenon DEF firstArgs
    <3> HIDE DEF a
    <3>2. /\ a \in Args /\ a.page = Null /\ a.itemsPerPage = Null
          /\ a.first = Null /\ a.after = Null /\ a.last = size
          /\ a.before = Null /\ a.gt = Null
      BY <1>2, <3>1, NoArgsIs DEF Args
    <3> QED
      BY <1>1, <1>2, <2>3, <3>2 DEF ArgsOf
  <2>4. CASE style \in {"back", "partial", "field"}
    <3>1. a = [NoArgs EXCEPT !.itemsPerPage = size]
      BY <2>4, Zenon DEF firstArgs
    <3> HIDE DEF a
    <3>2. /\ a \in Args /\ a.page = Null /\ a.itemsPerPage = size
          /\ a.first = Null /\ a.after = Null /\ a.last = Null
          /\ a.before = Null /\ a.gt = Null
      BY <1>2, <3>1, NoArgsIs DEF Args
    <3> QED
      BY <1>2, <2>4, <3>2 DEF ArgsOf
  <2> QED
    BY <1>2, <2>1, <2>2, <2>3, <2>4 DEF AllStyles
<1> HIDE DEF a
<1>4. /\ walk.pc = "addCount" /\ walk.style = style /\ walk.size = size
      /\ walk.args = a /\ walk.first = a /\ walk.count = 0
      /\ walk.offset = 0 /\ walk.limit = 0 /\ walk.total = 0
      /\ walk.page = <<>> /\ walk.seen = <<>>
  BY <1>1 DEF Walk, a
<1>5. walk \in WalkType
  <2>1. <<>> \in Seq(Items)
    BY EmptySeq
  <2>2. walk = Walk(style, size, a)
    BY <1>1 DEF a
  <2> QED
    BY <1>3, <2>1, <2>2 DEF Walk, WalkType
<1>6. TypeOK
  BY <1>2, <1>4, <1>5, EmptySeq DEF Init, TypeOK, WalkType
<1>7. Cardinality(Items) \in Nat
  BY <1>6, ItemsAreFinite
<1>8. Typed
  BY <1>3, <1>4, <1>6, <1>7 DEF Typed, Asked
<1> QED
  BY <1>3, <1>4, <1>8 DEF Init

(* Every step keeps the types.                                             *)
LEMMA TypedNext ==
  ASSUME Typed, [Next]_vars
  PROVE  Typed'
<1>1. CASE addCountToContext
  <2>1. /\ walk' \in WalkType /\ SameWalk /\ SameItems
        /\ walk.pc = "addCount" /\ walk'.pc = "paginate"
        /\ walk'.args = walk.args
        /\ walk'.page = walk.page /\ walk'.total = walk.total
        /\ walk'.offset = walk.offset /\ walk'.limit = walk.limit
        /\ walk'.count <= Cardinality(Items)
        /\ walk.style # "backward" => walk'.count = 0
    BY <1>1, CountIs
  <2>2. TypeOK'
    BY <2>1 DEF Typed, TypeOK, WalkType, SameItems
  <2> QED
    BY <2>1, <2>2 DEF Typed, SameWalk, Asked, Running, Taken
<1>2. CASE getPagination
  <2>1. /\ walk' \in WalkType /\ SameWalk /\ SameItems
        /\ walk.pc = "paginate" /\ walk'.pc \in {"rejected", "slice", "total"}
        /\ walk'.args = walk.args /\ walk'.page = walk.page
        /\ walk'.total = walk.total /\ walk'.count = walk.count
        /\ walk'.pc # "rejected" =>
             /\ walk'.offset = Begin /\ walk'.limit = Limit
             /\ getPage(walk.args) >= 1
             /\ walk'.pc = "total" <=> totalComesFirst(walk.style)
    BY <1>2, PaginateIs
  <2>2. Limit' = Limit /\ Begin' = Begin
    BY <2>1 DEF SameWalk, Limit, Begin
  <2>3. walk.page = <<>> /\ walk'.page = <<>>
    BY <2>1 DEF Typed, Running, Taken
  <2>4. TypeOK'
    <3>1. walk'.limit \in Nat
      BY <2>1 DEF WalkType
    <3> QED
      BY <2>1, <2>3, <3>1, EmptySeq DEF Typed, TypeOK, WalkType, SameItems
  <2> QED
    BY <2>1, <2>2, <2>3, <2>4 DEF Typed, SameWalk, Asked, Running, Taken,
       totalComesFirst
<1>3. CASE getIterator
  <2>1. /\ walk' \in WalkType /\ SameWalk /\ SameItems
        /\ walk.pc = "slice"
        /\ walk'.pc = IF isCounted(walk.style) THEN "total" ELSE "answer"
        /\ walk'.args = walk.args
        /\ walk'.total = walk.total /\ walk'.count = walk.count
        /\ walk'.offset = walk.offset /\ walk'.limit = walk.limit
        /\ Len(walk'.page) <= walk.limit
        /\ walk'.page # <<>> =>
             walk.offset + Len(walk'.page) <= Cardinality(Items)
    BY <1>3, IterateIs
  <2>2. Limit' = Limit /\ Begin' = Begin
    BY <2>1 DEF SameWalk, Limit, Begin
  <2>3. TypeOK'
    BY <2>1 DEF Typed, TypeOK, WalkType, SameItems
  <2> QED
    BY <2>1, <2>2, <2>3
       DEF Typed, SameWalk, Asked, Running, Taken, isCounted, totalComesFirst
<1>4. CASE getTotalItems
  <2>1. /\ walk' \in WalkType /\ SameWalk /\ SameItems
        /\ walk.pc = "total"
        /\ walk'.pc = IF totalComesFirst(walk.style) THEN "slice" ELSE "answer"
        /\ walk'.args = walk.args
        /\ walk'.page = walk.page /\ walk'.count = walk.count
        /\ walk'.offset = walk.offset /\ walk'.limit = walk.limit
        /\ walk'.total = Cardinality(items)
    BY <1>4, TotalIs
  <2>2. Limit' = Limit /\ Begin' = Begin
    BY <2>1 DEF SameWalk, Limit, Begin
  <2>3. TypeOK'
    BY <2>1 DEF Typed, TypeOK, WalkType, SameItems
  <2>4. Cardinality(items) <= Cardinality(Items)
    BY ItemsAreFinite DEF Typed
  <2> QED
    BY <2>1, <2>2, <2>3, <2>4
       DEF Typed, SameWalk, Asked, Running, Taken, totalComesFirst
<1>5. CASE Follow
  <2>1. walk.pc = "answer"
    BY <1>5, FollowIs
  <2>2. CASE \E a \in Args, s \in Seq(Items) :
               ArgsOf(walk.style, walk.size, a) /\ Ask(a, s)
    BY <2>2, AskTyped
  <2>3. CASE \E s \in Seq(Items) : Stop(s)
    BY <2>1, <2>3, StopTyped
  <2> QED
    BY <1>5, <2>2, <2>3, FollowIs
<1>6. CASE Insert \/ Delete
  <2>1. /\ walk' = walk /\ changes' \in 0..MaxChanges
        /\ steady' = steady \cap items' /\ items' \subseteq Items
    BY <1>6, ChangeIs
  <2>2. TypeOK'
    BY <2>1 DEF Typed, TypeOK
  <2> QED
    BY <2>1, <2>2 DEF Typed, Asked, Running, Taken, Limit, Begin
<1>7. CASE UNCHANGED vars
  BY <1>7 DEF vars, Typed, TypeOK, Asked, Running, Taken, Limit, Begin
<1> QED
  BY <1>1, <1>2, <1>3, <1>4, <1>5, <1>6, <1>7 DEF Next, Step, Follow

(* The types and the size of a page, for every collection and walk.        *)
THEOREM WalkIsTyped == Spec => []TypeOK
<1>1. Init => Typed
  BY InitIs
<1>2. Typed /\ [Next]_vars => Typed'
  BY TypedNext
<1>3. Typed => TypeOK
  BY DEF Typed
<1> QED
  BY <1>1, <1>2, <1>3, PTL DEF Spec

-----------------------------------------------------------------------------
(* The requests made of an answer are valid.                               *)

Bounded ==
  walk.size # 0 =>
    /\ Asked => walk.limit > 0
    /\ walk.pc \in {"addCount", "paginate"} /\ walk.args # walk.first =>
         getPage(walk.args) >= 1 /\ Limit > 0 /\ Begin <= Cardinality(Items)
    /\ walk.args.before # Null => walk.args.before <= Cardinality(Items)
    /\ walk.style = "back" /\ Running => Begin <= Cardinality(Items)

(* Where pages hold items, the limit of a request is not 0.                *)
LEMMA LimitIsNotZero ==
  ASSUME Typed, PagesHoldItems, walk.size # 0
  PROVE  Limit # 0
<1> DEFINE a == walk.args
<1>1. /\ walk.style \in AllStyles /\ walk.size \in Sizes /\ walk.size \in Int
      /\ ArgsOf(walk.style, walk.size, a) /\ \A n \in Sizes : n \in Int
      /\ ItemsPerPage \in Nat
  BY ItemsAreFinite, WalkAssumption, PaginationAssumption DEF Typed, WalkType
<1>2. \A n \in Int : n # 0 => Capped(n) # 0
  BY CappedIs DEF PagesHoldItems
<1>3. CASE walk.style \in {"pages", "back", "partial", "field", "numbered"}
  <2>1. Limit = PageLimit(walk.size)
    BY <1>1, <1>3, LimitIs DEF Limit
  <2>2. PageLimit(walk.size) # 0
    BY <1>1, <1>2 DEF PageLimit, PagesHoldItems
  <2> QED
    BY <2>1, <2>2
<1>4. CASE walk.style \in {"forward", "edges"}
  <2>1. Limit = EdgeLimit(a.first)
    BY <1>1, <1>4, LimitIs DEF Limit
  <2>2. a.first \in Int /\ a.first # 0
    BY <1>1, <1>4 DEF ArgsOf
  <2>3. EdgeLimit(a.first) # 0
    BY <1>2, <2>2 DEF EdgeLimit
  <2> QED
    BY <2>1, <2>3
<1>5. CASE walk.style = "backward"
  <2>1. Limit = IF a.before # Null /\ a.before < a.last THEN a.before ELSE a.last
    BY <1>1, <1>5, LimitIs DEF Limit
  <2>2. a.last # 0 /\ (a.before = Null \/ a.before # 0)
    BY <1>1, <1>5 DEF ArgsOf
  <2> QED
    BY <2>1, <2>2
<1> QED
  BY <1>1, <1>3, <1>4, <1>5 DEF AllStyles

(* A request of which the offset and the limit are in bounds.              *)
Sound(a) ==
  /\ getPage(a) >= 1
  /\ getLimit(isGraphQl(walk.style), a) > 0
  /\ getOffset(isGraphQl(walk.style), a, 0) <= Cardinality(Items)
  /\ a.before # Null => a.before <= Cardinality(Items)

(* What the client asks for after an answer is not rejected.               *)
LEMMA FollowIsSound ==
  ASSUME Typed, Bounded, PagesHoldItems, walk.size # 0, Follow
  PROVE  \/ \E a \in Args, s \in Seq(Items) : Ask(a, s) /\ Sound(a)
         \/ \E s \in Seq(Items) : Stop(s)
<1>1. walk.pc = "answer" /\ walk.limit > 0
  BY FollowIs DEF Bounded, Asked
<1>2. /\ After \in Seq(Items) /\ Before \in Seq(Items) /\ <<>> \in Seq(Items)
      /\ walk.limit \in Nat /\ walk.offset \in Nat
      /\ walk.total \in Nat /\ walk.total <= Cardinality(Items)
      /\ walk.offset = Begin /\ walk.limit = Limit /\ Len(walk.page) \in Nat
      /\ Cardinality(Items) \in Nat
      /\ walk.style \in AllStyles /\ walk.size \in Sizes
      /\ walk.args \in Args /\ ArgsOf(walk.style, walk.size, walk.args)
  BY <1>1, AnswerIs, EmptySeq, ItemsAreFinite DEF After, Before, Typed
<1>3. ASSUME walk.style \in Forth, AtEnd \/ \E a \in Args : Onward(a)
      PROVE  \/ \E a \in Args, s \in Seq(Items) : Ask(a, s) /\ Sound(a)
             \/ \E s \in Seq(Items) : Stop(s)
  <2>1. CASE AtEnd
    BY <1>2, <2>1 DEF AtEnd
  <2>2. CASE \E a \in Args : Onward(a)
    <3>1. PICK a \in Args : Onward(a)
      BY <2>2
    <3>2. a.before = Null
      BY <1>3, <3>1 DEF Onward, ArgsOf, Forth
    <3>3. Sound(a) /\ Ask(a, After)
      BY <1>1, <3>1, <3>2 DEF Onward, Sound
    <3> QED
      BY <1>2, <3>3
  <2> QED
    BY <1>3, <2>1, <2>2
<1>4. CASE FollowNext \/ FollowNumbered \/ FollowForward \/ FollowEdges
  BY <1>3, <1>4, FollowNextIs, FollowNumberedIs, FollowForwardIs, FollowEdgesIs
     DEF Forth
<1>5. CASE FollowField
  <2>1. walk.style = "field"
    BY <1>5, FollowFieldIs
  <2>2. CASE Stop(After)
    BY <1>2, <2>2
  <2>3. CASE \E a \in Args : /\ ArgsOf(walk.style, walk.size, a) /\ Ask(a, After)
                             /\ a.page = Null
    <3>1. PICK a \in Args : /\ ArgsOf(walk.style, walk.size, a) /\ Ask(a, After)
                            /\ a.page = Null
      BY <2>3
    <3>2. a.before = Null
      BY <2>1, <3>1 DEF ArgsOf
    <3>3. getPage(a) = 1
      BY <3>1 DEF getPage, getParameterFromContext
    <3> DEFINE l == PageLimit(walk.size)
    <3>4. getLimit(isGraphQl(walk.style), a) = l /\ walk.limit = l
      BY <1>2, <2>1, <3>1, LimitIs DEF Limit
    <3>5. getOffset(isGraphQl(walk.style), a, 0) = (1 - 1) * l
      BY <1>2, <2>1, <3>1, <3>3, OffsetIs
    <3> HIDE DEF l
    <3>6. (1 - 1) * l = 0
      BY <1>2, <3>4
    <3>7. Sound(a)
      BY <1>1, <1>2, <3>2, <3>3, <3>4, <3>5, <3>6 DEF Sound
    <3> QED
      BY <1>2, <3>1, <3>7
  <2> QED
    BY <1>5, <2>2, <2>3, FollowFieldIs
<1>6. CASE FollowPrevious
  <2>1. walk.style = "back"
    BY <1>6, FollowPreviousIs
  <2>2. ASSUME NEW q, NEW s \in Seq(Items), BackTo(q, s),
               (q - 1) * walk.limit <= Cardinality(Items)
        PROVE  \E a \in Args, r \in Seq(Items) : Ask(a, r) /\ Sound(a)
    <3> DEFINE a == WithPage(q)
    <3>1. q \in Nat \ {0} /\ Ask(a, s) /\ a \in Args /\ getPage(a) = q
          /\ ArgsOf(walk.style, walk.size, a)
          /\ getOffset(isGraphQl(walk.style), a, 0) = (q - 1) * walk.limit
          /\ getLimit(isGraphQl(walk.style), a) = walk.limit
      BY <2>2 DEF BackTo
    <3> HIDE DEF a
    <3>2. a.before = Null
      BY <2>1, <3>1 DEF ArgsOf
    <3>3. Sound(a)
      BY <1>1, <2>2, <3>1, <3>2 DEF Sound
    <3> QED
      BY <3>1, <3>3
  <2>3. ASSUME NEW q, BackTo(q, <<>>), (q - 1) * walk.limit < walk.total
        PROVE  \E a \in Args, r \in Seq(Items) : Ask(a, r) /\ Sound(a)
    <3> DEFINE x == (q - 1) * walk.limit
    <3>1. x \in Int
      BY <1>2, <2>3 DEF BackTo
    <3> HIDE DEF x
    <3>2. x <= Cardinality(Items)
      BY <1>2, <2>3, <3>1 DEF x
    <3> QED
      BY <1>2, <2>2, <2>3, <3>2 DEF x
  <2>4. ASSUME NEW q, BackTo(q, Before),
               (q - 1) * walk.limit + walk.limit = walk.offset
        PROVE  \E a \in Args, r \in Seq(Items) : Ask(a, r) /\ Sound(a)
    <3> DEFINE x == (q - 1) * walk.limit
    <3>1. x \in Int
      BY <1>2, <2>4 DEF BackTo
    <3>2. walk.offset <= Cardinality(Items) + walk.limit
      <4>1. walk.offset <= Cardinality(Items)
        BY <1>1, <1>2, <2>1 DEF Bounded, Running
      <4> QED
        BY <1>2, <4>1
    <3> HIDE DEF x
    <3>3. x <= Cardinality(Items)
      BY <1>2, <2>4, <3>1, <3>2 DEF x
    <3> QED
      BY <1>2, <2>2, <2>4, <3>3 DEF x
  <2> QED
    BY <1>1, <1>2, <1>6, <2>3, <2>4, FollowPreviousIs
<1>7. CASE FollowBackward
  <2>1. walk.style = "backward" /\ Top \in Nat
    BY <1>7, FollowBackwardIs
  <2>2. Top <= Cardinality(Items)
    <3>1. CASE walk.args.before = Null
      <4>1. Limit = walk.args.last
        BY <1>2, <2>1, <3>1, LimitIs DEF Limit
      <4> QED
        BY <1>1, <1>2, <3>1, <4>1 DEF Top, AtLeastZero
    <3>2. CASE walk.args.before # Null
      <4>1. walk.args.before \in Nat /\ walk.args.before <= Cardinality(Items)
        BY <1>2, <2>1, <3>2 DEF ArgsOf, Bounded
      <4> QED
        BY <1>2, <3>2, <4>1 DEF Top, AtLeastZero
    <3> QED
      BY <3>1, <3>2
  <2>3. CASE Stop(Before)
    BY <1>2, <2>3
  <2>4. CASE /\ Top > 0
             /\ \E a \in Args :
                  /\ ArgsOf(walk.style, walk.size, a) /\ Ask(a, Before)
                  /\ a.before = Top /\ a.before # Null /\ a.last \in Int
                  /\ a.last > 0 /\ getPage(a) = 1
    <3>1. PICK a \in Args :
            /\ ArgsOf(walk.style, walk.size, a) /\ Ask(a, Before)
            /\ a.before = Top /\ a.before # Null /\ a.last \in Int
            /\ a.last > 0 /\ getPage(a) = 1
      BY <2>4
    <3>2. getLimit(isGraphQl(walk.style), a)
            = IF a.before # Null /\ a.before < a.last THEN a.before ELSE a.last
      BY <1>2, <2>1, <3>1, LimitIs
    <3>3. getOffset(isGraphQl(walk.style), a, 0) = AtLeastZero(a.before - a.last)
      BY <1>2, <2>1, <3>1, OffsetIs
    <3>4. AtLeastZero(a.before - a.last) <= a.before
      BY <2>1, <3>1 DEF AtLeastZero
    <3>5. getLimit(isGraphQl(walk.style), a) > 0
      BY <2>1, <2>4, <3>1, <3>2
    <3>6. Sound(a)
      BY <1>2, <2>1, <2>2, <3>1, <3>3, <3>4, <3>5 DEF Sound, AtLeastZero
    <3> QED
      BY <1>2, <3>1, <3>6
  <2> QED
    BY <1>7, <2>3, <2>4, FollowBackwardIs
<1> QED
  BY <1>4, <1>5, <1>6, <1>7 DEF Follow

(* The first request is bounded.                                           *)
LEMMA BoundedInit ==
  ASSUME Init
  PROVE  Bounded
<1>1. /\ Typed /\ walk.pc = "addCount" /\ walk.first = walk.args
      /\ walk.args.before = Null
      /\ walk.style \notin {"pages", "numbered"} => walk.args.page = Null
  BY InitIs
<1>2. walk.style = "back" => Begin <= Cardinality(Items)
  <2> SUFFICES ASSUME walk.style = "back" PROVE Begin <= Cardinality(Items)
    OBVIOUS
  <2>1. getPage(walk.args) = 1
    BY <1>1 DEF getPage, getParameterFromContext
  <2>2. walk.style \in AllStyles /\ walk.size \in Sizes /\ walk.count \in Nat
        /\ ArgsOf(walk.style, walk.size, walk.args)
        /\ Cardinality(Items) \in Nat
    BY <1>1, ItemsAreFinite, WalkAssumption DEF Typed, WalkType
  <2> DEFINE l == PageLimit(walk.size)
  <2>3. l \in Int
    BY <2>2, LimitIs
  <2>4. Begin = (1 - 1) * l
    BY <2>1, <2>2, OffsetIs DEF Begin
  <2> HIDE DEF l
  <2>5. (1 - 1) * l = 0
    BY <2>3
  <2> QED
    BY <2>2, <2>4, <2>5
<1> QED
  BY <1>1, <1>2 DEF Bounded, Asked

(* Every step keeps the bounds.                                            *)
LEMMA BoundedNext ==
  ASSUME Typed, Bounded, PagesHoldItems, [Next]_vars
  PROVE  Bounded'
<1> DEFINE B == Cardinality(Items)
<1>0. /\ B \in Nat /\ Typed'
      /\ walk.style \in AllStyles /\ walk.size \in Sizes /\ walk.count \in Nat
      /\ ArgsOf(walk.style, walk.size, walk.args)
  BY TypedNext, ItemsAreFinite, WalkAssumption DEF Typed, WalkType
<1>1. CASE addCountToContext
  <2>1. /\ SameWalk /\ walk.pc = "addCount" /\ walk'.pc = "paginate"
        /\ walk'.args = walk.args /\ walk'.count \in Nat
        /\ walk'.count <= Cardinality(Items)
        /\ ~(walk.style = "backward" /\ walk.args.before = Null) => walk'.count = 0
    BY <1>1, CountIs
  <2>2. walk.count = 0 /\ Limit' = Limit
    BY <2>1 DEF Typed, SameWalk, Limit
  <2>3. CASE walk.style = "backward" /\ walk.args.before = Null
    <3>1. Limit = walk.args.last
      BY <1>0, <2>3, LimitIs DEF Limit
    <3>2. walk.args.last \in Int
      BY <1>0, <2>3, WalkAssumption DEF ArgsOf
    <3>3. Begin' = AtLeastZero(walk'.count - walk.args.last)
      BY <1>0, <2>1, <2>3, OffsetIs DEF Begin, SameWalk
    <3>4. Limit > 0 => Begin' <= B
      BY <1>0, <2>1, <3>1, <3>2, <3>3 DEF AtLeastZero
    <3> QED
      BY <2>1, <2>2, <2>3, <3>4 DEF Bounded, SameWalk, Asked, Running
  <2>4. CASE ~(walk.style = "backward" /\ walk.args.before = Null)
    <3>1. Begin' = Begin
      BY <2>1, <2>2, <2>4 DEF Begin, SameWalk
    <3> QED
      BY <2>1, <2>2, <3>1 DEF Bounded, SameWalk, Asked, Running
  <2> QED
    BY <2>3, <2>4
<1>2. CASE getPagination
  <2>1. /\ SameWalk /\ walk.pc = "paginate"
        /\ walk'.pc \in {"rejected", "slice", "total"}
        /\ walk'.args = walk.args /\ walk'.count = walk.count
        /\ walk'.pc # "rejected" => walk'.limit = Limit /\ Limit \in Nat
    BY <1>2, PaginateIs
  <2>2. Begin' = Begin
    BY <2>1 DEF Begin, SameWalk
  <2>3. walk.size # 0 => Limit # 0
    BY LimitIsNotZero
  <2>4. walk'.pc # "rejected" /\ walk.size # 0 => walk'.limit > 0
    BY <2>1, <2>3
  <2> QED
    BY <2>1, <2>2, <2>4 DEF Bounded, SameWalk, Asked, Running
<1>3. CASE getIterator
  <2>1. /\ SameWalk /\ walk.pc = "slice" /\ walk'.pc \in {"total", "answer"}
        /\ walk'.args = walk.args /\ walk'.count = walk.count
        /\ walk'.limit = walk.limit
    BY <1>3, IterateIs
  <2>2. Begin' = Begin
    BY <2>1 DEF Begin, SameWalk
  <2> QED
    BY <2>1, <2>2 DEF Bounded, SameWalk, Asked, Running
<1>4. CASE getTotalItems
  <2>1. /\ SameWalk /\ walk.pc = "total" /\ walk'.pc \in {"slice", "answer"}
        /\ walk'.args = walk.args /\ walk'.count = walk.count
        /\ walk'.limit = walk.limit
    BY <1>4, TotalIs
  <2>2. Begin' = Begin
    BY <2>1 DEF Begin, SameWalk
  <2> QED
    BY <2>1, <2>2 DEF Bounded, SameWalk, Asked, Running
<1>5. CASE Follow
  <2>1. CASE walk.size = 0
    <3>1. walk'.size = 0
      BY <1>5, <2>1, FollowIs, AskIs, StopIs, ItemsAreFinite DEF Typed, SameWalk
    <3> QED
      BY <3>1 DEF Bounded
  <2>2. CASE walk.size # 0 /\ \E a \in Args, s \in Seq(Items) : Ask(a, s) /\ Sound(a)
    <3>1. PICK a \in Args, s \in Seq(Items) : Ask(a, s) /\ Sound(a)
      BY <2>2
    <3>2. /\ SameWalk /\ walk'.pc = "addCount" /\ walk'.args = a
          /\ walk'.count = 0
      BY <3>1, AskIs, ItemsAreFinite DEF Typed
    <3>3. /\ Begin' = getOffset(isGraphQl(walk.style), a, 0)
          /\ Limit' = getLimit(isGraphQl(walk.style), a)
      BY <3>2 DEF Begin, Limit, SameWalk
    <3> QED
      BY <3>1, <3>2, <3>3 DEF Bounded, Sound, Asked
  <2>3. CASE walk.size # 0 /\ \E s \in Seq(Items) : Stop(s)
    <3>1. /\ SameWalk /\ walk'.pc = "done" /\ walk'.args = walk.args
      BY <2>3, StopIs, ItemsAreFinite DEF Typed
    <3> QED
      BY <2>3, <3>1 DEF Bounded, SameWalk, Asked, Running
  <2> QED
    BY <1>5, <2>1, <2>2, <2>3, FollowIsSound
<1>6. CASE Insert \/ Delete
  <2>1. walk' = walk
    BY <1>6, ChangeIs
  <2> QED
    BY <2>1 DEF Bounded, Asked, Running, Begin, Limit
<1>7. CASE UNCHANGED vars
  BY <1>7 DEF vars, Bounded, Asked, Running, Begin, Limit
<1> QED
  BY <1>1, <1>2, <1>3, <1>4, <1>5, <1>6, <1>7 DEF Next, Step, Follow

(* Only the first request of a walk can be rejected.                       *)
LEMMA RejectedNext ==
  ASSUME Typed, Bounded, PagesHoldItems, Cardinality(Items) <= PHP_INT_MAX,
         LinksAreValid, [Next]_vars
  PROVE  LinksAreValid'
<1>1. CASE getPagination
  <2>1. /\ SameWalk /\ walk.pc = "paginate" /\ walk'.args = walk.args
        /\ walk'.pc = "rejected" <=>
             isInvalid(isGraphQl(walk.style), walk.args, walk.count)
    BY <1>1, PaginateIs
  <2>2. /\ walk.style \in AllStyles /\ walk.size \in Sizes /\ walk.count \in Nat
        /\ ArgsOf(walk.style, walk.size, walk.args)
        /\ Cardinality(Items) \in Nat /\ PHP_INT_MAX \in Nat
    BY ItemsAreFinite, WalkAssumption, PaginationAssumption DEF Typed, WalkType
  <2>3. Begin \in Int /\ Limit \in Int /\ getPage(walk.args) \in Int
    <3>1. Limit \in Int
      BY <2>2, LimitIs DEF Limit
    <3>2. Begin \in Int /\ getPage(walk.args) \in Int
      BY <2>2, OffsetIs DEF Begin
    <3> QED
      BY <3>1, <3>2
  <2>4. walk.size # 0 /\ walk.args # walk.first => walk'.pc # "rejected"
    <3> SUFFICES ASSUME walk.size # 0, walk.args # walk.first
                 PROVE  walk'.pc # "rejected"
      OBVIOUS
    <3>1. getPage(walk.args) >= 1 /\ Limit > 0 /\ Begin <= Cardinality(Items)
      BY <2>1 DEF Bounded
    <3>2. Begin <= PHP_INT_MAX
      BY <2>2, <2>3, <3>1
    <3>3. ~isInvalid(isGraphQl(walk.style), walk.args, walk.count)
      BY <2>2, <2>3, <3>1, <3>2 DEF isInvalid, Begin, Limit
    <3> QED
      BY <2>1, <3>3
  <2> QED
    BY <2>1, <2>4 DEF LinksAreValid, SameWalk
<1>2. CASE addCountToContext
  BY <1>2, CountIs DEF LinksAreValid
<1>3. CASE getIterator
  BY <1>3, IterateIs DEF LinksAreValid
<1>4. CASE getTotalItems
  BY <1>4, TotalIs DEF LinksAreValid
<1>5. CASE Follow
  BY <1>5, FollowIs, AskIs, StopIs, ItemsAreFinite DEF LinksAreValid, Typed
<1>6. CASE Insert \/ Delete
  BY <1>6, ChangeIs DEF LinksAreValid
<1>7. CASE UNCHANGED vars
  BY <1>7 DEF LinksAreValid, vars
<1> QED
  BY <1>1, <1>2, <1>3, <1>4, <1>5, <1>6, <1>7 DEF Next, Step, Follow

(* The server never answers 400 to a request made of what it gave, whatever*)
(* others insert and delete: if pages may hold items, and no page begins   *)
(* beyond the largest integer.                                             *)
THEOREM RequestsOfAnswersAreValid ==
  ASSUME PagesHoldItems, Cardinality(Items) <= PHP_INT_MAX
  PROVE  Spec => []LinksAreValid
<1> DEFINE Inv == Typed /\ Bounded /\ LinksAreValid
<1>1. Init => Inv
  BY InitIs, BoundedInit DEF LinksAreValid
<1>2. Inv /\ [Next]_vars => Inv'
  BY TypedNext, BoundedNext, RejectedNext
<1>3. Inv => LinksAreValid
  OBVIOUS
<1> QED
  BY <1>1, <1>2, <1>3, PTL DEF Spec

-----------------------------------------------------------------------------
(* The walk with the range of a field.                                     *)

Increasing(s) == \A j, k \in DOMAIN s : j < k => s[j] < s[k]

(* The walk has seen what was there up to the cursor, and the page that    *)
(* was read holds the next ones.                                           *)
UpToTheCursor ==
  LET gt == walk.args.gt
      page == walk.page
  IN  walk.style = "field" =>
        /\ Increasing(walk.seen)
        /\ Running => \A i \in SetOf(walk.seen) : gt # Null /\ i <= gt
        /\ Running /\ gt # Null =>
             \A i \in steady : i <= gt => i \in SetOf(walk.seen)
        /\ Taken => Increasing(page) /\ \A i \in SetOf(page) : gt # Null => i > gt
        /\ Taken => \A i \in steady : (gt # Null => i > gt) =>
             \/ i \in SetOf(page)
             \/ Len(page) = walk.limit /\ \A j \in SetOf(page) : j < i
        /\ Ended => steady \subseteq SetOf(walk.seen)

(* Two increasing sequences, the second one above the first.               *)
LEMMA IncreasingConcat ==
  ASSUME NEW s \in Seq(Nat), NEW t \in Seq(Nat), Increasing(s), Increasing(t),
         \A i \in SetOf(s), j \in SetOf(t) : i < j
  PROVE  Increasing(s \o t)
<1> DEFINE u == s \o t
           n == Len(s)
           m == Len(t)
<1>1. /\ n \in Nat /\ m \in Nat
      /\ DOMAIN s = 1..n /\ DOMAIN t = 1..m /\ DOMAIN u = 1..(n + m)
      /\ \A i \in 1..(n + m) : u[i] = IF i <= n THEN s[i] ELSE t[i - n]
  <2>1. u \in Seq(Nat) /\ Len(u) = n + m
        /\ \A i \in 1..(n + m) : u[i] = IF i <= n THEN s[i] ELSE t[i - n]
    BY ConcatProperties
  <2>2. n \in Nat /\ m \in Nat /\ DOMAIN s = 1..n /\ DOMAIN t = 1..m
    BY LenProperties
  <2>3. DOMAIN u = 1..(n + m)
    <3> HIDE DEF u
    <3> QED
      BY <2>1, LenProperties
  <2> QED
    BY <2>1, <2>2, <2>3
<1> HIDE DEF u, n, m
<1>2. ASSUME NEW j \in 1..(n + m), NEW k \in 1..(n + m), j < k
      PROVE  u[j] < u[k]
  <2>1. CASE k <= n
    <3>1. j \in DOMAIN s /\ k \in DOMAIN s /\ u[j] = s[j] /\ u[k] = s[k]
      BY <1>1, <1>2, <2>1
    <3> QED
      BY <1>2, <3>1 DEF Increasing
  <2>2. CASE j > n
    <3>1. j - n \in DOMAIN t /\ k - n \in DOMAIN t /\ j - n < k - n
      BY <1>1, <1>2, <2>2
    <3>2. u[j] = t[j - n] /\ u[k] = t[k - n]
      BY <1>1, <1>2, <2>2
    <3> QED
      BY <3>1, <3>2 DEF Increasing
  <2>3. CASE j <= n /\ k > n
    <3>1. j \in DOMAIN s /\ k - n \in DOMAIN t /\ u[j] = s[j] /\ u[k] = t[k - n]
      BY <1>1, <1>2, <2>3
    <3>2. s[j] \in SetOf(s) /\ t[k - n] \in SetOf(t)
      BY <3>1 DEF SetOf
    <3> QED
      BY <3>1, <3>2
  <2> QED
    BY <1>1, <2>1, <2>2, <2>3
<1> QED
  BY <1>1, <1>2 DEF Increasing, u

(* The page of a range is the next elements of it.                         *)
LEMMA FirstBand ==
  ASSUME NEW S \in SUBSET Nat, IsFiniteSet(S), NEW l \in Nat
  PROVE  LET page == Slice(S, 0, l)
         IN  /\ Increasing(page) /\ SetOf(page) \subseteq S
             /\ \A i \in S : \/ i \in SetOf(page)
                             \/ /\ Len(page) = l
                                /\ \A j \in SetOf(page) : j < i
<1> DEFINE page == Slice(S, 0, l)
<1>1. page = Band(S, 0, l) /\ Len(page) <= l /\ Len(page) \in Nat
      /\ (Len(page) < l => Len(page) >= Cardinality(S))
  BY SliceIs
<1>2. SetOf(page) = Foremost(S, l) \ Foremost(S, 0) /\ Increasing(page)
  BY <1>1, BandHolds DEF Increasing
<1>3. Foremost(S, 0) = {} /\ Foremost(S, l) \subseteq S
  BY ForemostIs
<1> HIDE DEF page
<1>4. SetOf(page) = Foremost(S, l)
  BY <1>2, <1>3
<1>5. ASSUME NEW i \in S, i \notin SetOf(page)
      PROVE  Len(page) = l /\ \A j \in SetOf(page) : j < i
  <2>0. \A x \in S : x \in Nat
    OBVIOUS
  <2>1. Rank(S, i) \in Nat /\ Rank(S, i) < Cardinality(S) /\ Cardinality(S) \in Nat
    BY <2>0, RankIs
  <2>2. ~(Rank(S, i) < l)
    BY <1>4, <1>5 DEF Foremost
  <2>3. Len(page) = l
    BY <1>1, <2>1, <2>2
  <2>4. ASSUME NEW j \in SetOf(page) PROVE j < i
    <3>1. j \in S /\ Rank(S, j) < l
      BY <1>4 DEF Foremost
    <3>2. Rank(S, j) \in Nat
      BY <2>0, <3>1, RankIs
    <3>3. Rank(S, j) < Rank(S, i)
      BY <2>1, <2>2, <3>1, <3>2
    <3> QED
      BY <3>1, <3>3, RankGrows
  <2> QED
    BY <2>3, <2>4
<1> QED
  BY <1>2, <1>3, <1>4, <1>5 DEF page

(* Every step keeps what a walk by the range filter knows.                 *)
LEMMA UpToTheCursorNext ==
  ASSUME Typed, Bounded, UpToTheCursor, [Next]_vars
  PROVE  UpToTheCursor'
<1> DEFINE gt == walk.args.gt
<1>0. /\ walk \in WalkType /\ \A i \in Items : i \in Nat
      /\ steady \subseteq items /\ items \subseteq Items
      /\ items \in SUBSET Nat /\ IsFiniteSet(items)
      /\ ArgsOf(walk.style, walk.size, walk.args)
  BY ItemsAreFinite, WalkAssumption DEF Typed, TypeOK
<1> USE DEF UpToTheCursor
<1>1. CASE addCountToContext \/ getPagination \/ getTotalItems
  <2>1. CASE walk.style # "field"
    BY <1>1, <2>1, CountIs, PaginateIs, TotalIs DEF SameWalk
  <2>2. CASE walk.style = "field"
    <3>1. ~getTotalItems
      BY <2>2 DEF Typed, getTotalItems
    <3>2. /\ SameWalk /\ SameItems /\ Running /\ ~Taken
          /\ ~Taken' /\ ~Ended'
          /\ walk'.args = walk.args /\ walk'.seen = walk.seen
      BY <1>1, <2>2, <3>1, CountIs, PaginateIs
         DEF Running, Taken, Ended, SameWalk
    <3> QED
      BY <2>2, <3>2 DEF SameWalk, SameItems
  <2> QED
    BY <2>1, <2>2
<1>2. CASE getIterator
  <2>1. CASE walk.style # "field"
    BY <1>2, <2>1, IterateIs DEF SameWalk
  <2>2. CASE walk.style = "field"
    <3>1. /\ SameWalk /\ SameItems /\ walk.pc = "slice" /\ walk'.pc = "answer"
          /\ walk'.args = walk.args /\ walk'.seen = walk.seen
          /\ walk'.limit = walk.limit /\ walk.limit \in Nat
          /\ walk'.page = Slice(filtered, walk.offset, walk.limit)
      BY <1>0, <1>2, <2>2, IterateIs DEF isCounted, WalkType
    <3>2. walk.offset = 0
      <4>1. /\ walk.offset = Begin /\ walk.style \in AllStyles
            /\ walk.size \in Sizes /\ walk.count \in Nat
        BY <1>0, <3>1, WalkAssumption DEF Typed, Asked, WalkType
      <4>2. getPage(walk.args) = 1
        BY <1>0, <2>2 DEF ArgsOf, getPage, getParameterFromContext
      <4> DEFINE l == PageLimit(walk.size)
      <4>3. Begin = (1 - 1) * l
        BY <1>0, <2>2, <4>1, <4>2, OffsetIs DEF Begin
      <4>4. l \in Int
        BY <1>0, <2>2, <4>1, LimitIs
      <4> HIDE DEF l
      <4>5. (1 - 1) * l = 0
        BY <4>4
      <4> QED
        BY <4>1, <4>3, <4>5
    <3>3. filtered \in SUBSET Nat /\ IsFiniteSet(filtered)
      <4>1. filtered \subseteq items
        BY DEF filtered
      <4> QED
        BY <1>0, <4>1, NoMore
    <3>4. /\ Increasing(walk'.page) /\ SetOf(walk'.page) \subseteq filtered
          /\ \A i \in filtered :
               \/ i \in SetOf(walk'.page)
               \/ /\ Len(walk'.page) = walk.limit
                  /\ \A j \in SetOf(walk'.page) : j < i
      BY <3>1, <3>2, <3>3, FirstBand
    <3>5. /\ \A i \in SetOf(walk'.page) : gt # Null => i > gt
          /\ \A i \in steady : (gt # Null => i > gt) => i \in filtered
      BY <1>0, <3>4 DEF filtered
    <3>6. Running /\ ~Ended'
      BY <3>1 DEF Running, Ended
    <3> QED
      BY <2>2, <3>1, <3>4, <3>5, <3>6 DEF SameWalk, SameItems
  <2> QED
    BY <2>1, <2>2
<1>3. CASE FollowField
  <2> DEFINE page == walk.page
             n == Len(page)
  <2>1. walk.pc = "answer" /\ walk.style = "field" /\ Taken /\ Running
    BY <1>3, FollowFieldIs DEF Taken, Running
  <2>2. /\ walk.seen \in Seq(Items) /\ page \in Seq(Items)
        /\ After \in Seq(Items) /\ SetOf(After) = SetOf(walk.seen) \cup SetOf(page)
        /\ walk.limit \in Nat
    BY <1>0, <2>1, AnswerIs, SetOfConcat DEF After
  <2>3. gt = Null \/ gt \in Nat
    BY <1>0, <2>1 DEF ArgsOf
  <2>4. /\ \A i \in SetOf(walk.seen) : i \in Nat /\ gt \in Nat /\ i <= gt
        /\ \A i \in SetOf(page) : i \in Nat /\ (gt # Null => i > gt)
        /\ \A i \in steady : i \in Nat
    <3>1. \A i \in SetOf(walk.seen) : i \in Items
      BY <2>2, SetOfIs
    <3>2. \A i \in SetOf(page) : i \in Items
      BY <2>2, SetOfIs
    <3> QED
      BY <1>0, <2>1, <2>3, <3>1, <3>2
  <2>5. Increasing(After)
    <3>1. Increasing(walk.seen) /\ Increasing(page)
      BY <2>1
    <3>2. \A i \in SetOf(walk.seen), j \in SetOf(page) : i < j
      <4> TAKE i \in SetOf(walk.seen), j \in SetOf(page)
      <4>1. i \in Nat /\ gt \in Nat /\ j \in Nat /\ i <= gt /\ gt # Null
        BY <2>4, PaginationAssumption
      <4>2. j > gt
        BY <2>4, <4>1
      <4> QED
        BY <4>1, <4>2
    <3>3. walk.seen \in Seq(Nat) /\ page \in Seq(Nat)
      <4>1. Items \subseteq Nat
        BY <1>0
      <4> QED
        BY <2>2, <4>1, SeqOfMore
    <3> QED
      BY <3>1, <3>2, <3>3, IncreasingConcat DEF After
  <2>6. CASE page = <<>> /\ Stop(After)
    <3>1. SameWalk /\ SameItems /\ walk'.pc = "done" /\ walk'.seen = After
      BY <1>0, <2>2, <2>6, StopIs
    <3>2. ~Running' /\ ~Taken'
      BY <3>1 DEF Running, Taken
    <3>3. SetOf(page) = {} /\ n = 0
      BY <2>2, <2>6, EmptySeq DEF SetOf
    <3>4. ASSUME walk.size # 0, NEW i \in steady PROVE i \in SetOf(After)
      <4>1. walk.limit # 0
        BY <2>1, <3>4 DEF Bounded, Asked
      <4>2. CASE gt # Null /\ i <= gt
        BY <2>1, <2>2, <4>2
      <4>3. CASE ~(gt # Null /\ i <= gt)
        <5>1. gt # Null => i > gt
          BY <2>3, <2>4, <4>3
        <5> QED
          BY <2>1, <3>3, <4>1, <5>1
      <4> QED
        BY <4>2, <4>3
    <3>5. Ended' => steady' \subseteq SetOf(walk'.seen)
      BY <3>1, <3>4 DEF Ended, SameWalk, SameItems
    <3> QED
      BY <2>5, <3>1, <3>2, <3>5
  <2>7. CASE page # <<>> /\ \E a \in Args : Ask(a, After) /\ a.gt = page[n]
    <3>1. PICK a \in Args : Ask(a, After) /\ a.gt = page[n]
      BY <2>7
    <3>2. /\ SameWalk /\ SameItems /\ walk'.pc = "addCount"
          /\ walk'.seen = After /\ walk'.args = a
      BY <1>0, <2>2, <3>1, AskIs
    <3>3. ~Taken' /\ ~Ended'
      BY <3>2 DEF Taken, Ended
    <3>4. n \in Nat \ {0} /\ DOMAIN page = 1..n
      BY <2>2, <2>7, EmptySeq, LenProperties
    <3>5. page[n] \in SetOf(page) /\ \A i \in SetOf(page) : i <= page[n]
      <4>1. page[n] \in SetOf(page)
        BY <3>4 DEF SetOf
      <4>2. ASSUME NEW k \in DOMAIN page PROVE page[k] <= page[n]
        <5>1. page[k] \in SetOf(page)
          BY DEF SetOf
        <5>2. k < n => page[k] < page[n]
          BY <2>1, <3>4 DEF Increasing
        <5>3. k < n \/ k = n
          BY <3>4
        <5> QED
          BY <2>4, <4>1, <5>1, <5>2, <5>3
      <4> QED
        BY <4>1, <4>2 DEF SetOf
    <3>6. a.gt \in Nat /\ a.gt # Null
      BY <2>4, <3>1, <3>5, PaginationAssumption
    <3>7. ASSUME NEW i \in SetOf(After) PROVE i <= a.gt
      <4>1. CASE i \in SetOf(page)
        BY <3>1, <3>5, <4>1
      <4>2. CASE i \in SetOf(walk.seen)
        <5>1. i \in Nat /\ gt \in Nat /\ i <= gt /\ gt # Null
          BY <2>4, <4>2, PaginationAssumption
        <5>2. a.gt > gt
          BY <2>4, <3>1, <3>5, <5>1
        <5> QED
          BY <3>6, <5>1, <5>2
      <4> QED
        BY <2>2, <3>7, <4>1, <4>2
    <3>8. ASSUME NEW i \in steady, i <= a.gt PROVE i \in SetOf(After)
      <4>1. CASE gt # Null /\ i <= gt
        BY <2>1, <2>2, <4>1
      <4>2. CASE ~(gt # Null /\ i <= gt)
        <5>1. gt # Null => i > gt
          BY <2>3, <2>4, <4>2
        <5>2. i \in SetOf(page) \/ \A j \in SetOf(page) : j < i
          BY <2>1, <5>1
        <5>3. ~(page[n] < i)
          BY <2>4, <3>1, <3>6, <3>8
        <5> QED
          BY <2>2, <3>5, <5>2, <5>3
      <4> QED
        BY <4>1, <4>2
    <3> QED
      BY <2>5, <3>2, <3>3, <3>6, <3>7, <3>8 DEF SameItems
  <2> QED
    BY <1>3, <2>6, <2>7, FollowFieldIs
<1>4. CASE Follow /\ ~FollowField
  <2>1. walk.style # "field"
    BY <1>4, FollowNextIs, FollowPreviousIs, FollowNumberedIs, FollowForwardIs,
       FollowBackwardIs, FollowEdgesIs DEF Follow
  <2>2. walk'.style = walk.style
    BY <1>4, FollowIs, AskIs, StopIs, ItemsAreFinite DEF Typed, SameWalk
  <2> QED
    BY <2>1, <2>2
<1>5. CASE Insert \/ Delete
  <2>1. walk' = walk /\ Running /\ steady' \subseteq steady
    BY <1>5, ChangeIs
  <2>2. ~Ended' /\ (Running' <=> Running) /\ (Taken' <=> Taken)
    BY <2>1 DEF Ended, Running, Taken
  <2> QED
    BY <2>1, <2>2
<1>6. CASE UNCHANGED vars
  BY <1>6 DEF vars, Running, Taken, Ended
<1> QED
  BY <1>1, <1>2, <1>3, <1>4, <1>5, <1>6 DEF Next, Step, Follow

(* It knows nothing yet.                                                   *)
LEMMA UpToTheCursorInit ==
  ASSUME Init
  PROVE  UpToTheCursor
<1>1. /\ walk.seen = <<>> /\ walk.pc = "addCount" /\ walk.args.gt = Null
  BY InitIs
<1> QED
  BY <1>1 DEF UpToTheCursor, Increasing, SetOf, Taken, Ended

(* With paginationViaCursor a walk misses and repeats nothing, whatever    *)
(* others insert and delete, of every collection and for every limit.      *)
THEOREM FieldWalksAreExact ==
  ASSUME PagesHoldItems
  PROVE  Spec => []FieldWalkIsExact
<1> DEFINE Inv == Typed /\ Bounded /\ UpToTheCursor
<1>1. Init => Inv
  BY InitIs, BoundedInit, UpToTheCursorInit
<1>2. Inv /\ [Next]_vars => Inv'
  BY TypedNext, BoundedNext, UpToTheCursorNext
<1>3. Inv => FieldWalkIsExact
  BY DEF UpToTheCursor, FieldWalkIsExact, Increasing, SetOf
<1> QED
  BY <1>1, <1>2, <1>3, PTL DEF Spec

-----------------------------------------------------------------------------
(* A walk through a collection that nobody changes.                        *)

(* Where the walk began, and how far it has read.                          *)
Skipped ==
  IF walk.style \in {"pages", "numbered"}
  THEN (getPage(walk.first) - 1) * PageLimit(walk.size) ELSE 0
Reached == IF Taken THEN Begin + Limit ELSE Begin

Counted ==
  /\ walk.pc \in {"slice", "answer"} /\ totalComesFirst(walk.style) =>
       walk.total = Cardinality(items)
  /\ walk.pc = "answer" /\ isCounted(walk.style) =>
       walk.total = Cardinality(items)
  /\ /\ Running /\ walk.pc # "addCount"
     /\ walk.style = "backward" /\ walk.args.before = Null
     => walk.count = Cardinality(items)

ForthOnCourse ==
  Running /\ walk.style \in Forth /\ Begin >= 0 =>
    /\ Skipped \in Nat /\ Skipped <= Begin
    /\ After = Band(items, Skipped, Reached)

BackOnCourse ==
  Running /\ walk.style = "back" =>
    IF walk.args.page = Null THEN walk.seen = <<>>
    ELSE /\ walk.seen = Band(items, Begin + Limit, Cardinality(items))
         /\ Begin < Cardinality(items)

BackwardOnCourse ==
  Running /\ walk.style = "backward" =>
    IF walk.args.before = Null THEN walk.seen = <<>>
    ELSE /\ walk.seen = Band(items, walk.args.before, Cardinality(items))
         /\ walk.args.before <= Cardinality(items)

(* What was read is a band of the collection, and at the end all of it.    *)
OnCourse ==
  changes = 0 /\ walk.size # 0 =>
    /\ steady = items
    /\ Counted
    /\ Taken /\ walk.style # "field" =>
         walk.page = Band(items, Begin, Begin + Limit)
    /\ ForthOnCourse /\ BackOnCourse /\ BackwardOnCourse
    /\ walk.style = "field" =>
         /\ SetOf(walk.seen) \subseteq items
         /\ Running => SetOf(walk.page) \subseteq items
    /\ walk.pc = "done" /\ walk.style # "field" =>
         walk.seen = Band(items, Skipped, Cardinality(items))

(* A page that is not full reaches the end.                                *)
LEMMA PageIs ==
  ASSUME Typed, OnCourse, changes = 0, walk.size # 0, walk.pc = "answer",
         walk.style # "field"
  PROVE  /\ walk.page = Band(items, walk.offset, walk.offset + walk.limit)
         /\ Len(walk.page) < walk.limit => Behind >= Cardinality(items)
         /\ walk.offset + walk.limit <= Cardinality(items) =>
              Len(walk.page) = walk.limit
<1>1. /\ items \in SUBSET Nat /\ IsFiniteSet(items) /\ Cardinality(items) \in Nat
      /\ walk.offset \in Nat /\ walk.limit \in Nat
      /\ walk.offset = Begin /\ walk.limit = Limit
  BY AnswerIs, ItemsAreFinite DEF Typed
<1> DEFINE o == walk.offset
           l == walk.limit
           c == Cardinality(items)
           b == o + l
<1>2. walk.page = Band(items, o, b)
  BY <1>1 DEF OnCourse, Taken
<1>3. Slice(items, o, l) = walk.page
      /\ (Len(Slice(items, o, l)) < l => o + Len(Slice(items, o, l)) >= c)
  BY <1>1, <1>2, SliceIs
<1>4. b <= c => Len(walk.page) = l
  <2>1. b \in Nat /\ o \in Nat /\ b = o + l
    BY <1>1
  <2> HIDE DEF b, o
  <2>2. Len(Band(items, o, b)) =
          LET e == IF b < c THEN b ELSE c IN IF o < e THEN e - o ELSE 0
    BY <1>1, <2>1, BandIs
  <2> QED
    BY <1>1, <1>2, <2>1, <2>2
<1> QED
  BY <1>1, <1>2, <1>3, <1>4 DEF Behind

(* A walk forth that asks for another page stays on its course.            *)
LEMMA ForthGoesOn ==
  ASSUME Typed, Bounded, OnCourse, changes = 0, walk.size # 0,
         walk.pc = "answer", walk.style \in Forth, NEW a \in Args, Onward(a)
  PROVE  OnCourse'
<1> DEFINE o == getOffset(isGraphQl(walk.style), a, 0)
           c == Cardinality(items)
           b == walk.offset + walk.limit
<1>1. /\ walk \in WalkType /\ After \in Seq(Items)
      /\ walk.offset \in Nat /\ walk.limit \in Nat /\ walk.limit > 0
      /\ walk.offset = Begin /\ walk.limit = Limit
      /\ items \in SUBSET Nat /\ IsFiniteSet(items) /\ c \in Nat
      /\ Len(walk.page) \in Nat /\ Len(walk.page) <= walk.limit
  BY AnswerIs, ItemsAreFinite DEF Typed, After, Bounded, Asked
<1>2. /\ Ask(a, After) /\ o \in Nat /\ o >= Behind
      /\ o = Behind \/ Len(walk.page) < walk.limit
  BY <1>1 DEF Onward
<1>3. /\ SameWalk /\ SameItems /\ walk'.pc = "addCount" /\ walk'.args = a
      /\ walk'.seen = After /\ walk'.page = <<>> /\ walk'.count = 0
  BY <1>1, <1>2, AskIs
<1>4. Begin' = o /\ Skipped' = Skipped /\ Reached' = o
  BY <1>3 DEF Begin, Skipped, Reached, Taken, SameWalk
<1>5. After' = After
  BY <1>1, <1>3, ConcatEmptySeq DEF After
<1>6. /\ Skipped \in Nat /\ Skipped <= walk.offset
      /\ After = Band(items, Skipped, b)
  BY <1>1 DEF OnCourse, ForthOnCourse, Running, Reached, Taken
<1>7. Len(walk.page) < walk.limit => Behind >= c
  BY PageIs DEF Forth
<1>8. Band(items, Skipped, b) = Band(items, Skipped, o)
  <2>1. CASE Len(walk.page) = walk.limit
    BY <1>1, <1>2, <2>1 DEF Behind
  <2>2. CASE Len(walk.page) < walk.limit
    <3>1. b \in Nat /\ b >= c /\ o >= c
      BY <1>1, <1>2, <1>7, <2>2 DEF Behind
    <3> HIDE DEF b, o
    <3> QED
      BY <1>1, <1>2, <1>6, <3>1, BandToTheEnd
  <2> QED
    BY <1>1, <2>1, <2>2
<1>9. Skipped <= o
  BY <1>1, <1>2, <1>6 DEF Behind
<1> HIDE DEF o, b
<1>10. ForthOnCourse'
  BY <1>3, <1>4, <1>5, <1>6, <1>8, <1>9 DEF ForthOnCourse, SameItems
<1>11. walk'.style \in Forth /\ ~Taken' /\ walk'.pc = "addCount"
  BY <1>3 DEF SameWalk, Taken
<1>12. steady' = items'
  BY <1>3 DEF OnCourse, SameItems
<1> QED
  BY <1>10, <1>11, <1>12
     DEF OnCourse, Counted, BackOnCourse, BackwardOnCourse, Forth

(* So does one that ends.                                                  *)
LEMMA ForthEnds ==
  ASSUME Typed, Bounded, OnCourse, changes = 0, walk.size # 0,
         walk.pc = "answer", walk.style \in Forth, AtEnd
  PROVE  OnCourse'
<1> DEFINE c == Cardinality(items)
           b == walk.offset + walk.limit
<1>1. /\ walk \in WalkType /\ After \in Seq(Items)
      /\ walk.offset \in Nat /\ walk.limit \in Nat /\ walk.limit > 0
      /\ walk.offset = Begin /\ walk.limit = Limit
      /\ items \in SUBSET Nat /\ IsFiniteSet(items) /\ c \in Nat
      /\ Len(walk.page) \in Nat
  BY AnswerIs, ItemsAreFinite DEF Typed, After, Bounded, Asked
<1>2. /\ SameWalk /\ SameItems /\ walk'.pc = "done" /\ walk'.seen = After
  BY <1>1, StopIs DEF AtEnd
<1>3. /\ Skipped \in Nat /\ After = Band(items, Skipped, b)
  BY <1>1 DEF OnCourse, ForthOnCourse, Running, Reached, Taken
<1>4. b >= c
  <2>1. Len(walk.page) < walk.limit => Behind >= c
    BY PageIs DEF Forth
  <2>2. walk.style \in {"pages", "numbered", "forward"} => walk.total = c
    BY DEF OnCourse, Counted, isCounted, totalComesFirst
  <2> QED
    BY <1>1, <2>1, <2>2 DEF AtEnd, Behind
<1>5. After = Band(items, Skipped, c)
  <2>1. b \in Nat
    BY <1>1
  <2> HIDE DEF b
  <2> QED
    BY <1>1, <1>3, <1>4, <2>1, BandToTheEnd
<1>6. Skipped' = Skipped /\ ~Running' /\ ~Taken'
  BY <1>2 DEF Skipped, SameWalk, Running, Taken
<1>7. steady' = items'
  BY <1>2 DEF OnCourse, SameItems
<1> QED
  BY <1>2, <1>5, <1>6, <1>7
     DEF OnCourse, Counted, ForthOnCourse, BackOnCourse, BackwardOnCourse,
         SameWalk, SameItems, Forth

(* The product of a page number and a limit grows by the limit.            *)
LEMMA AtLeastOnce ==
  ASSUME NEW x \in Nat, NEW l \in Nat \ {0}
  PROVE  x * l \in Nat /\ (x + 1) * l = x * l + l /\ (x * l < l => x = 0)
<1>1. CASE x = 0
  BY <1>1
<1>2. CASE x # 0
  <2>1. x - 1 \in Nat /\ (x - 1) * l \in Nat /\ x * l = (x - 1) * l + l
    BY <1>2
  <2> QED
    BY <2>1
<1> QED
  BY <1>1, <1>2

(* A walk back by links stays on its course.                               *)
LEMMA BackGoesOn ==
  ASSUME Typed, Bounded, OnCourse, changes = 0, walk.size # 0, FollowPrevious
  PROVE  OnCourse'
<1> DEFINE c == Cardinality(items)
           b == walk.offset + walk.limit
<1>1. walk.pc = "answer" /\ walk.style = "back"
  BY FollowPreviousIs
<1>2. /\ walk \in WalkType /\ Before \in Seq(Items) /\ walk.seen \in Seq(Items)
      /\ walk.page \in Seq(Items)
      /\ walk.offset \in Nat /\ walk.limit \in Nat /\ walk.limit > 0
      /\ walk.offset = Begin /\ walk.limit = Limit
      /\ getPage(walk.args) \in Nat \ {0}
      /\ walk.offset = (getPage(walk.args) - 1) * walk.limit
      /\ items \in SUBSET Nat /\ IsFiniteSet(items) /\ c \in Nat
  BY <1>1, AnswerIs, ItemsAreFinite DEF Typed, Before, Bounded, Asked
<1>3. /\ steady = items /\ walk.total = c
      /\ walk.page = Band(items, walk.offset, b)
  BY <1>1, PageIs DEF OnCourse, Counted, totalComesFirst
<1>4. IF walk.args.page = Null THEN walk.seen = <<>>
      ELSE walk.seen = Band(items, b, c) /\ walk.offset < c
  BY <1>1, <1>2 DEF OnCourse, BackOnCourse, Running
<1>5. b \in Nat /\ walk.offset <= b /\ b = walk.offset + walk.limit
  BY <1>2
<1> HIDE DEF b, c
<1>6. ASSUME NEW q, NEW s, BackTo(q, s),
             s = Band(items, (q - 1) * walk.limit + walk.limit, c),
             (q - 1) * walk.limit < c, s \in Seq(Items)
      PROVE  OnCourse'
  <2>1. /\ SameWalk /\ SameItems /\ walk'.pc = "addCount"
        /\ walk'.args = WithPage(q) /\ walk'.seen = s /\ walk'.count = 0
        /\ walk'.args.page = q /\ q # Null
    BY <1>2, <1>6, AskIs, PaginationAssumption DEF BackTo
  <2>2. Begin' = (q - 1) * walk.limit /\ Limit' = walk.limit
    BY <1>6, <2>1 DEF BackTo, Begin, Limit, SameWalk
  <2>3. BackOnCourse'
    BY <1>6, <2>1, <2>2 DEF BackOnCourse, SameItems, c
  <2>4. ~Taken' /\ steady' = items' /\ walk'.style = "back"
    BY <1>1, <1>3, <2>1 DEF Taken, SameWalk, SameItems
  <2> QED
    BY <2>1, <2>3, <2>4
       DEF OnCourse, Counted, ForthOnCourse, BackwardOnCourse, Forth
<1>7. ASSUME Stop(Before), Before = Band(items, 0, c)
      PROVE  OnCourse'
  <2>1. /\ SameWalk /\ SameItems /\ walk'.pc = "done" /\ walk'.seen = Before
    BY <1>2, <1>7, StopIs
  <2>2. Skipped' = 0 /\ ~Running' /\ ~Taken' /\ walk'.style = "back"
    BY <1>1, <2>1 DEF Skipped, SameWalk, Running, Taken
  <2>3. steady' = items' /\ Cardinality(items') = c
    BY <1>3, <2>1 DEF SameItems, c
  <2>4. walk'.seen = Band(items', Skipped', Cardinality(items'))
    BY <1>7, <2>1, <2>2, <2>3 DEF SameItems
  <2> QED
    BY <2>1, <2>2, <2>3, <2>4
       DEF OnCourse, Counted, ForthOnCourse, BackOnCourse, BackwardOnCourse
<1>8. walk.args.page # Null => Before = Band(items, walk.offset, c)
  BY <1>2, <1>3, <1>4, <1>5, BandsMeetAtTheEnd DEF Before, c
<1>9. CASE /\ walk.args.page = Null
           /\ \E q : /\ BackTo(q, <<>>)
                     /\ walk.limit > 0 =>
                          /\ (q - 1) * walk.limit < walk.total
                          /\ walk.total <= q * walk.limit
  <2>1. PICK q : /\ BackTo(q, <<>>) /\ (q - 1) * walk.limit < c
                 /\ c <= q * walk.limit
    BY <1>2, <1>3, <1>9
  <2>2. q - 1 \in Nat /\ (q - 1) * walk.limit \in Nat
        /\ q * walk.limit = (q - 1) * walk.limit + walk.limit
    <3>1. q \in Nat \ {0}
      BY <2>1 DEF BackTo
    <3> DEFINE r == q - 1
    <3>2. r \in Nat /\ q = r + 1
      BY <3>1
    <3> HIDE DEF r
    <3>3. r * walk.limit \in Nat /\ (r + 1) * walk.limit = r * walk.limit + walk.limit
      BY <1>2, <3>2, AtLeastOnce
    <3> QED
      BY <3>2, <3>3 DEF r
  <2>3. <<>> = Band(items, (q - 1) * walk.limit + walk.limit, c)
    <3> DEFINE e == (q - 1) * walk.limit + walk.limit
    <3>1. e \in Nat /\ c <= e
      BY <1>2, <2>1, <2>2
    <3> HIDE DEF e
    <3>2. Band(items, e, c) = <<>>
      BY <1>2, <3>1, BandToTheEnd DEF c
    <3> QED
      BY <3>2 DEF e
  <2>4. <<>> \in Seq(Items)
    OBVIOUS
  <2> QED
    BY <1>6, <2>1, <2>3, <2>4
<1>10. CASE /\ walk.args.page = Null /\ Stop(Before)
            /\ walk.limit > 0 => walk.total <= walk.limit
  <2>1. walk.offset = 0
    BY <1>2, <1>10 DEF getPage, getParameterFromContext
  <2>2. Before = walk.page
    BY <1>2, <1>4, <1>10, ConcatEmptySeq DEF Before
  <2>3. b >= c
    BY <1>2, <1>3, <1>5, <1>10
  <2>4. Band(items, 0, b) = Band(items, 0, c)
    BY <1>2, <1>5, <2>3, BandToTheEnd DEF c
  <2> QED
    BY <1>3, <1>7, <1>10, <2>1, <2>2, <2>4
<1>11. CASE /\ walk.args.page # Null
            /\ \E q : /\ BackTo(q, Before)
                      /\ walk.limit > 0 =>
                           (q - 1) * walk.limit + walk.limit = walk.offset
  <2>1. PICK q : /\ BackTo(q, Before)
                 /\ (q - 1) * walk.limit + walk.limit = walk.offset
    BY <1>2, <1>11
  <2>2. q - 1 \in Nat /\ (q - 1) * walk.limit \in Nat
    <3>1. q \in Nat \ {0}
      BY <2>1 DEF BackTo
    <3>2. q - 1 \in Nat
      BY <3>1
    <3> QED
      BY <1>2, <3>2, AtLeastOnce
  <2>3. walk.offset < c
    BY <1>4, <1>11
  <2>4. (q - 1) * walk.limit < c
    BY <1>2, <2>1, <2>2, <2>3
  <2> QED
    BY <1>2, <1>6, <1>8, <1>11, <2>1, <2>4
<1>12. CASE /\ walk.args.page # Null /\ Stop(Before)
            /\ walk.limit > 0 => walk.offset = 0 \/ walk.total <= walk.limit
  <2>1. walk.offset = 0
    <3>1. CASE walk.total <= walk.limit
      <4>1. getPage(walk.args) - 1 \in Nat /\ walk.offset < walk.limit
        BY <1>2, <1>3, <1>4, <1>12, <3>1
      <4>2. getPage(walk.args) - 1 = 0
        BY <1>2, <4>1, AtLeastOnce
      <4> QED
        BY <1>2, <4>2
    <3> QED
      BY <1>2, <1>12, <3>1
  <2> QED
    BY <1>7, <1>8, <1>12, <2>1
<1> QED
  BY <1>9, <1>10, <1>11, <1>12, FollowPreviousIs

(* So does a walk back by cursors.                                         *)
LEMMA BackwardGoesOn ==
  ASSUME Typed, Bounded, OnCourse, changes = 0, walk.size # 0, FollowBackward
  PROVE  OnCourse'
<1> DEFINE c == Cardinality(items)
           b == walk.offset + walk.limit
<1>1. walk.pc = "answer" /\ walk.style = "backward" /\ Top \in Nat
  BY FollowBackwardIs
<1>2. /\ walk \in WalkType /\ Before \in Seq(Items) /\ walk.seen \in Seq(Items)
      /\ walk.page \in Seq(Items) /\ walk.count \in Nat
      /\ walk.size \in Sizes
      /\ ArgsOf(walk.style, walk.size, walk.args)
      /\ walk.offset \in Nat /\ walk.limit \in Nat /\ walk.limit > 0
      /\ walk.offset = Begin /\ walk.limit = Limit
      /\ items \in SUBSET Nat /\ IsFiniteSet(items) /\ c \in Nat
  BY <1>1, AnswerIs, ItemsAreFinite DEF Typed, Before, Bounded, Asked
<1>3. /\ steady = items /\ walk.total = c
      /\ walk.args.before = Null => walk.count = c
      /\ walk.page = Band(items, walk.offset, b)
      /\ b <= c => Len(walk.page) = walk.limit
  BY <1>1, PageIs DEF OnCourse, Counted, isCounted, Running
<1>4. IF walk.args.before = Null THEN walk.seen = <<>>
      ELSE walk.seen = Band(items, walk.args.before, c) /\ walk.args.before <= c
  BY <1>1, <1>2 DEF OnCourse, BackwardOnCourse, Running
<1>5. /\ walk.args.last \in Sizes /\ walk.args.last \in Int
      /\ walk.args.before = Null \/ walk.args.before \in Nat
      /\ walk.offset = IF walk.args.before = Null
                       THEN AtLeastZero(walk.count - walk.args.last)
                       ELSE AtLeastZero(walk.args.before - walk.args.last)
      /\ walk.limit = IF walk.args.before # Null
                         /\ walk.args.before < walk.args.last
                      THEN walk.args.before ELSE walk.args.last
  <2>1. /\ walk.args.last \in Sizes
        /\ walk.args.before = Null \/ walk.args.before \in Nat
    BY <1>1, <1>2 DEF ArgsOf
  <2>2. walk.args.last \in Int /\ walk.style \in AllStyles
    BY <1>1, <2>1, WalkAssumption DEF AllStyles
  <2> QED
    BY <1>1, <1>2, <2>1, <2>2, OffsetIs, LimitIs DEF Begin, Limit
<1>6. b \in Nat /\ walk.offset <= b /\ b = walk.offset + walk.limit
  BY <1>2
<1> HIDE DEF b, c
<1>7. Before = Band(items, Top, c) /\ Top <= c
  <2>1. CASE walk.args.before = Null
    <3>1. Top = walk.offset /\ b >= c /\ Top <= c
      BY <1>2, <1>3, <1>5, <1>6, <2>1 DEF Top, AtLeastZero
    <3>2. Before = walk.page
      BY <1>2, <1>4, <2>1, ConcatEmptySeq DEF Before
    <3> QED
      BY <1>2, <1>3, <1>6, <3>1, <3>2, BandToTheEnd DEF c
  <2>2. CASE walk.args.before # Null
    <3>1. b = walk.args.before /\ b <= c
      BY <1>2, <1>4, <1>5, <1>6, <2>2 DEF AtLeastZero
    <3>2. Top = walk.offset /\ Top <= c
      BY <1>1, <1>2, <1>3, <1>5, <1>6, <2>2, <3>1 DEF Top, AtLeastZero
    <3>3. Before = Band(items, walk.offset, c)
      <4>1. Before = Band(items, walk.offset, b) \o Band(items, b, c)
        BY <1>3, <1>4, <2>2, <3>1 DEF Before
      <4> QED
        BY <1>2, <1>6, <4>1, BandsMeetAtTheEnd DEF c
    <3> QED
      BY <3>2, <3>3
  <2> QED
    BY <2>1, <2>2
<1>8. CASE Top > 0 /\ \E a \in Args :
                        /\ ArgsOf(walk.style, walk.size, a) /\ Ask(a, Before)
                        /\ a.before = Top /\ a.before # Null
  <2>1. PICK a \in Args : /\ Ask(a, Before) /\ a.before = Top /\ a.before # Null
    BY <1>8
  <2>2. /\ SameWalk /\ SameItems /\ walk'.pc = "addCount" /\ walk'.args = a
        /\ walk'.seen = Before
    BY <1>2, <2>1, AskIs
  <2>3. BackwardOnCourse'
    BY <1>7, <2>1, <2>2 DEF BackwardOnCourse, SameItems, c
  <2>4. ~Taken' /\ steady' = items' /\ walk'.style = "backward"
    BY <1>1, <1>3, <2>2 DEF Taken, SameWalk, SameItems
  <2> QED
    BY <2>2, <2>3, <2>4 DEF OnCourse, Counted, ForthOnCourse, BackOnCourse, Forth
<1>9. CASE (Top = 0 \/ walk.total = 0) /\ Stop(Before)
  <2>1. /\ SameWalk /\ SameItems /\ walk'.pc = "done" /\ walk'.seen = Before
    BY <1>2, <1>9, StopIs
  <2>2. Skipped' = 0 /\ ~Running' /\ ~Taken' /\ walk'.style = "backward"
    BY <1>1, <2>1 DEF Skipped, SameWalk, Running, Taken
  <2>3. steady' = items' /\ Cardinality(items') = c
    BY <1>3, <2>1 DEF SameItems, c
  <2>4. Top = 0
    BY <1>1, <1>2, <1>3, <1>7, <1>9
  <2>5. walk'.seen = Band(items', Skipped', Cardinality(items'))
    BY <1>7, <2>1, <2>2, <2>3, <2>4 DEF SameItems
  <2> QED
    BY <2>1, <2>2, <2>3, <2>5
       DEF OnCourse, Counted, ForthOnCourse, BackOnCourse, BackwardOnCourse
<1> QED
  BY <1>8, <1>9, FollowBackwardIs

(* So does a walk by the range filter.                                     *)
LEMMA FieldGoesOn ==
  ASSUME Typed, OnCourse, changes = 0, walk.size # 0, FollowField
  PROVE  OnCourse'
<1>1. /\ walk.pc = "answer" /\ walk.style = "field" /\ walk \in WalkType
      /\ walk.page \in Seq(Items) /\ walk.seen \in Seq(Items)
      /\ After \in Seq(Items)
  BY FollowFieldIs, AnswerIs, ItemsAreFinite DEF Typed, After
<1>2. /\ SetOf(walk.seen) \subseteq items /\ SetOf(walk.page) \subseteq items
      /\ steady = items
  BY <1>1 DEF OnCourse, Running
<1>3. SetOf(After) \subseteq items
  BY <1>1, <1>2, SetOfConcat DEF After
<1>4. /\ SameWalk /\ SameItems /\ walk'.seen = After
      /\ \/ walk'.pc = "addCount" /\ walk'.page = <<>>
         \/ walk'.pc = "done"
  BY <1>1, FollowFieldIs, AskIs, StopIs
<1>5. SetOf(<<>>) = {}
  BY DEF SetOf
<1>6. ~Taken' /\ walk'.style = "field" /\ steady' = items'
      /\ SetOf(walk'.seen) \subseteq items'
      /\ (Running' => SetOf(walk'.page) \subseteq items')
  BY <1>1, <1>2, <1>3, <1>4, <1>5 DEF Taken, Running, SameWalk, SameItems
<1> QED
  BY <1>4, <1>6
     DEF OnCourse, Counted, ForthOnCourse, BackOnCourse, BackwardOnCourse, Forth,
         isCounted

(* Every step keeps a walk on its course while nothing changes.            *)
LEMMA OnCourseNext ==
  ASSUME Typed, Bounded, OnCourse, [Next]_vars
  PROVE  OnCourse'
<1> SUFFICES ASSUME changes' = 0, walk'.size # 0 PROVE OnCourse'
  BY DEF OnCourse
<1> DEFINE c == Cardinality(items)
<1>1. /\ items \in SUBSET Nat /\ IsFiniteSet(items) /\ c \in Nat
      /\ walk \in WalkType /\ changes \in Nat
  BY ItemsAreFinite DEF Typed, TypeOK
<1>2. ASSUME changes = 0, walk.size # 0
      PROVE  /\ steady = items /\ Counted /\ ForthOnCourse /\ BackOnCourse
             /\ BackwardOnCourse
             /\ Taken /\ walk.style # "field" =>
                  walk.page = Band(items, Begin, Begin + Limit)
             /\ walk.style = "field" =>
                  /\ SetOf(walk.seen) \subseteq items
                  /\ Running => SetOf(walk.page) \subseteq items
             /\ walk.pc = "done" /\ walk.style # "field" =>
                  walk.seen = Band(items, Skipped, c)
  BY <1>2 DEF OnCourse
<1>3. CASE addCountToContext
  <2>1. /\ SameWalk /\ SameItems /\ walk.pc = "addCount" /\ walk'.pc = "paginate"
        /\ walk'.args = walk.args /\ walk'.seen = walk.seen
        /\ walk'.page = walk.page
        /\ IF walk.style = "backward" /\ walk.args.before = Null
           THEN walk'.count = c ELSE walk'.count = 0
        /\ walk.count = 0
    BY <1>3, CountIs DEF Typed
  <2>2. changes = 0 /\ walk.size # 0
    BY <2>1 DEF SameWalk, SameItems
  <2>3. walk.style # "backward" =>
          Begin' = Begin /\ Reached' = Reached /\ Limit' = Limit
    BY <2>1 DEF Begin, Limit, Reached, Taken, SameWalk
  <2>4. /\ Skipped' = Skipped /\ After' = After /\ Running /\ ~Taken'
        /\ walk'.style = walk.style /\ items' = items /\ steady' = steady
    BY <2>1 DEF Skipped, After, SameWalk, SameItems, Running, Taken
  <2>5. Counted'
    BY <2>1, <2>4 DEF Counted
  <2>6. ForthOnCourse'
    BY <1>2, <2>2, <2>3, <2>4 DEF ForthOnCourse, Forth
  <2>7. BackOnCourse' /\ BackwardOnCourse'
    BY <1>2, <2>1, <2>2, <2>3, <2>4 DEF BackOnCourse, BackwardOnCourse
  <2> QED
    BY <1>2, <2>1, <2>2, <2>4, <2>5, <2>6, <2>7 DEF OnCourse
<1>4. CASE getPagination
  <2>1. /\ SameWalk /\ SameItems /\ walk.pc = "paginate"
        /\ walk'.pc \in {"rejected", "slice", "total"}
        /\ walk'.args = walk.args /\ walk'.seen = walk.seen
        /\ walk'.page = walk.page /\ walk'.count = walk.count
        /\ walk'.pc # "rejected" =>
             (walk'.pc = "total" <=> totalComesFirst(walk.style))
    BY <1>4, PaginateIs
  <2>2. changes = 0 /\ walk.size # 0
    BY <2>1 DEF SameWalk, SameItems
  <2>3. ~Taken' /\ Running /\ walk'.style = walk.style
    BY <2>1 DEF Taken, Running, SameWalk, totalComesFirst
  <2>4. Begin' = Begin /\ Reached' = Reached /\ Limit' = Limit
    BY <2>1, <2>3 DEF Begin, Limit, Reached, Taken
  <2>5. /\ Skipped' = Skipped /\ After' = After
        /\ items' = items /\ steady' = steady
    BY <2>1 DEF Skipped, After, SameWalk, SameItems
  <2>6. Counted'
    BY <1>2, <2>1, <2>2, <2>3, <2>5 DEF Counted, Running
  <2>7. ForthOnCourse'
    BY <1>2, <2>2, <2>3, <2>4, <2>5 DEF ForthOnCourse
  <2>8. BackOnCourse' /\ BackwardOnCourse'
    BY <1>2, <2>1, <2>2, <2>3, <2>4, <2>5 DEF BackOnCourse, BackwardOnCourse
  <2> QED
    BY <1>2, <2>1, <2>2, <2>3, <2>5, <2>6, <2>7, <2>8 DEF OnCourse
<1>5. CASE getIterator
  <2>1. /\ SameWalk /\ SameItems /\ walk.pc = "slice"
        /\ walk'.pc = IF isCounted(walk.style) THEN "total" ELSE "answer"
        /\ walk'.args = walk.args /\ walk'.seen = walk.seen
        /\ walk'.total = walk.total /\ walk'.count = walk.count
        /\ walk'.page = Slice(filtered, walk.offset, walk.limit)
        /\ filtered \in SUBSET items
        /\ walk.style # "field" => filtered = items
    BY <1>5, IterateIs
  <2>2. changes = 0 /\ walk.size # 0
    BY <2>1 DEF SameWalk, SameItems
  <2>3. /\ Running /\ ~Taken /\ Taken' /\ walk'.style = walk.style
        /\ items' = items /\ steady' = steady
    BY <2>1 DEF Taken, Running, SameWalk, SameItems, totalComesFirst, isCounted
  <2>4. Begin' = Begin /\ Limit' = Limit /\ Skipped' = Skipped
    BY <2>1 DEF Begin, Limit, Skipped, SameWalk
  <2>5. /\ walk.offset \in Nat /\ walk.limit \in Nat
        /\ walk.offset = Begin /\ walk.limit = Limit
        /\ walk.page = <<>> /\ walk.seen \in Seq(Items)
    BY <1>1, <2>1, <2>3 DEF Typed, Asked, WalkType
  <2>6. IsFiniteSet(filtered) /\ filtered \in SUBSET Nat
    BY <1>1, <2>1, FS_Subset
  <2>7. walk.style # "field" => walk'.page = Band(items, Begin, Begin + Limit)
    BY <1>1, <2>1, <2>5, SliceIs
  <2>8. walk.style = "field" => SetOf(walk'.page) \subseteq items
    <3>1. walk'.page \in Seq(filtered)
      BY <2>1, <2>5, <2>6, SliceIs
    <3> QED
      BY <2>1, <3>1, SetOfIs
  <2>9. Counted'
    BY <1>2, <2>1, <2>2, <2>3 DEF Counted, Running
  <2>10. ForthOnCourse'
    <3> SUFFICES ASSUME walk.style \in Forth
                 PROVE  /\ Skipped \in Nat /\ Skipped <= Begin
                        /\ After' = Band(items, Skipped, Begin + Limit)
      BY <2>3, <2>4 DEF ForthOnCourse, Reached
    <3>1. /\ Skipped \in Nat /\ Skipped <= Begin
          /\ After = Band(items, Skipped, Begin)
      BY <1>2, <2>2, <2>3, <2>5 DEF ForthOnCourse, Reached
    <3>2. After = walk.seen
      BY <2>5, ConcatEmptySeq DEF After
    <3>3. After' = Band(items, Skipped, Begin) \o Band(items, Begin, Begin + Limit)
      BY <2>1, <2>7, <3>1, <3>2 DEF After, Forth
    <3> DEFINE e == Begin + Limit
    <3>4. e \in Nat /\ Begin \in Nat /\ Begin <= e
      BY <2>5
    <3> HIDE DEF e
    <3>5. Band(items, Skipped, Begin) \o Band(items, Begin, e)
            = Band(items, Skipped, e)
      BY <1>1, <3>1, <3>4, BandsMeet
    <3> QED
      BY <3>1, <3>3, <3>5 DEF e
  <2>11. BackOnCourse' /\ BackwardOnCourse'
    BY <1>2, <2>1, <2>2, <2>3, <2>4 DEF BackOnCourse, BackwardOnCourse
  <2> QED
    BY <1>2, <2>1, <2>2, <2>3, <2>4, <2>7, <2>8, <2>9, <2>10, <2>11 DEF OnCourse
<1>6. CASE getTotalItems
  <2>1. /\ SameWalk /\ SameItems /\ walk.pc = "total"
        /\ walk'.pc = IF totalComesFirst(walk.style) THEN "slice" ELSE "answer"
        /\ walk'.args = walk.args /\ walk'.seen = walk.seen
        /\ walk'.page = walk.page /\ walk'.count = walk.count
        /\ walk'.total = c
    BY <1>6, TotalIs
  <2>2. changes = 0 /\ walk.size # 0
    BY <2>1 DEF SameWalk, SameItems
  <2>3. /\ Running /\ (Taken' <=> Taken) /\ walk'.style = walk.style
        /\ items' = items /\ steady' = steady
    BY <2>1 DEF Taken, Running, SameWalk, SameItems
  <2>4. /\ Begin' = Begin /\ Limit' = Limit /\ Skipped' = Skipped
        /\ After' = After /\ Reached' = Reached
    BY <2>1, <2>3 DEF Begin, Limit, Skipped, SameWalk, After, Reached
  <2>5. Counted'
    BY <1>2, <2>1, <2>2, <2>3 DEF Counted, Running
  <2>6. ForthOnCourse'
    BY <1>2, <2>2, <2>3, <2>4 DEF ForthOnCourse
  <2>7. BackOnCourse' /\ BackwardOnCourse'
    BY <1>2, <2>1, <2>2, <2>3, <2>4 DEF BackOnCourse, BackwardOnCourse
  <2> QED
    BY <1>2, <2>1, <2>2, <2>3, <2>4, <2>5, <2>6, <2>7 DEF OnCourse
<1>7. CASE Follow
  <2>1. walk.pc = "answer" /\ SameWalk /\ SameItems
    BY <1>1, <1>7, FollowIs, AskIs, StopIs
  <2>2. changes = 0 /\ walk.size # 0
    BY <2>1 DEF SameWalk, SameItems
  <2>3. CASE FollowNext \/ FollowNumbered \/ FollowForward \/ FollowEdges
    <3>1. walk.style \in Forth /\ (AtEnd \/ \E a \in Args : Onward(a))
      BY <2>3, FollowNextIs, FollowNumberedIs, FollowForwardIs, FollowEdgesIs
         DEF Forth
    <3> QED
      BY <2>1, <2>2, <3>1, ForthGoesOn, ForthEnds
  <2> QED
    BY <1>7, <2>2, <2>3, BackGoesOn, BackwardGoesOn, FieldGoesOn DEF Follow
<1>8. CASE Insert \/ Delete
  BY <1>1, <1>8, ChangeIs
<1>9. CASE UNCHANGED vars
  BY <1>9 DEF vars, OnCourse, Counted, ForthOnCourse, BackOnCourse, After,
     BackwardOnCourse, Taken, Begin, Limit, Running, Skipped, Reached
<1> QED
  BY <1>3, <1>4, <1>5, <1>6, <1>7, <1>8, <1>9 DEF Next, Step, Follow

(* A walk begins on its course.                                            *)
LEMMA OnCourseInit ==
  ASSUME Init
  PROVE  OnCourse
<1>1. /\ Typed /\ walk.pc = "addCount" /\ walk.first = walk.args /\ walk.count = 0
      /\ walk.page = <<>> /\ walk.seen = <<>> /\ steady = items
      /\ walk.args.before = Null /\ walk.args.after = Null
      /\ walk.style \notin {"pages", "numbered"} => walk.args.page = Null
  BY InitIs
<1>2. /\ items \in SUBSET Nat /\ IsFiniteSet(items) /\ walk \in WalkType
      /\ ArgsOf(walk.style, walk.size, walk.args)
      /\ walk.style \in AllStyles /\ walk.size \in Sizes
  BY <1>1, ItemsAreFinite, WalkAssumption DEF Typed, WalkType
<1>3. ForthOnCourse
  <2> SUFFICES ASSUME walk.style \in Forth, Begin >= 0
               PROVE  /\ Skipped \in Nat /\ Skipped <= Begin
                      /\ After = Band(items, Skipped, Begin)
    BY <1>1 DEF ForthOnCourse, Reached, Taken
  <2>1. /\ getOffset(isGraphQl(walk.style), walk.args, 0) = Begin /\ Begin \in Int
        /\ walk.style \in {"pages", "partial", "numbered"} =>
             Begin = (getPage(walk.args) - 1) * PageLimit(walk.size)
        /\ walk.style \in {"forward", "edges"} => Begin = 0
    BY <1>1, <1>2, OffsetIs DEF Begin
  <2>2. walk.style = "partial" => Begin = 0
    <3>1. walk.size \in Int
      BY <1>2, WalkAssumption
    <3>2. PageLimit(walk.size) \in Int
      BY <3>1, CappedIs, PaginationAssumption DEF PageLimit
    <3> QED
      BY <1>1, <2>1, <3>2 DEF getPage, getParameterFromContext
  <2>3. Skipped = Begin /\ Begin \in Nat
    BY <1>1, <2>1, <2>2 DEF Skipped, Forth
  <2>4. After = <<>>
    BY <1>1 DEF After
  <2>5. Band(items, Begin, Begin) = <<>>
    BY <1>2, <2>3, BandToTheEnd
  <2> QED
    BY <2>3, <2>4, <2>5
<1>4. ~Taken
  BY <1>1 DEF Taken
<1> QED
  BY <1>1, <1>3, <1>4
     DEF OnCourse, Counted, BackOnCourse, BackwardOnCourse, SetOf

(* A client that follows the answers to the end has seen all the items,    *)
(* each once, in their order, if nobody changed the collection: for every  *)
(* collection, limit and change of the limit from page to page.            *)
THEOREM WalksSeeEachItemOnce ==
  ASSUME PagesHoldItems
  PROVE  Spec => []EachItemOnce
<1> DEFINE Inv == Typed /\ Bounded /\ UpToTheCursor /\ OnCourse
<1>1. Init => Inv
  BY InitIs, BoundedInit, UpToTheCursorInit, OnCourseInit
<1>2. Inv /\ [Next]_vars => Inv'
  BY TypedNext, BoundedNext, UpToTheCursorNext, OnCourseNext
<1>3. Inv => EachItemOnce
  <2> SUFFICES ASSUME Inv, Ended, changes = 0 PROVE walk.seen = Expected
    BY DEF EachItemOnce
  <2> DEFINE c == Cardinality(items)
  <2>1. /\ items \in SUBSET Nat /\ IsFiniteSet(items) /\ c \in Nat
        /\ walk \in WalkType /\ Items \in SUBSET Nat
    BY ItemsAreFinite DEF Typed
  <2>2. Expected = Band(items, Skipped, c)
    BY <2>1 DEF Expected, Band, Skipped, Ended, Typed
  <2>3. CASE walk.style # "field"
    BY <2>2, <2>3 DEF OnCourse, Ended
  <2>4. CASE walk.style = "field"
    <3>1. SetOf(walk.seen) = items /\ Increasing(walk.seen)
      BY <2>4 DEF OnCourse, UpToTheCursor, Ended
    <3>2. walk.seen \in Seq(Nat)
      BY <2>1, SeqOfMore DEF WalkType
    <3>3. walk.seen = Sorted(items)
      BY <2>1, <3>1, <3>2, SortedIsTheOne DEF Increasing
    <3>4. Sorted(items) \in Seq(items) /\ Len(Sorted(items)) = c
      BY <2>1, SortedIs
    <3>5. SubSeq(Sorted(items), 1, c) = Sorted(items)
      BY <3>4
    <3>6. Skipped = 0
      BY <2>4 DEF Skipped
    <3> QED
      BY <2>1, <2>2, <3>3, <3>5, <3>6 DEF Band
  <2> QED
    BY <2>3, <2>4
<1> QED
  BY <1>1, <1>2, <1>3, PTL DEF Spec

-----------------------------------------------------------------------------
(* A walk through a collection that others change.                         *)

(* Where a walk that goes forth reads next.                                *)
Place == Begin + Len(walk.page)

LossForth ==
  Running /\ walk.style \in Forth =>
    /\ Begin \in Nat
    /\ Lost(steady, items, Place, After) <= changes
    /\ Again(items, Place, After) <= changes
    /\ /\ walk.style \in {"pages", "numbered"} /\ walk.pc = "slice"
       /\ walk.total <= Begin + Limit
       =>
         Lost(steady, items, Begin, walk.seen)
           + LostBack(steady, items, Begin + Limit, walk.seen) <= changes
    /\ Taken /\ Len(walk.page) < Limit => Missing(steady, After) <= changes
    /\ /\ walk.pc = "answer" /\ walk.style \in {"pages", "numbered", "forward"}
       /\ walk.total <= Begin + Limit
       => Missing(steady, After) <= changes

(* The end of what a walk that goes backward reads next. The cursor that   *)
(* the first answer will give is counted from the end.                     *)
PlaceBack ==
  IF walk.args.before # Null THEN walk.args.before - Len(walk.page)
  ELSE IF walk.pc = "answer" THEN AtLeastZero(walk.total - walk.args.last)
  ELSE Rear(items, walk.args.last)

LossBackward ==
  Running /\ walk.style = "backward" =>
    /\ Taken \/ walk.args.before # Null =>
         /\ PlaceBack \in Nat
         /\ LostBack(steady, items, PlaceBack, Before) <= changes
         /\ AgainBack(items, PlaceBack, Before) <= changes
    /\ ~Taken /\ walk.args.before = Null =>
         /\ walk.seen = <<>>
         /\ walk.pc # "addCount" =>
              /\ walk.count - Cardinality(items) <= changes
              /\ Cardinality(items) - walk.count <= changes
    /\ walk.pc = "answer" /\ walk.total = 0 => steady = {}

LossAtTheEnd ==
  walk.pc = "done" /\ walk.style \in Forth \cup {"backward"} =>
    /\ Missing(steady, walk.seen) <= changes
    /\ Repeats(walk.seen) <= changes

(* What was missed or repeated so far is no more than what was changed.    *)
LossIsBounded ==
  walk.size # 0 /\ walk.first.page \in {Null, 1} =>
    LossForth /\ LossBackward /\ LossAtTheEnd

(* A change puts one item in or takes one out.                             *)
LEMMA ChangesAreOne ==
  ASSUME Typed, Insert \/ Delete
  PROVE  OneChange(steady, items, steady', items')
<1>1. PICK i \in Items : \/ i \notin items /\ items' = items \cup {i}
                         \/ i \in items /\ items' = items \ {i}
  BY ChangeIs
<1>2. steady \subseteq items /\ i \in Nat /\ steady' = steady \cap items'
  BY ChangeIs, ItemsAreFinite DEF Typed
<1>3. CASE i \notin items /\ items' = items \cup {i}
  <2>1. steady' = steady
    BY <1>2, <1>3
  <2> QED
    BY <1>2, <1>3, <2>1 DEF OneChange
<1>4. CASE i \in items /\ items' = items \ {i}
  <2>1. steady' = steady \ {i}
    BY <1>2, <1>4
  <2> QED
    BY <1>2, <1>4, <2>1 DEF OneChange
<1> QED
  BY <1>1, <1>3, <1>4

(* The collection and the sequences of a walk as the lemmas want them.     *)
LEMMA WalkIs ==
  ASSUME Typed
  PROVE  /\ items \in SUBSET Nat /\ IsFiniteSet(items) /\ steady \in SUBSET items
         /\ Cardinality(items) \in Nat /\ changes \in Nat /\ walk \in WalkType
         /\ walk.page \in Seq(Items) /\ walk.seen \in Seq(Items)
         /\ walk.seen \in Seq(Nat) /\ After \in Seq(Nat) /\ Before \in Seq(Nat)
         /\ After \in Seq(Items) /\ Before \in Seq(Items)
         /\ Len(walk.page) \in Nat /\ walk.count \in Nat /\ walk.total \in Nat
<1>1. /\ items \in SUBSET Nat /\ IsFiniteSet(items) /\ steady \in SUBSET items
      /\ Cardinality(items) \in Nat /\ changes \in Nat /\ walk \in WalkType
      /\ Items \subseteq Nat
  BY ItemsAreFinite DEF Typed, TypeOK
<1>2. /\ walk.page \in Seq(Items) /\ walk.seen \in Seq(Items)
      /\ walk.count \in Nat /\ walk.total \in Nat
  BY <1>1 DEF WalkType
<1>3. After \in Seq(Items) /\ Before \in Seq(Items) /\ Len(walk.page) \in Nat
  BY <1>2, ConcatProperties, LenProperties DEF After, Before
<1> QED
  BY <1>1, <1>2, <1>3, SeqOfMore

(* A change loses or repeats one item more, and is counted.                *)
LEMMA LossOfChange ==
  ASSUME Typed, Bounded, LossIsBounded, Insert \/ Delete
  PROVE  LossIsBounded'
<1> SUFFICES ASSUME walk.size # 0, LossForth, LossBackward
             PROVE  LossForth' /\ LossBackward' /\ LossAtTheEnd'
  BY ChangeIs DEF LossIsBounded
<1>1. walk' = walk /\ Running /\ changes' = changes + 1
  BY ChangeIs
<1>2. OneChange(steady, items, steady', items')
  BY ChangesAreOne
<1>3. /\ items \in SUBSET Nat /\ IsFiniteSet(items) /\ steady \in SUBSET items
      /\ Cardinality(items) \in Nat /\ changes \in Nat
      /\ walk.seen \in Seq(Nat) /\ After \in Seq(Nat) /\ Before \in Seq(Nat)
      /\ Len(walk.page) \in Nat /\ walk.count \in Nat /\ walk.total \in Nat
  BY WalkIs
<1>4. /\ (Running' <=> Running) /\ (Taken' <=> Taken) /\ Begin' = Begin
      /\ Limit' = Limit /\ Place' = Place /\ After' = After /\ Before' = Before
  BY <1>1 DEF Running, Taken, Begin, Limit, Place, After, Before
<1>5. /\ items' \in SUBSET Nat /\ IsFiniteSet(items') /\ steady' \in SUBSET items'
  BY <1>2, <1>3, ChangeIsOne
<1>6. LossForth'
  <2> SUFFICES ASSUME walk.style \in Forth PROVE LossForth'
    BY <1>1 DEF LossForth
  <2>1. Begin \in Nat /\ Place \in Nat
    BY <1>1, <1>3 DEF LossForth, Place
  <2>2. /\ Lost(steady', items', Place, After) <= changes + 1
        /\ Again(items', Place, After) <= changes + 1
    <3>1. /\ Lost(steady', items', Place, After)
               <= Lost(steady, items, Place, After) + 1
          /\ Again(items', Place, After) <= Again(items, Place, After) + 1
      BY <1>2, <1>3, <2>1, ChangeIsOne
    <3>2. /\ Lost(steady', items', Place, After) \in Nat
          /\ Again(items', Place, After) \in Nat
          /\ Lost(steady, items, Place, After) \in Nat
          /\ Again(items, Place, After) \in Nat
      BY <1>3, <1>5, <2>1, CountsAre
    <3>3. /\ Lost(steady, items, Place, After) <= changes
          /\ Again(items, Place, After) <= changes
      BY <1>1 DEF LossForth
    <3> QED
      BY <1>3, <3>1, <3>2, <3>3
  <2>3. ASSUME walk.style \in {"pages", "numbered"}, walk.pc = "slice",
               walk.total <= Begin + Limit
        PROVE  Lost(steady', items', Begin, walk.seen)
                 + LostBack(steady', items', Begin + Limit, walk.seen)
                   <= changes + 1
    <3> DEFINE b == Begin + Limit
    <3>1. b \in Nat
      BY <2>1, <2>3 DEF Typed, Asked, TypeOK
    <3>2. Lost(steady, items, Begin, walk.seen)
            + LostBack(steady, items, b, walk.seen) <= changes
      BY <1>1, <2>3 DEF LossForth
    <3> HIDE DEF b
    <3>3. Lost(steady', items', Begin, walk.seen)
            + LostBack(steady', items', b, walk.seen)
          <= Lost(steady, items, Begin, walk.seen)
               + LostBack(steady, items, b, walk.seen) + 1
      BY <1>2, <1>3, <2>1, <3>1, ChangeIsOne
    <3>4. /\ Lost(steady, items, Begin, walk.seen) \in Nat
          /\ LostBack(steady, items, b, walk.seen) \in Nat
          /\ Lost(steady', items', Begin, walk.seen) \in Nat
          /\ LostBack(steady', items', b, walk.seen) \in Nat
      BY <1>3, <1>5, <2>1, <3>1, CountsAre
    <3>5. Lost(steady', items', Begin, walk.seen)
            + LostBack(steady', items', b, walk.seen) <= changes + 1
      BY <1>3, <3>2, <3>3, <3>4
    <3> QED
      BY <3>5 DEF b
  <2>4. ASSUME Missing(steady, After) <= changes
        PROVE  Missing(steady', After) <= changes + 1
    <3>1. Missing(steady', After) <= Missing(steady, After)
      BY <1>2, <1>3, <2>1, ChangeIsOne
    <3>2. Missing(steady', After) \in Nat /\ Missing(steady, After) \in Nat
      BY <1>3, <1>5, <2>1, CountsAre
    <3> QED
      BY <1>3, <2>4, <3>1, <3>2
  <2> QED
    BY <1>1, <1>4, <2>1, <2>2, <2>3, <2>4 DEF LossForth
<1>7. LossBackward'
  <2> SUFFICES ASSUME walk.style = "backward" PROVE LossBackward'
    BY <1>1 DEF LossBackward
  <2>1. ASSUME Taken \/ walk.args.before # Null
        PROVE  /\ PlaceBack' \in Nat
               /\ LostBack(steady', items', PlaceBack', Before) <= changes + 1
               /\ AgainBack(items', PlaceBack', Before) <= changes + 1
    <3>1. /\ PlaceBack \in Nat
          /\ LostBack(steady, items, PlaceBack, Before) <= changes
          /\ AgainBack(items, PlaceBack, Before) <= changes
      BY <1>1, <2>1 DEF LossBackward
    <3>2. /\ PlaceBack' \in Nat
          /\ LostBack(steady', items', PlaceBack', Before)
               <= LostBack(steady, items, PlaceBack, Before) + 1
          /\ AgainBack(items', PlaceBack', Before)
               <= AgainBack(items, PlaceBack, Before) + 1
      <4>1. CASE walk.args.before # Null \/ walk.pc = "answer"
        <5>1. PlaceBack' = PlaceBack
          BY <1>1, <4>1 DEF PlaceBack
        <5> QED
          BY <1>2, <1>3, <3>1, <5>1, ChangeIsOne
      <4>2. CASE walk.args.before = Null /\ walk.pc # "answer"
        <5>1. /\ PlaceBack' = Rear(items', walk.args.last)
              /\ PlaceBack = Rear(items, walk.args.last)
          BY <1>1, <4>2 DEF PlaceBack
        <5>2. walk.args.last \in Nat
          <6>1. /\ walk.limit > 0 /\ walk.limit = Limit /\ walk.limit \in Nat
                /\ ArgsOf(walk.style, walk.size, walk.args)
                /\ walk.size \in Sizes /\ walk.style \in AllStyles
            BY <2>1, <4>2, WalkIs DEF Bounded, Typed, Asked, Taken, WalkType,
               AllStyles
          <6>2. Limit = walk.args.last
            BY <4>2, <6>1, LimitIs DEF Limit
          <6> QED
            BY <6>1, <6>2
        <5> QED
          BY <1>2, <1>3, <5>1, <5>2, RearIsOne
      <4> QED
        BY <4>1, <4>2
    <3>3. /\ LostBack(steady', items', PlaceBack', Before) \in Nat
          /\ AgainBack(items', PlaceBack', Before) \in Nat
      BY <1>3, <1>5, <3>2, CountsAre
    <3>4. /\ LostBack(steady, items, PlaceBack, Before) \in Nat
          /\ AgainBack(items, PlaceBack, Before) \in Nat
      BY <1>3, <3>1, CountsAre
    <3> QED
      BY <1>3, <3>1, <3>2, <3>3, <3>4
  <2>2. ASSUME ~Taken, walk.args.before = Null
        PROVE  /\ walk.seen = <<>>
               /\ walk.pc # "addCount" =>
                    /\ walk.count - Cardinality(items') <= changes + 1
                    /\ Cardinality(items') - walk.count <= changes + 1
    <3>1. \/ Cardinality(items') = Cardinality(items) + 1
          \/ Cardinality(items) = Cardinality(items') + 1
      BY <1>2, <1>3, ChangeIsOne
    <3>2. Cardinality(items') \in Nat
      BY <1>5, FS_CardinalityType
    <3>3. /\ walk.seen = <<>>
          /\ walk.pc # "addCount" =>
               /\ walk.count - Cardinality(items) <= changes
               /\ Cardinality(items) - walk.count <= changes
      BY <1>1, <2>2 DEF LossBackward
    <3> QED
      BY <1>3, <3>1, <3>2, <3>3
  <2>3. walk.pc = "answer" /\ walk.total = 0 => steady' = {}
    BY <1>1, ChangeIs DEF LossBackward
  <2> QED
    BY <1>1, <1>4, <2>1, <2>2, <2>3 DEF LossBackward
<1>8. LossAtTheEnd'
  BY <1>1 DEF LossAtTheEnd, Running
<1> QED
  BY <1>6, <1>7, <1>8

(* Counting loses nothing.                                                 *)
LEMMA LossOfCount ==
  ASSUME Typed, LossIsBounded, addCountToContext
  PROVE  LossIsBounded'
<1>1. /\ SameWalk /\ SameItems /\ walk.pc = "addCount" /\ walk'.pc = "paginate"
      /\ walk'.args = walk.args /\ walk'.seen = walk.seen
      /\ walk'.page = walk.page /\ walk'.total = walk.total
      /\ IF walk.style = "backward" /\ walk.args.before = Null
         THEN walk'.count = Cardinality(items) ELSE walk'.count = 0
      /\ walk.count = 0
  BY CountIs DEF Typed
<1> SUFFICES ASSUME walk.size # 0, LossForth, LossBackward
             PROVE  LossForth' /\ LossBackward' /\ LossAtTheEnd'
  BY <1>1 DEF LossIsBounded, SameWalk
<1>2. /\ items' = items /\ steady' = steady /\ changes' = changes
      /\ walk'.style = walk.style /\ Running /\ ~Taken /\ ~Taken'
  BY <1>1 DEF SameWalk, SameItems, Running, Taken
<1>3. /\ After' = After /\ Before' = Before /\ PlaceBack' = PlaceBack
  BY <1>1, <1>2 DEF After, Before, PlaceBack
<1>4. walk.style # "backward" =>
        Begin' = Begin /\ Limit' = Limit /\ Place' = Place
  BY <1>1, <1>2 DEF Begin, Limit, Place
<1>5. LossForth'
  BY <1>1, <1>2, <1>3, <1>4 DEF LossForth, Forth
<1>6. Cardinality(items) \in Nat /\ changes \in Nat
  BY WalkIs
<1>7. LossBackward'
  BY <1>1, <1>2, <1>3, <1>6 DEF LossBackward
<1> QED
  BY <1>1, <1>5, <1>7 DEF LossAtTheEnd

(* Nor does reading the arguments.                                         *)
LEMMA LossOfPagination ==
  ASSUME Typed, LossIsBounded, getPagination
  PROVE  LossIsBounded'
<1>1. /\ SameWalk /\ SameItems /\ walk.pc = "paginate"
      /\ walk'.pc \in {"rejected", "slice", "total"}
      /\ walk'.args = walk.args /\ walk'.seen = walk.seen
      /\ walk'.page = walk.page /\ walk'.total = walk.total
      /\ walk'.count = walk.count
      /\ walk'.pc # "rejected" =>
           (walk'.pc = "total" <=> totalComesFirst(walk.style))
  BY PaginateIs
<1> SUFFICES ASSUME walk.size # 0, LossForth, LossBackward
             PROVE  LossForth' /\ LossBackward' /\ LossAtTheEnd'
  BY <1>1 DEF LossIsBounded, SameWalk
<1>2. /\ items' = items /\ steady' = steady /\ changes' = changes
      /\ walk'.style = walk.style /\ Running /\ ~Taken /\ ~Taken'
  BY <1>1 DEF SameWalk, SameItems, Running, Taken, totalComesFirst
<1>3. /\ After' = After /\ Before' = Before /\ PlaceBack' = PlaceBack
      /\ Begin' = Begin /\ Limit' = Limit /\ Place' = Place
  BY <1>1, <1>2 DEF After, Before, PlaceBack, Begin, Limit, Place
<1>4. LossForth'
  BY <1>1, <1>2, <1>3 DEF LossForth, totalComesFirst
<1>5. LossBackward'
  BY <1>1, <1>2, <1>3 DEF LossBackward
<1> QED
  BY <1>1, <1>4, <1>5 DEF LossAtTheEnd

(* Reading a page loses nothing that was not lost before.                  *)
LEMMA LossOfIterator ==
  ASSUME Typed, Bounded, LossIsBounded, getIterator
  PROVE  LossIsBounded'
<1> DEFINE p == walk'.page
           c == Cardinality(items)
<1>1. /\ SameWalk /\ SameItems /\ walk.pc = "slice"
      /\ walk'.pc = IF isCounted(walk.style) THEN "total" ELSE "answer"
      /\ walk'.args = walk.args /\ walk'.seen = walk.seen
      /\ walk'.total = walk.total /\ walk'.count = walk.count
      /\ p = Slice(filtered, walk.offset, walk.limit)
      /\ walk.style # "field" => filtered = items
  BY IterateIs
<1> SUFFICES ASSUME walk.size # 0, LossForth, LossBackward
             PROVE  LossForth' /\ LossBackward' /\ LossAtTheEnd'
  BY <1>1 DEF LossIsBounded, SameWalk
<1>2. /\ items' = items /\ steady' = steady /\ changes' = changes
      /\ walk'.style = walk.style /\ Running /\ ~Taken /\ Taken'
  BY <1>1 DEF SameWalk, SameItems, Running, Taken, totalComesFirst, isCounted
<1>3. Begin' = Begin /\ Limit' = Limit
  BY <1>1, <1>2 DEF Begin, Limit
<1>4. /\ items \in SUBSET Nat /\ IsFiniteSet(items) /\ steady \in SUBSET items
      /\ c \in Nat /\ changes \in Nat /\ walk.seen \in Seq(Nat)
      /\ walk.count \in Nat /\ walk \in WalkType /\ walk.seen \in Seq(Items)
      /\ walk.size \in Sizes /\ ArgsOf(walk.style, walk.size, walk.args)
  BY WalkIs DEF Typed, WalkType
<1>5. /\ walk.offset \in Nat /\ walk.limit \in Nat /\ walk.limit > 0
      /\ walk.offset = Begin /\ walk.limit = Limit
      /\ walk.page = <<>> /\ Len(walk.page) = 0
  BY <1>1, <1>2, <1>4 DEF Typed, Asked, WalkType, Bounded
<1>6. walk.style # "field" => p = Band(items, Begin, Begin + Limit)
  BY <1>1, <1>4, <1>5, SliceIs
<1>7. After = walk.seen /\ Before = walk.seen /\ Place = Begin
  BY <1>4, <1>5, ConcatEmptySeq DEF After, Before, Place
<1>8. After' = walk.seen \o p /\ Before' = p \o walk.seen /\ Place' = Begin + Len(p)
  BY <1>1, <1>3 DEF After, Before, Place
<1> HIDE DEF p, c
<1>9. LossForth'
  <2> SUFFICES ASSUME walk.style \in Forth PROVE LossForth'
    BY <1>2 DEF LossForth
  <2>1. /\ Begin \in Nat /\ Limit \in Nat
        /\ Lost(steady, items, Begin, walk.seen) <= changes
        /\ Again(items, Begin, walk.seen) <= changes
        /\ walk.style \in {"pages", "numbered"} /\ walk.total <= Begin + Limit =>
             Lost(steady, items, Begin, walk.seen)
               + LostBack(steady, items, Begin + Limit, walk.seen) <= changes
    BY <1>1, <1>2, <1>5, <1>7 DEF LossForth
  <2>2. p = Band(items, Begin, Begin + Limit)
    BY <1>6 DEF Forth
  <2>3. /\ After' \in Seq(Nat) /\ Len(p) \in Nat /\ Len(p) <= Limit
        /\ Lost(steady, items, Place', After')
             <= Lost(steady, items, Begin, walk.seen)
        /\ Again(items, Place', After') <= Again(items, Begin, walk.seen)
        /\ Len(p) < Limit =>
             Missing(steady, After') <= Lost(steady, items, Begin, walk.seen)
        /\ Missing(steady, After') <=
             Lost(steady, items, Begin, walk.seen)
               + LostBack(steady, items, Begin + Limit, walk.seen)
    BY <1>4, <1>8, <2>1, <2>2, ReadForth
  <2>4. Place' \in Nat
    BY <1>8, <2>1, <2>3
  <2> DEFINE b == Begin + Limit
  <2>5. b \in Nat
    BY <2>1
  <2> HIDE DEF b
  <2>6. /\ Lost(steady, items, Begin, walk.seen) \in Nat
        /\ LostBack(steady, items, b, walk.seen) \in Nat
        /\ Again(items, Begin, walk.seen) \in Nat
    BY <1>4, <2>1, <2>5, CountsAre
  <2>7. /\ Lost(steady, items, Place', After') \in Nat
        /\ Again(items, Place', After') \in Nat
        /\ Missing(steady, After') \in Nat
    BY <1>4, <2>3, <2>4, CountsAre
  <2>8. /\ Lost(steady, items, Place', After') <= changes
        /\ Again(items, Place', After') <= changes
        /\ Len(p) < Limit => Missing(steady, After') <= changes
    BY <1>4, <2>1, <2>3, <2>6, <2>7
  <2>9. ASSUME walk.style \in {"pages", "numbered"}, walk.total <= b
        PROVE  Missing(steady, After') <= changes
    BY <1>4, <2>1, <2>3, <2>6, <2>7, <2>9 DEF b
  <2>10. walk'.pc # "slice"
         /\ (walk'.pc = "answer" /\ walk.style \in {"pages", "numbered", "forward"} =>
               walk.style \in {"pages", "numbered"})
    BY <1>1 DEF isCounted
  <2> QED
    BY <1>1, <1>2, <1>3, <2>1, <2>8, <2>9, <2>10 DEF LossForth, p, b
<1>10. LossBackward'
  <2> SUFFICES ASSUME walk.style = "backward" PROVE LossBackward'
    BY <1>2 DEF LossBackward
  <2>1. walk'.pc = "total"
    BY <1>1 DEF isCounted
  <2>2. p = Band(items, Begin, Begin + Limit)
    BY <1>6
  <2>3. /\ walk.args.last \in Sizes /\ walk.args.last \in Int
        /\ walk.args.before = Null \/ walk.args.before \in Nat
        /\ Begin = IF walk.args.before = Null
                   THEN AtLeastZero(walk.count - walk.args.last)
                   ELSE AtLeastZero(walk.args.before - walk.args.last)
        /\ Limit = IF walk.args.before # Null /\ walk.args.before < walk.args.last
                   THEN walk.args.before ELSE walk.args.last
    <3>1. /\ walk.args.last \in Sizes
          /\ walk.args.before = Null \/ walk.args.before \in Nat
      BY <1>4 DEF ArgsOf
    <3>2. walk.args.last \in Int /\ walk.style \in AllStyles
      BY <3>1, WalkAssumption DEF AllStyles
    <3> QED
      BY <1>4, <3>1, <3>2, OffsetIs, LimitIs DEF Begin, Limit
  <2>4. CASE walk.args.before # Null
    <3> DEFINE b == walk.args.before
    <3>1. b \in Nat /\ Begin \in Nat /\ Begin <= b /\ Begin + Limit = b
      BY <1>5, <2>3, <2>4 DEF AtLeastZero
    <3>2. PlaceBack = b
      BY <1>5, <2>4, <3>1 DEF PlaceBack
    <3>3. /\ LostBack(steady, items, b, walk.seen) <= changes
          /\ AgainBack(items, b, walk.seen) <= changes
      BY <1>2, <1>7, <2>4, <3>2 DEF LossBackward
    <3>4. PlaceBack' = b - Len(p)
      BY <1>1, <2>4 DEF PlaceBack, p
    <3> HIDE DEF b
    <3>5. p = Band(items, Begin, b)
      BY <2>2, <3>1
    <3>6. /\ Before' \in Seq(Nat) /\ PlaceBack' \in Nat
          /\ LostBack(steady, items, PlaceBack', Before')
               <= LostBack(steady, items, b, walk.seen)
          /\ AgainBack(items, PlaceBack', Before') <= AgainBack(items, b, walk.seen)
      BY <1>4, <1>8, <3>1, <3>4, <3>5, ReadBack
    <3>7. /\ LostBack(steady, items, PlaceBack', Before') \in Nat
          /\ AgainBack(items, PlaceBack', Before') \in Nat
      BY <1>4, <3>6, CountsAre
    <3>8. /\ LostBack(steady, items, b, walk.seen) \in Nat
          /\ AgainBack(items, b, walk.seen) \in Nat
      BY <1>4, <3>1, CountsAre
    <3>9. /\ LostBack(steady, items, PlaceBack', Before') <= changes
          /\ AgainBack(items, PlaceBack', Before') <= changes
      BY <1>4, <3>3, <3>6, <3>7, <3>8
    <3> QED
      BY <1>1, <1>2, <2>1, <2>4, <3>6, <3>9 DEF LossBackward
  <2>5. CASE walk.args.before = Null
    <3>1. /\ walk.seen = <<>> /\ walk.count - c <= changes
          /\ c - walk.count <= changes
      BY <1>1, <1>2, <2>5 DEF LossBackward, c
    <3> DEFINE n == walk.args.last
    <3>2. /\ n \in Nat /\ Limit = n
          /\ Begin = IF walk.count > n THEN walk.count - n ELSE 0
      BY <1>4, <1>5, <2>3, <2>5 DEF AtLeastZero
    <3>3. PlaceBack' = Rear(items, n)
      BY <1>1, <1>2, <2>1, <2>5 DEF PlaceBack
    <3> HIDE DEF n
    <3>4. p = Band(items, Begin, Begin + n)
      BY <2>2, <3>2
    <3>5. /\ p \in Seq(Nat) /\ LostBack(steady, items, PlaceBack', p) <= changes
          /\ AgainBack(items, PlaceBack', p) <= changes
      BY <1>4, <3>1, <3>2, <3>3, <3>4, ReadRear DEF c
    <3>6. Before' = p
      BY <1>8, <3>1, <3>5, ConcatEmptySeq
    <3>7. PlaceBack' \in Nat
      BY <1>4, <3>2, <3>3 DEF Rear, c
    <3> QED
      BY <1>1, <1>2, <2>1, <2>5, <3>5, <3>6, <3>7 DEF LossBackward
  <2> QED
    BY <2>4, <2>5
<1> QED
  BY <1>1, <1>9, <1>10 DEF LossAtTheEnd

(* Counting the items loses nothing.                                       *)
LEMMA LossOfTotal ==
  ASSUME Typed, Bounded, LossIsBounded, getTotalItems
  PROVE  LossIsBounded'
<1> DEFINE c == Cardinality(items)
<1>1. /\ SameWalk /\ SameItems /\ walk.pc = "total"
      /\ walk'.pc = IF totalComesFirst(walk.style) THEN "slice" ELSE "answer"
      /\ walk'.args = walk.args /\ walk'.seen = walk.seen
      /\ walk'.page = walk.page /\ walk'.count = walk.count
      /\ walk'.total = c
  BY TotalIs
<1> SUFFICES ASSUME walk.size # 0, LossForth, LossBackward
             PROVE  LossForth' /\ LossBackward' /\ LossAtTheEnd'
  BY <1>1 DEF LossIsBounded, SameWalk
<1>2. /\ items' = items /\ steady' = steady /\ changes' = changes
      /\ walk'.style = walk.style /\ Running /\ (Taken' <=> Taken)
      /\ (Taken <=> ~totalComesFirst(walk.style))
  BY <1>1 DEF SameWalk, SameItems, Running, Taken
<1>3. /\ Begin' = Begin /\ Limit' = Limit /\ Place' = Place /\ After' = After
      /\ Before' = Before
  BY <1>1, <1>2 DEF Begin, Limit, Place, After, Before
<1>4. /\ items \in SUBSET Nat /\ IsFiniteSet(items) /\ steady \in SUBSET items
      /\ c \in Nat /\ changes \in Nat /\ walk.seen \in Seq(Nat)
      /\ After \in Seq(Nat) /\ walk.page \in Seq(Items) /\ Len(walk.page) \in Nat
      /\ walk.seen \in Seq(Items)
  BY WalkIs
<1>5. /\ walk.limit = Limit /\ Limit \in Nat /\ walk.offset = Begin
      /\ Len(walk.page) <= Limit
  BY <1>1 DEF Typed, Asked, TypeOK
<1>6. LossForth'
  <2> SUFFICES ASSUME walk.style \in Forth PROVE LossForth'
    BY <1>2 DEF LossForth
  <2>1. /\ Begin \in Nat
        /\ Lost(steady, items, Place, After) <= changes
        /\ Again(items, Place, After) <= changes
        /\ Taken /\ Len(walk.page) < Limit => Missing(steady, After) <= changes
    BY <1>2 DEF LossForth
  <2>2. ASSUME walk.style \in {"pages", "numbered"}, c <= Begin + Limit
        PROVE  Lost(steady, items, Begin, walk.seen)
                 + LostBack(steady, items, Begin + Limit, walk.seen) <= changes
    <3> DEFINE b == Begin + Limit
    <3>1. b \in Nat /\ b >= c
      BY <1>4, <1>5, <2>1, <2>2
    <3> HIDE DEF b
    <3>2. LostBack(steady, items, b, walk.seen) = 0
      BY <1>4, <3>1, AtTheEnds
    <3>3. walk.page = <<>>
      BY <1>1, <1>2, <2>2 DEF Typed, Taken, Running, totalComesFirst
    <3>4. Place = Begin /\ After = walk.seen
      BY <1>4, <2>1, <3>3, ConcatEmptySeq DEF Place, After
    <3>5. Lost(steady, items, Begin, walk.seen) \in Nat
      BY <1>4, <2>1, CountsAre
    <3>6. Lost(steady, items, Begin, walk.seen)
            + LostBack(steady, items, b, walk.seen) <= changes
      BY <1>4, <2>1, <3>2, <3>4, <3>5
    <3> QED
      BY <3>6 DEF b
  <2>3. ASSUME walk.style \in {"pages", "numbered", "forward"}, walk'.pc = "answer",
               c <= Begin + Limit
        PROVE  Missing(steady, After) <= changes
    <3>1. CASE Len(walk.page) < Limit
      BY <1>1, <1>2, <2>1, <2>3, <3>1
    <3>2. CASE Len(walk.page) = Limit
      <4>1. Place \in Nat /\ Place >= c
        BY <1>4, <1>5, <2>1, <2>3, <3>2 DEF Place
      <4>2. Lost(steady, items, Place, After) = Missing(steady, After)
        BY <1>4, <4>1, AtTheEnds
      <4> QED
        BY <2>1, <4>2
    <3> QED
      BY <1>4, <1>5, <3>1, <3>2
  <2> QED
    BY <1>1, <1>2, <1>3, <2>1, <2>2, <2>3 DEF LossForth
<1>7. LossBackward'
  <2> SUFFICES ASSUME walk.style = "backward" PROVE LossBackward'
    BY <1>2 DEF LossBackward
  <2>1. Taken /\ walk'.pc = "answer" /\ ~(walk'.pc = "total")
    BY <1>1, <1>2 DEF totalComesFirst
  <2>2. /\ PlaceBack \in Nat
        /\ LostBack(steady, items, PlaceBack, Before) <= changes
        /\ AgainBack(items, PlaceBack, Before) <= changes
    BY <1>2, <2>1 DEF LossBackward
  <2>3. PlaceBack' = PlaceBack
    <3>1. CASE walk.args.before # Null
      BY <1>1, <3>1 DEF PlaceBack
    <3>2. CASE walk.args.before = Null
      <4>1. /\ PlaceBack' = AtLeastZero(c - walk.args.last)
            /\ PlaceBack = Rear(items, walk.args.last)
        BY <1>1, <2>1, <3>2 DEF PlaceBack
      <4>2. walk.args.last \in Int
        <5>1. walk.args.last \in Sizes
          BY DEF Typed, ArgsOf
        <5> QED
          BY <5>1, WalkAssumption
      <4>3. AtLeastZero(c - walk.args.last) = Rear(items, walk.args.last)
        BY <1>4, <4>2 DEF AtLeastZero, Rear
      <4> QED
        BY <4>1, <4>3
    <3> QED
      BY <3>1, <3>2
  <2>4. c = 0 => steady = {}
    BY <1>4, FS_EmptySet
  <2> QED
    BY <1>1, <1>2, <1>3, <2>1, <2>2, <2>3, <2>4 DEF LossBackward
<1> QED
  BY <1>1, <1>6, <1>7 DEF LossAtTheEnd

(* A client that goes on forth loses nothing between two pages.            *)
LEMMA LossOnward ==
  ASSUME Typed, Bounded, LossIsBounded, walk.pc = "answer", walk.style \in Forth,
         NEW a \in Args, Onward(a)
  PROVE  LossIsBounded'
<1> DEFINE o == getOffset(isGraphQl(walk.style), a, 0)
<1>1. Ask(a, After)
  BY DEF Onward
<1>2. /\ items \in SUBSET Nat /\ IsFiniteSet(items) /\ steady \in SUBSET items
      /\ changes \in Nat /\ walk \in WalkType /\ After \in Seq(Items)
      /\ After \in Seq(Nat) /\ Len(walk.page) \in Nat
  BY WalkIs
<1>3. /\ SameWalk /\ SameItems /\ walk'.pc = "addCount" /\ walk'.args = a
      /\ walk'.seen = After /\ walk'.page = <<>> /\ walk'.count = 0
  BY <1>1, <1>2, AskIs
<1> SUFFICES ASSUME walk.size # 0, LossForth
             PROVE  LossForth' /\ LossBackward' /\ LossAtTheEnd'
  BY <1>3 DEF LossIsBounded, SameWalk
<1>4. /\ walk.limit > 0 /\ walk.limit = Limit /\ walk.offset = Begin
  BY AnswerIs DEF Bounded, Asked
<1>5. /\ o \in Nat /\ o >= Place
      /\ o = Place \/ Len(walk.page) < Limit
  BY <1>4 DEF Onward, Behind, Place
<1>6. Begin' = o /\ Len(walk'.page) = 0
  BY <1>3 DEF Begin, SameWalk
<1> HIDE DEF o
<1>7. Place' = o /\ After' = After
  BY <1>2, <1>3, <1>5, <1>6, ConcatEmptySeq DEF Place, After
<1>8. /\ Place \in Nat /\ Lost(steady, items, Place, After) <= changes
      /\ Again(items, Place, After) <= changes
      /\ Len(walk.page) < Limit => Missing(steady, After) <= changes
  BY <1>2 DEF LossForth, Running, Taken, Place
<1>9. /\ Lost(steady, items, o, After) \in Nat
      /\ Lost(steady, items, o, After) <= Missing(steady, After)
      /\ Missing(steady, After) \in Nat
      /\ Again(items, o, After) \in Nat
  BY <1>2, <1>5, CountsAre
<1>10. Again(items, o, After) <= Again(items, Place, After)
       /\ Again(items, Place, After) \in Nat
  BY <1>2, <1>5, <1>8, CountsAre
<1>11. /\ Lost(steady, items, o, After) <= changes
       /\ Again(items, o, After) <= changes
  <2>1. Again(items, o, After) <= changes
    BY <1>2, <1>8, <1>9, <1>10
  <2>2. CASE o = Place
    BY <1>8, <2>1, <2>2
  <2>3. CASE Len(walk.page) < Limit
    BY <1>2, <1>8, <1>9, <2>1, <2>3
  <2> QED
    BY <1>5, <2>2, <2>3
<1>12. /\ walk'.style \in Forth /\ walk'.style # "backward" /\ ~Taken'
  BY <1>3 DEF SameWalk, Taken, Forth
<1> QED
  BY <1>3, <1>5, <1>6, <1>7, <1>11, <1>12
     DEF LossForth, LossBackward, LossAtTheEnd, SameItems

(* A client that stops has lost what changes have moved, and no more.      *)
LEMMA LossAtEnd ==
  ASSUME Typed, Bounded, LossIsBounded, walk.pc = "answer", walk.style \in Forth,
         AtEnd
  PROVE  LossIsBounded'
<1>1. Stop(After)
  BY DEF AtEnd
<1>2. /\ items \in SUBSET Nat /\ IsFiniteSet(items) /\ steady \in SUBSET items
      /\ changes \in Nat /\ walk \in WalkType /\ After \in Seq(Items)
      /\ After \in Seq(Nat) /\ Len(walk.page) \in Nat
      /\ Cardinality(items) \in Nat
  BY WalkIs
<1>3. SameWalk /\ SameItems /\ walk'.pc = "done" /\ walk'.seen = After
  BY <1>1, <1>2, StopIs
<1> SUFFICES ASSUME walk.size # 0, LossForth
             PROVE  LossForth' /\ LossBackward' /\ LossAtTheEnd'
  BY <1>3 DEF LossIsBounded, SameWalk
<1>4. /\ walk.limit > 0 /\ walk.limit = Limit /\ walk.offset = Begin
      /\ Limit \in Nat /\ Begin \in Nat /\ Len(walk.page) <= Limit
  BY AnswerIs DEF Bounded, Asked
<1>5. /\ Place \in Nat /\ Lost(steady, items, Place, After) <= changes
      /\ Again(items, Place, After) <= changes
      /\ Len(walk.page) < Limit => Missing(steady, After) <= changes
      /\ /\ walk.style \in {"pages", "numbered", "forward"}
         /\ walk.total <= Begin + Limit
         =>
           Missing(steady, After) <= changes
  BY <1>2, <1>4 DEF LossForth, Running, Taken, Place
<1>6. Missing(steady, After) <= changes
  <2>1. CASE Len(walk.page) < Limit
    BY <1>5, <2>1
  <2>2. CASE /\ walk.style \in {"pages", "numbered", "forward"}
             /\ walk.total <= Begin + Limit
    BY <1>5, <2>2
  <2>3. CASE Cardinality(items) <= Begin + Limit /\ Len(walk.page) = Limit
    <3>1. Place >= Cardinality(items)
      BY <1>4, <2>3 DEF Place
    <3>2. Lost(steady, items, Place, After) = Missing(steady, After)
      BY <1>2, <1>5, <3>1, AtTheEnds
    <3> QED
      BY <1>5, <3>2
  <2> QED
    BY <1>2, <1>4, <2>1, <2>2, <2>3 DEF AtEnd
<1>7. Repeats(After) <= changes
  <2>1. /\ Repeats(After) <= Again(items, Place, After) /\ Repeats(After) \in Nat
        /\ Again(items, Place, After) \in Nat
    BY <1>2, <1>5, CountsAre
  <2> QED
    BY <1>2, <1>5, <2>1
<1>8. ~Running'
  BY <1>3 DEF Running
<1> QED
  BY <1>3, <1>6, <1>7, <1>8 DEF LossForth, LossBackward, LossAtTheEnd, SameItems

(* A client that goes on back loses nothing between two pages.             *)
LEMMA LossOfBackward ==
  ASSUME Typed, LossIsBounded, FollowBackward
  PROVE  LossIsBounded'
<1>1. walk.pc = "answer" /\ walk.style = "backward" /\ Top \in Nat
  BY FollowBackwardIs
<1>2. /\ items \in SUBSET Nat /\ IsFiniteSet(items) /\ steady \in SUBSET items
      /\ changes \in Nat /\ walk \in WalkType /\ Before \in Seq(Items)
      /\ Before \in Seq(Nat) /\ Len(walk.page) \in Nat
  BY WalkIs
<1>3. SameWalk /\ SameItems
  BY <1>2, AskIs, StopIs, FollowBackwardIs
<1> SUFFICES ASSUME walk.size # 0, LossBackward
             PROVE  LossForth' /\ LossBackward' /\ LossAtTheEnd'
  BY <1>3 DEF LossIsBounded, SameWalk
<1>4. /\ PlaceBack \in Nat
      /\ LostBack(steady, items, PlaceBack, Before) <= changes
      /\ AgainBack(items, PlaceBack, Before) <= changes
      /\ walk.total = 0 => steady = {}
  BY <1>1 DEF LossBackward, Running, Taken
<1>5. Top = PlaceBack
  BY <1>1, <1>4 DEF Top, PlaceBack, AtLeastZero
<1>6. walk'.style = "backward" /\ walk'.style \notin Forth
      /\ items' = items /\ steady' = steady /\ changes' = changes
  BY <1>1, <1>3 DEF SameWalk, SameItems, Forth
<1>7. CASE \E a \in Args : /\ Ask(a, Before) /\ a.before = Top /\ a.before # Null
  <2>1. PICK a \in Args : Ask(a, Before) /\ a.before = Top /\ a.before # Null
    BY <1>7
  <2>2. /\ walk'.pc = "addCount" /\ walk'.args = a /\ walk'.seen = Before
        /\ walk'.page = <<>>
    BY <1>2, <2>1, AskIs
  <2>3. PlaceBack' = Top /\ Before' = Before
    BY <1>1, <1>2, <2>1, <2>2, ConcatEmptySeq DEF PlaceBack, Before
  <2> QED
    BY <1>4, <1>5, <1>6, <2>1, <2>2, <2>3
       DEF LossForth, LossBackward, LossAtTheEnd
<1>8. CASE (Top = 0 \/ walk.total = 0) /\ Stop(Before)
  <2>1. walk'.pc = "done" /\ walk'.seen = Before
    BY <1>2, <1>8, StopIs
  <2>2. Missing(steady, Before) <= changes
    <3>1. CASE Top = 0
      <4>1. LostBack(steady, items, Top, Before) = Missing(steady, Before)
        BY <1>1, <1>2, <3>1, AtTheEnds
      <4> QED
        BY <1>4, <1>5, <4>1
    <3>2. CASE walk.total = 0
      <4>1. steady \ SetOf(Before) = {}
        BY <1>4, <3>2
      <4>2. Missing(steady, Before) = 0
        BY <4>1, FS_EmptySet DEF Missing
      <4> QED
        BY <1>2, <4>2
    <3> QED
      BY <1>8, <3>1, <3>2
  <2>3. Repeats(Before) <= changes
    <3>1. /\ Repeats(Before) <= AgainBack(items, PlaceBack, Before)
          /\ Repeats(Before) \in Nat /\ AgainBack(items, PlaceBack, Before) \in Nat
      BY <1>2, <1>4, CountsAre
    <3> QED
      BY <1>2, <1>4, <3>1
  <2>4. ~Running'
    BY <2>1 DEF Running
  <2> QED
    BY <1>6, <2>1, <2>2, <2>3, <2>4 DEF LossForth, LossBackward, LossAtTheEnd
<1> QED
  BY <1>7, <1>8, FollowBackwardIs

(* Every step keeps the bound.                                             *)
LEMMA LossNext ==
  ASSUME Typed, Bounded, LossIsBounded, [Next]_vars
  PROVE  LossIsBounded'
<1>1. CASE Follow
  <2>1. CASE FollowNext \/ FollowNumbered \/ FollowForward \/ FollowEdges
    <3>1. /\ walk.pc = "answer" /\ walk.style \in Forth
          /\ AtEnd \/ \E a \in Args : Onward(a)
      BY <2>1, FollowNextIs, FollowNumberedIs, FollowForwardIs, FollowEdgesIs
         DEF Forth
    <3> QED
      BY <3>1, LossOnward, LossAtEnd
  <2>2. CASE FollowPrevious \/ FollowField
    <3>1. walk.style \in {"back", "field"}
      BY <2>2, FollowPreviousIs, FollowFieldIs
    <3>2. walk'.style = walk.style
      BY <1>1, FollowIs, AskIs, StopIs, WalkIs DEF SameWalk
    <3> QED
      BY <3>1, <3>2
         DEF LossIsBounded, LossForth, LossBackward, LossAtTheEnd, Forth
  <2> QED
    BY <1>1, <2>1, <2>2, LossOfBackward DEF Follow
<1>2. CASE UNCHANGED vars
  BY <1>2 DEF vars, LossIsBounded, LossForth, LossBackward, LossAtTheEnd,
     Running, Taken, Begin, Limit, Place, PlaceBack, After, Before
<1> QED
  BY <1>1, <1>2, LossOfCount, LossOfPagination, LossOfIterator, LossOfTotal,
     LossOfChange DEF Next, Step, Follow

(* Nothing is lost at first.                                               *)
LEMMA LossInit ==
  ASSUME Init
  PROVE  LossIsBounded
<1> SUFFICES ASSUME walk.first.page \in {Null, 1}
             PROVE  LossForth /\ LossBackward /\ LossAtTheEnd
  BY DEF LossIsBounded
<1>1. /\ Typed /\ walk.pc = "addCount" /\ walk.first = walk.args /\ walk.count = 0
      /\ walk.page = <<>> /\ walk.seen = <<>> /\ changes = 0
      /\ walk.args.before = Null /\ walk.args.after = Null
  BY InitIs
<1>2. /\ items \in SUBSET Nat /\ IsFiniteSet(items) /\ steady \in SUBSET items
      /\ walk \in WalkType /\ ArgsOf(walk.style, walk.size, walk.args)
      /\ walk.style \in AllStyles /\ walk.size \in Sizes /\ walk.size \in Int
  BY <1>1, WalkIs, WalkAssumption DEF Typed, WalkType
<1>3. ~Taken
  BY <1>1 DEF Taken
<1>4. LossForth
  <2> SUFFICES ASSUME walk.style \in Forth PROVE LossForth
    BY DEF LossForth
  <2>1. Begin = 0
    <3>1. PageLimit(walk.size) \in Int /\ getPage(walk.args) = 1
      BY <1>1, <1>2, CappedIs, PaginationAssumption
         DEF PageLimit, getPage, getParameterFromContext
    <3>2. /\ walk.style \in {"pages", "partial", "numbered"} =>
               Begin = (getPage(walk.args) - 1) * PageLimit(walk.size)
          /\ walk.style \in {"forward", "edges"} => Begin = 0
      BY <1>1, <1>2, OffsetIs DEF Begin
    <3> QED
      BY <3>1, <3>2 DEF Forth
  <2>2. Place = 0 /\ After = <<>>
    BY <1>1, <2>1 DEF Place, After
  <2>3. SetOf(<<>>) = {} /\ Len(<<>>) = 0
    BY DEF SetOf
  <2>4. Foremost(items, 0) = {}
    BY <1>2, ForemostIs
  <2>5. Lost(steady, items, 0, <<>>) = 0
    <3>1. (steady \cap Foremost(items, 0)) \ SetOf(<<>>) = {}
      BY <2>4
    <3> QED
      BY <3>1, FS_EmptySet DEF Lost
  <2>6. Again(items, 0, <<>>) = 0
    <3>1. SetOf(<<>>) \cap (items \ Foremost(items, 0)) = {}
      BY <2>3
    <3>2. Cardinality(SetOf(<<>>)) = 0
      BY <2>3, FS_EmptySet
    <3>3. Cardinality(SetOf(<<>>) \cap (items \ Foremost(items, 0))) = 0
      BY <3>1, FS_EmptySet
    <3> QED
      BY <2>3, <3>2, <3>3 DEF Again, Repeats
  <2> QED
    BY <1>1, <1>3, <2>1, <2>2, <2>5, <2>6 DEF LossForth
<1>5. LossBackward
  BY <1>1, <1>3 DEF LossBackward
<1> QED
  BY <1>1, <1>4, <1>5 DEF LossAtTheEnd

(* A client that walks through a collection that changes misses no more of *)
(* the items that were there all along, and sees no more of them twice,    *)
(* than the changes: whatever is inserted and deleted at which moment of   *)
(* which request, in which style and for which limits.                     *)
THEOREM LossesAreBounded ==
  ASSUME PagesHoldItems
  PROVE  Spec => []LossBoundedByChanges
<1> DEFINE Inv == Typed /\ Bounded /\ UpToTheCursor /\ LossIsBounded
<1>1. Init => Inv
  BY InitIs, BoundedInit, UpToTheCursorInit, LossInit
<1>2. Inv /\ [Next]_vars => Inv'
  BY TypedNext, BoundedNext, UpToTheCursorNext, LossNext
<1>3. Inv => LossBoundedByChanges
  <2> SUFFICES ASSUME Inv, Ended, walk.style # "back",
                      walk.first.page \in {Null, 1}
               PROVE  /\ Cardinality(steady \ SetOf(walk.seen)) <= changes
                      /\ Len(walk.seen) - Cardinality(SetOf(walk.seen)) <= changes
    BY DEF LossBoundedByChanges, SetOf
  <2>1. walk.style \in AllStyles /\ walk.seen \in Seq(Nat) /\ changes \in Nat
    BY WalkIs, WalkAssumption DEF WalkType
  <2>2. CASE walk.style \in Forth \cup {"backward"}
    BY <2>2 DEF LossIsBounded, LossAtTheEnd, Missing, Repeats, Ended
  <2>3. CASE walk.style = "field"
    <3>1. steady \subseteq SetOf(walk.seen) /\ Increasing(walk.seen)
      BY <2>3 DEF UpToTheCursor
    <3>2. steady \ SetOf(walk.seen) = {}
      BY <3>1
    <3>3. Cardinality(steady \ SetOf(walk.seen)) = 0
      BY <3>2, FS_EmptySet
    <3>4. \A j, k \in DOMAIN walk.seen : walk.seen[j] = walk.seen[k] => j = k
      <4> SUFFICES ASSUME NEW j \in DOMAIN walk.seen, NEW k \in DOMAIN walk.seen,
                          walk.seen[j] = walk.seen[k], j # k
                   PROVE  FALSE
        OBVIOUS
      <4>1. /\ j \in Nat /\ k \in Nat
            /\ walk.seen[j] \in Nat /\ walk.seen[k] \in Nat
        BY <2>1
      <4>2. walk.seen[j] < walk.seen[k] \/ walk.seen[k] < walk.seen[j]
        BY <3>1, <4>1 DEF Increasing
      <4> QED
        BY <4>1, <4>2
    <3>5. /\ Cardinality(SetOf(walk.seen)) = Len(walk.seen) /\ Len(walk.seen) \in Nat
      BY <2>1, <3>4, SetOfIs
    <3> QED
      BY <2>1, <3>3, <3>5
  <2> QED
    BY <2>1, <2>2, <2>3 DEF AllStyles, Forth
<1> QED
  BY <1>1, <1>2, <1>3, PTL DEF Spec
=============================================================================
