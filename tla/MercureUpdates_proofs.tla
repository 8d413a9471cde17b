------------------------ MODULE MercureUpdates_proofs ------------------------
(***************************************************************************)
(* Proofs about MercureUpdates, for every set of workers and resources and *)
(* any number of flushes: what is stored before a commit and published     *)
(* after it is what was committed, once, when the listener ends with the   *)
(* process.                                                                *)
(***************************************************************************)
EXTENDS MercureUpdates, FiniteSetTheorems, SequenceTheorems, TLAPS

(* A change that is scheduled; an update has data.                         *)
ChangeT == {c \in Change : c.type = "update" => c.val \in Data}

WorkerT ==
  [pc : {"idle", "loaded", "flushing", "committed", "publishing"},
   flush : 0..MaxFlushes, loaded : [Ids -> Data \cup {None}], read : Nat,
   changes : SUBSET ChangeT, stored : [Types -> Seq(Change)],
   queue : Seq(Change)]

MessageT ==
  [flush : 1..MaxFlushes, type : Types, id : Ids, val : Data \cup {None},
   at : Nat]

CommitT ==
  [worker : Workers, flush : 1..MaxFlushes, type : Types, id : Ids,
   val : Data \cup {None}, landed : BOOLEAN, columns : SUBSET Columns, read : Nat]

Typed ==
  /\ rows \in [Ids -> Data \cup {None}]
  /\ worker \in [Workers -> WorkerT]
  /\ \A w \in Workers : IsFiniteSet(worker[w].changes)
  /\ hub \in Seq(MessageT)
  /\ committed \in Seq(CommitT)
  /\ flushes \in 0..MaxFlushes

(* A flush has one number and one worker.                                  *)
FlushesDiffer ==
  \A w \in Workers : worker[w].pc # "idle" =>
    /\ worker[w].flush \in 1..flushes
    /\ \A v \in Workers : v # w /\ worker[v].pc # "idle" =>
         worker[v].flush # worker[w].flush

(* Sorted by kind of change; empty but between onFlush and the end.        *)
SortedByType(stored) ==
  \A t \in Types : \A j \in DOMAIN stored[t] : stored[t][j].type = t

StoredByType == \A w \in Workers : SortedByType(worker[w].stored)

EmptyAtFirst(k) == k.pc \in {"idle", "loaded"} => k.stored = reset

(* A flush has one change per resource.                                    *)
OneEach(S, n) ==
  /\ IsFiniteSet(S)
  /\ \A c \in S : c.flush = n
  /\ \A c, d \in S : c.id = d.id => c = d

(* No resource twice in a list.                                            *)
IdsOnce(s) == \A i, j \in DOMAIN s : s[i].id = s[j].id => i = j

(* The listener stores the changes of a flush that are to be published,    *)
(* once each.                                                              *)
Stores(stored, S) ==
  /\ \A t \in Types : \A j \in DOMAIN stored[t] :
       \E c \in S : Tells(stored[t][j], c)
  /\ \A t \in Types : IdsOnce(stored[t])
  /\ \A c \in S : c.id \in Mercure =>
       \E j \in DOMAIN stored[c.type] : Tells(stored[c.type][j], c)

Flushing(k) ==
  k.pc \in {"flushing", "committed"} =>
    OneEach(k.changes, k.flush) /\ Stores(k.stored, k.changes)

WasCommitted(c) == \E n \in DOMAIN committed : Tells(c, committed[n])

(* What is queued was committed, once each.                                *)
Queued(q, n) ==
  /\ \A j \in DOMAIN q : q[j].flush = n /\ WasCommitted(q[j])
  /\ IdsOnce(q)

Committed(k) ==
  /\ k.pc = "committed" => \A c \in k.changes : WasCommitted(c)
  /\ k.pc = "publishing" => Queued(k.queue, k.flush)

(* Nothing is on the hub before its time, or still queued.                 *)
Unpublished(k) ==
  \A i \in DOMAIN hub :
    /\ k.pc \in {"loaded", "flushing", "committed"} => hub[i].flush # k.flush
    /\ k.pc = "publishing" /\ hub[i].flush = k.flush =>
         \A j \in DOMAIN k.queue : k.queue[j].id # hub[i].id

HubOnce ==
  /\ \A i \in DOMAIN hub :
       hub[i].flush \in 1..flushes /\ hub[i].at <= Len(committed)
  /\ \A i, j \in DOMAIN hub :
       hub[i].flush = hub[j].flush /\ hub[i].id = hub[j].id => i = j

(* Where a committed change is.                                            *)
Published(c) == \E i \in DOMAIN hub : Tells(hub[i], c)
Lost(c) == [flush |-> c.flush, id |-> c.id] \in lost
PendingBy(k, c) ==
  \/ k.pc = "committed" /\ \E d \in k.changes : Tells(d, c)
  \/ k.pc = "publishing" /\ \E j \in DOMAIN k.queue : Tells(k.queue[j], c)
Pending(c) == \E w \in Workers : PendingBy(worker[w], c)

Accounted ==
  \A n \in DOMAIN committed : committed[n].id \in Mercure =>
    \/ Published(committed[n]) \/ Lost(committed[n]) \/ Pending(committed[n])

(* What holds when the listener ends with the process.                     *)
PerFlush ==
  /\ \A w \in Workers :
       /\ EmptyAtFirst(worker[w]) /\ Flushing(worker[w])
       /\ Committed(worker[w]) /\ Unpublished(worker[w])
  /\ HubOnce /\ PublishedWasCommitted /\ Accounted

BInv == Typed /\ FlushesDiffer /\ StoredByType

MInv == BInv /\ (~LongRunning => PerFlush)

-----------------------------------------------------------------------------
(* Sets, sequences and changes                                             *)

LEMMA SetToSeqElements ==
  ASSUME NEW S, IsFiniteSet(S)
  PROVE  /\ Cardinality(S) \in Nat
         /\ SetToSeq(S) \in [1..Cardinality(S) -> S]
         /\ \A i, j \in 1..Cardinality(S) :
              SetToSeq(S)[i] = SetToSeq(S)[j] => i = j
         /\ \A x \in S : \E i \in 1..Cardinality(S) : SetToSeq(S)[i] = x
<1>1. PICK g : g \in Bijection(1..Cardinality(S), S)
  BY FS_CardinalityType DEF ExistsBijection
<1>2. g \in [1..Cardinality(S) -> S] /\ IsInjective(g)
  BY <1>1 DEF Bijection, Injection
<1>3. SetToSeq(S) \in [1..Cardinality(S) -> S] /\ IsInjective(SetToSeq(S))
  BY <1>2 DEF SetToSeq
<1>4. SetToSeq(S) \in Injection(1..Cardinality(S), S)
  BY <1>3 DEF Injection
<1>5. Cardinality(S) \in Nat
  BY FS_CardinalityType
<1>6. /\ Cardinality(1..Cardinality(S)) = Cardinality(S)
      /\ IsFiniteSet(1..Cardinality(S))
  BY <1>5, FS_Interval
<1>7. SetToSeq(S) \in Surjection(1..Cardinality(S), S)
  BY <1>4, <1>6, FS_Injection
<1> QED
  BY <1>3, <1>5, <1>7 DEF Surjection, IsInjective

LEMMA ImageFinite ==
  ASSUME NEW S, IsFiniteSet(S), NEW f, DOMAIN f = S
  PROVE  IsFiniteSet({f[x] : x \in S})
<1> DEFINE T == {f[x] : x \in S}
           g == [x \in S |-> f[x]]
<1>1. g \in [S -> T] /\ \A t \in T : \E x \in S : g[x] = t
  OBVIOUS
<1>2. g \in Surjection(S, T)
  BY <1>1 DEF Surjection
<1> HIDE DEF T, g
<1>3. IsFiniteSet(T)
  BY <1>2, FS_Surjection
<1> QED
  BY <1>3 DEF T

LEMMA TypeOfTyped ==
  ASSUME NEW old, NEW new
  PROVE  typeOf(old, new) \in Types
  BY DEF typeOf, Types

(* A flush schedules at most one change of each resource.                  *)
LEMMA ScheduledOnce ==
  ASSUME NEW k \in WorkerT, k.flush \in 1..MaxFlushes,
         NEW D \in SUBSET Ids, NEW data \in [D -> Data \cup {None}]
  PROVE  /\ Scheduled(k, data) \subseteq ChangeT
         /\ OneEach(Scheduled(k, data), k.flush)
<1> DEFINE change(i) ==
             [flush |-> k.flush, type |-> typeOf(k.loaded[i], data[i]),
              id |-> i, val |-> data[i],
              named |-> AssignedIds \/ k.loaded[i] # None]
           f == [i \in D |-> change(i)]
<1>1. Scheduled(k, data) = {change(i) : i \in D}
  BY DEF Scheduled
<1>2. IsFiniteSet(D)
  BY ConstantsAssumption, FS_Subset
<1>3. {change(i) : i \in D} = {f[i] : i \in D} /\ DOMAIN f = D
  OBVIOUS
<1>4. IsFiniteSet({f[i] : i \in D})
  <2> HIDE DEF f
  <2> QED
    BY <1>2, <1>3, ImageFinite
<1>5. IsFiniteSet(Scheduled(k, data))
  BY <1>1, <1>3, <1>4
<1>6. ASSUME NEW i \in D
      PROVE  /\ change(i) \in ChangeT /\ change(i).flush = k.flush
             /\ change(i).id = i
  <2>1. typeOf(k.loaded[i], data[i]) \in {"create", "update", "delete"}
    BY TypeOfTyped DEF Types
  <2>2. (AssignedIds \/ k.loaded[i] # None) \in BOOLEAN
    OBVIOUS
  <2>3. change(i) \in Change
    BY <2>1, <2>2 DEF Change
  <2>4. data[i] # None => data[i] \in Data
    OBVIOUS
  <2>5. change(i).type = "update" => change(i).val \in Data
    BY <2>4 DEF typeOf
  <2> QED
    BY <2>3, <2>5 DEF ChangeT
<1> HIDE DEF change
<1> QED
  BY <1>1, <1>5, <1>6 DEF OneEach

LEMMA TypeTyped == ASSUME NEW c \in Change PROVE c.type \in Types /\ c.id \in Ids
  BY DEF Change, Types

LEMMA TellsBack ==
  /\ \A c : Tells(c, c)
  /\ \A c, d : Tells(c, d) => Tells(d, c)
  /\ \A c, d, e : Tells(c, d) /\ Tells(d, e) => Tells(c, e)
  BY DEF Tells

LEMMA ChangeConcat ==
  \A s, t \in Seq(Change) :
    /\ s \o t \in Seq(Change) /\ Len(s \o t) = Len(s) + Len(t)
    /\ \A i \in 1..(Len(s) + Len(t)) :
         (s \o t)[i] = IF i <= Len(s) THEN s[i] ELSE t[i - Len(s)]
  BY ConcatProperties

(* What is stored for one kind of change.                                  *)
LEMMA StoreSequence ==
  ASSUME NEW S \in SUBSET Change, IsFiniteSet(S), NEW t \in Types
  PROVE  LET q == SetToSeq({c \in S : c.type = t /\ c.id \in Mercure})
         IN  /\ q \in Seq(Change)
             /\ \A j \in DOMAIN q : q[j] \in S /\ q[j].type = t
             /\ \A i, j \in DOMAIN q : q[i] = q[j] => i = j
             /\ \A c \in S : c.type = t /\ c.id \in Mercure =>
                  \E j \in DOMAIN q : q[j] = c
<1> DEFINE P == {c \in S : c.type = t /\ c.id \in Mercure}
           q == SetToSeq(P)
<1>1. IsFiniteSet(P)
  BY FS_Subset
<1>2. /\ Cardinality(P) \in Nat /\ q \in [1..Cardinality(P) -> P]
      /\ \A i, j \in 1..Cardinality(P) : q[i] = q[j] => i = j
      /\ \A x \in P : \E i \in 1..Cardinality(P) : q[i] = x
  <2> HIDE DEF P
  <2> QED
    BY <1>1, SetToSeqElements
<1>3. P \subseteq Change /\ \A c \in P : c \in S /\ c.type = t
  OBVIOUS
<1>4. \A c \in S : c.type = t /\ c.id \in Mercure => c \in P
  OBVIOUS
<1> HIDE DEF P, q
<1>5. q \in [1..Cardinality(P) -> Change] /\ DOMAIN q = 1..Cardinality(P)
  BY <1>2, <1>3
<1>6. q \in Seq(Change)
  BY <1>2, <1>5, SeqDef
<1>7. \A j \in DOMAIN q : q[j] \in S /\ q[j].type = t
  BY <1>2, <1>3, <1>5
<1>8. \A c \in S : c.type = t /\ c.id \in Mercure => \E j \in DOMAIN q : q[j] = c
  BY <1>2, <1>4, <1>5
<1> QED
  BY <1>2, <1>5, <1>6, <1>7, <1>8 DEF q, P

(* The listener keeps its objects sorted; from none, it comes to store the *)
(* changes of the flush.                                                   *)
LEMMA StoreKeepsTypes ==
  ASSUME NEW stored \in [Types -> Seq(Change)], SortedByType(stored),
         NEW S \in SUBSET Change, IsFiniteSet(S)
  PROVE  /\ storeObjectToPublish(stored, S) \in [Types -> Seq(Change)]
         /\ SortedByType(storeObjectToPublish(stored, S))
<1> DEFINE new == storeObjectToPublish(stored, S)
           q(t) == SetToSeq({c \in S : c.type = t /\ c.id \in Mercure})
<1>1. new = [t \in Types |-> stored[t] \o q(t)]
  BY DEF storeObjectToPublish
<1>2. ASSUME NEW t \in Types
      PROVE  /\ new[t] \in Seq(Change)
             /\ \A j \in DOMAIN new[t] : new[t][j].type = t
  <2>1. q(t) \in Seq(Change) /\ \A j \in DOMAIN q(t) : q(t)[j].type = t
    BY StoreSequence
  <2>2. new[t] = stored[t] \o q(t) /\ stored[t] \in Seq(Change)
    BY <1>1
  <2>3. \A j \in DOMAIN stored[t] : stored[t][j].type = t
    BY DEF SortedByType
  <2> HIDE DEF new, q
  <2>4. /\ stored[t] \o q(t) \in Seq(Change)
        /\ Len(stored[t] \o q(t)) = Len(stored[t]) + Len(q(t))
        /\ \A i \in 1..(Len(stored[t]) + Len(q(t))) :
             (stored[t] \o q(t))[i] =
               IF i <= Len(stored[t]) THEN stored[t][i]
               ELSE q(t)[i - Len(stored[t])]
    BY <2>1, <2>2, ChangeConcat, Zenon
  <2>5. /\ Len(stored[t]) \in Nat /\ Len(q(t)) \in Nat
        /\ DOMAIN stored[t] = 1..Len(stored[t]) /\ DOMAIN q(t) = 1..Len(q(t))
        /\ DOMAIN (stored[t] \o q(t)) = 1..Len(stored[t] \o q(t))
    BY <2>1, <2>2, <2>4, LenProperties
  <2> QED
    BY <2>1, <2>2, <2>3, <2>4, <2>5
<1> HIDE DEF q
<1>3. new \in [Types -> Seq(Change)]
  BY <1>1, <1>2
<1> QED
  BY <1>2, <1>3 DEF SortedByType

LEMMA StoreFromNone ==
  ASSUME NEW S \in SUBSET Change, NEW n, OneEach(S, n)
  PROVE  Stores(storeObjectToPublish(reset, S), S)
<1> DEFINE new == storeObjectToPublish(reset, S)
           q(t) == SetToSeq({c \in S : c.type = t /\ c.id \in Mercure})
<1>1. ASSUME NEW t \in Types
      PROVE  new[t] = q(t)
  <2>1. q(t) \in Seq(Change)
    BY StoreSequence DEF OneEach
  <2>2. new[t] = <<>> \o q(t)
    BY DEF storeObjectToPublish, reset
  <2> HIDE DEF new, q
  <2> QED
    BY <2>1, <2>2, ConcatEmptySeq
<1>2. ASSUME NEW t \in Types
      PROVE  /\ \A j \in DOMAIN new[t] : new[t][j] \in S
             /\ \A i, j \in DOMAIN new[t] : new[t][i] = new[t][j] => i = j
             /\ \A c \in S : c.type = t /\ c.id \in Mercure =>
                  \E j \in DOMAIN new[t] : new[t][j] = c
  <2>0. IsFiniteSet(S)
    BY DEF OneEach
  <2>1. /\ \A j \in DOMAIN q(t) : q(t)[j] \in S
        /\ \A i, j \in DOMAIN q(t) : q(t)[i] = q(t)[j] => i = j
        /\ \A c \in S : c.type = t /\ c.id \in Mercure =>
             \E j \in DOMAIN q(t) : q(t)[j] = c
    <3> HIDE DEF new
    <3>1. \A j \in DOMAIN q(t) : q(t)[j] \in S
      BY <2>0, StoreSequence
    <3>2. \A i, j \in DOMAIN q(t) : q(t)[i] = q(t)[j] => i = j
      BY <2>0, StoreSequence
    <3>3. \A c \in S : c.type = t /\ c.id \in Mercure =>
            \E j \in DOMAIN q(t) : q(t)[j] = c
      BY <2>0, StoreSequence
    <3> QED
      BY <3>1, <3>2, <3>3
  <2> HIDE DEF new, q
  <2> QED
    BY <1>1, <2>1
<1> HIDE DEF new, q
<1>3. \A c \in S : c.type \in Types
  BY TypeTyped
<1>4. Stores(new, S)
  <2>1. \A t \in Types : \A j \in DOMAIN new[t] : \E c \in S : Tells(new[t][j], c)
    BY <1>2, TellsBack
  <2>2. \A t \in Types : IdsOnce(new[t])
    BY <1>2 DEF OneEach, IdsOnce
  <2>3. \A c \in S : c.id \in Mercure =>
          \E j \in DOMAIN new[c.type] : Tells(new[c.type][j], c)
    BY <1>2, <1>3, TellsBack
  <2> QED
    BY <2>1, <2>2, <2>3 DEF Stores
<1> QED
  BY <1>4 DEF new

(* An insertion gives an object its identifier, and changes nothing else.  *)
LEMMA NamedSame ==
  ASSUME NEW stored \in [Types -> Seq(Change)], NEW n
  PROVE  /\ Named(stored, n) \in [Types -> Seq(Change)]
         /\ \A t \in Types :
              /\ DOMAIN Named(stored, n)[t] = DOMAIN stored[t]
              /\ \A j \in DOMAIN stored[t] :
                   /\ Tells(Named(stored, n)[t][j], stored[t][j])
                   /\ Named(stored, n)[t][j].id = stored[t][j].id
                   /\ Named(stored, n)[t][j].type = stored[t][j].type
<1> DEFINE new == Named(stored, n)
           item(t, j) == [stored[t][j] EXCEPT !.named = @ \/ stored[t][j].flush = n]
<1>1. new = [t \in Types |-> [j \in DOMAIN stored[t] |-> item(t, j)]]
  BY DEF Named
<1>2. ASSUME NEW t \in Types, NEW j \in DOMAIN stored[t]
      PROVE  /\ item(t, j) \in Change /\ Tells(item(t, j), stored[t][j])
             /\ item(t, j).id = stored[t][j].id
             /\ item(t, j).type = stored[t][j].type
  <2>1. stored[t] \in Seq(Change) /\ stored[t][j] \in Change
    BY ElementOfSeq, LenProperties
  <2> QED
    BY <2>1 DEF Change, Tells
<1> HIDE DEF item, new
<1>3. ASSUME NEW t \in Types
      PROVE  /\ new[t] \in Seq(Change) /\ DOMAIN new[t] = DOMAIN stored[t]
             /\ \A j \in DOMAIN stored[t] : new[t][j] = item(t, j)
  <2>1. /\ DOMAIN stored[t] = 1..Len(stored[t]) /\ Len(stored[t]) \in Nat
    BY LenProperties
  <2>2. new[t] = [j \in 1..Len(stored[t]) |-> item(t, j)]
    BY <1>1, <2>1
  <2>3. new[t] \in [1..Len(stored[t]) -> Change]
    BY <1>2, <2>1, <2>2
  <2>4. new[t] \in Seq(Change)
    BY <2>1, <2>3, SeqDef
  <2> QED
    BY <2>1, <2>2, <2>4
<1>4. new \in [Types -> Seq(Change)]
  BY <1>1, <1>3
<1> QED
  BY <1>2, <1>3, <1>4 DEF new

LEMMA ConcatElements ==
  ASSUME NEW s \in Seq(Change), NEW t \in Seq(Change)
  PROVE  /\ s \o t \in Seq(Change)
         /\ ToSet(s \o t) = ToSet(s) \cup ToSet(t)
<1>1. /\ s \o t \in Seq(Change) /\ Len(s \o t) = Len(s) + Len(t)
      /\ \A i \in 1..(Len(s) + Len(t)) :
           (s \o t)[i] = IF i <= Len(s) THEN s[i] ELSE t[i - Len(s)]
  BY ChangeConcat, Zenon
<1>2. /\ Len(s) \in Nat /\ Len(t) \in Nat
      /\ DOMAIN s = 1..Len(s) /\ DOMAIN t = 1..Len(t)
      /\ DOMAIN (s \o t) = 1..(Len(s) + Len(t))
  BY <1>1, LenProperties
<1> DEFINE u == s \o t
<1>3. /\ DOMAIN u = 1..(Len(s) + Len(t))
      /\ \A i \in 1..(Len(s) + Len(t)) :
           u[i] = IF i <= Len(s) THEN s[i] ELSE t[i - Len(s)]
  BY <1>1, <1>2
<1> HIDE DEF u
<1>4. ASSUME NEW c \in ToSet(u) PROVE c \in ToSet(s) \cup ToSet(t)
  <2>1. PICK i \in 1..(Len(s) + Len(t)) : c = u[i]
    BY <1>3, <1>4 DEF ToSet
  <2>2. CASE i <= Len(s)
    BY <1>2, <1>3, <2>1, <2>2 DEF ToSet
  <2>3. CASE ~(i <= Len(s))
    <3>1. i - Len(s) \in 1..Len(t) /\ c = t[i - Len(s)]
      BY <1>2, <1>3, <2>1, <2>3
    <3> QED
      BY <1>2, <3>1 DEF ToSet
  <2> QED
    BY <2>2, <2>3
<1>5. ASSUME NEW c \in ToSet(s) PROVE c \in ToSet(u)
  <2>1. PICK i \in 1..Len(s) : c = s[i]
    BY <1>2, <1>5 DEF ToSet
  <2>2. i \in 1..(Len(s) + Len(t)) /\ u[i] = s[i]
    BY <1>2, <1>3, <2>1
  <2> QED
    BY <1>3, <2>1, <2>2 DEF ToSet
<1>6. ASSUME NEW c \in ToSet(t) PROVE c \in ToSet(u)
  <2>1. PICK i \in 1..Len(t) : c = t[i]
    BY <1>2, <1>6 DEF ToSet
  <2>2. /\ i + Len(s) \in 1..(Len(s) + Len(t)) /\ (i + Len(s)) - Len(s) = i
        /\ ~(i + Len(s) <= Len(s))
    BY <1>2, <2>1
  <2>3. u[i + Len(s)] = t[i]
    BY <1>3, <2>2
  <2> QED
    BY <1>3, <2>1, <2>2, <2>3 DEF ToSet
<1>7. ToSet(u) = ToSet(s) \cup ToSet(t)
  BY <1>4, <1>5, <1>6
<1> QED
  BY <1>1, <1>7 DEF u

LEMMA ConcatOnce ==
  ASSUME NEW s \in Seq(Change), NEW t \in Seq(Change), IdsOnce(s), IdsOnce(t),
         \A c \in ToSet(s), d \in ToSet(t) : c.id # d.id
  PROVE  IdsOnce(s \o t)
<1>1. /\ Len(s \o t) = Len(s) + Len(t) /\ s \o t \in Seq(Change)
      /\ \A i \in 1..(Len(s) + Len(t)) :
           (s \o t)[i] = IF i <= Len(s) THEN s[i] ELSE t[i - Len(s)]
  BY ChangeConcat, Zenon
<1>2. /\ Len(s) \in Nat /\ Len(t) \in Nat
      /\ DOMAIN s = 1..Len(s) /\ DOMAIN t = 1..Len(t)
      /\ DOMAIN (s \o t) = 1..(Len(s) + Len(t))
  BY <1>1, LenProperties
<1> DEFINE u == s \o t
<1>3. /\ DOMAIN u = 1..(Len(s) + Len(t))
      /\ \A i \in 1..(Len(s) + Len(t)) :
           u[i] = IF i <= Len(s) THEN s[i] ELSE t[i - Len(s)]
  BY <1>1, <1>2
<1> HIDE DEF u
<1>4. /\ \A i \in 1..Len(s), j \in 1..Len(t) : s[i].id # t[j].id
      /\ \A i, j \in 1..Len(s) : s[i].id = s[j].id => i = j
      /\ \A i, j \in 1..Len(t) : t[i].id = t[j].id => i = j
  BY <1>2 DEF ToSet, IdsOnce
<1>5. ASSUME NEW i \in DOMAIN u, NEW j \in DOMAIN u, u[i].id = u[j].id
      PROVE  i = j
  <2>1. CASE i <= Len(s) /\ j <= Len(s)
    BY <1>2, <1>3, <1>4, <1>5, <2>1
  <2>2. CASE i <= Len(s) /\ ~(j <= Len(s))
    <3>1. i \in 1..Len(s) /\ j - Len(s) \in 1..Len(t)
      BY <1>2, <1>3, <2>2
    <3> QED
      BY <1>3, <1>4, <1>5, <2>2, <3>1
  <2>3. CASE ~(i <= Len(s)) /\ j <= Len(s)
    <3>1. i - Len(s) \in 1..Len(t) /\ j \in 1..Len(s)
      BY <1>2, <1>3, <2>3
    <3> QED
      BY <1>3, <1>4, <1>5, <2>3, <3>1
  <2>4. CASE ~(i <= Len(s)) /\ ~(j <= Len(s))
    <3>1. i - Len(s) \in 1..Len(t) /\ j - Len(s) \in 1..Len(t)
      BY <1>2, <1>3, <2>4
    <3>2. i - Len(s) = j - Len(s)
      BY <1>3, <1>4, <1>5, <2>4, <3>1
    <3> QED
      BY <1>2, <1>3, <3>2
  <2> QED
    BY <2>1, <2>2, <2>3, <2>4
<1> QED
  BY <1>5 DEF IdsOnce, u

(* What postFlush queues.                                                  *)
QueueOf(stored) ==
  stored["create"] \o stored["update"] \o stored["delete"]

LEMMA QueueElements ==
  ASSUME NEW stored \in [Types -> Seq(Change)]
  PROVE  /\ QueueOf(stored) \in Seq(Change)
         /\ \A c : c \in ToSet(QueueOf(stored))
                     <=> \E t \in Types : c \in ToSet(stored[t])
<1> DEFINE a == stored["create"]
           b == stored["update"]
           d == stored["delete"]
<1>1. a \in Seq(Change) /\ b \in Seq(Change) /\ d \in Seq(Change)
  BY DEF Types
<1>2. \A c : (\E t \in Types : c \in ToSet(stored[t]))
              <=> c \in ToSet(a) \/ c \in ToSet(b) \/ c \in ToSet(d)
  BY DEF Types
<1>3. QueueOf(stored) = (a \o b) \o d
  BY DEF QueueOf
<1> HIDE DEF a, b, d
<1>4. a \o b \in Seq(Change) /\ ToSet(a \o b) = ToSet(a) \cup ToSet(b)
  BY <1>1, ConcatElements
<1>5. /\ (a \o b) \o d \in Seq(Change)
      /\ ToSet((a \o b) \o d) = ToSet(a \o b) \cup ToSet(d)
  <2> DEFINE e == a \o b
  <2>1. e \in Seq(Change)
    BY <1>4
  <2> HIDE DEF e
  <2>2. e \o d \in Seq(Change) /\ ToSet(e \o d) = ToSet(e) \cup ToSet(d)
    BY <1>1, <2>1, ConcatElements
  <2> QED
    BY <2>2 DEF e
<1> QED
  BY <1>2, <1>3, <1>4, <1>5

LEMMA QueueOnce ==
  ASSUME NEW stored \in [Types -> Seq(Change)], SortedByType(stored),
         NEW S, NEW n, OneEach(S, n), Stores(stored, S)
  PROVE  IdsOnce(QueueOf(stored))
<1> DEFINE a == stored["create"]
           b == stored["update"]
           d == stored["delete"]
<1>1. /\ a \in Seq(Change) /\ b \in Seq(Change) /\ d \in Seq(Change)
      /\ IdsOnce(a) /\ IdsOnce(b) /\ IdsOnce(d)
  BY DEF Types, Stores
<1>2. ASSUME NEW t \in Types, NEW u \in Types, t # u,
             NEW c \in ToSet(stored[t]), NEW e \in ToSet(stored[u])
      PROVE  c.id # e.id
  <2>1. PICK i \in DOMAIN stored[t] : c = stored[t][i]
    BY DEF ToSet
  <2>2. PICK j \in DOMAIN stored[u] : e = stored[u][j]
    BY DEF ToSet
  <2>3. c.type = t /\ e.type = u
    BY <2>1, <2>2 DEF SortedByType
  <2>4. PICK x \in S : Tells(c, x)
    BY <2>1 DEF Stores
  <2>5. PICK y \in S : Tells(e, y)
    BY <2>2 DEF Stores
  <2>6. x.id = y.id => x = y
    BY DEF OneEach
  <2> QED
    BY <1>2, <2>3, <2>4, <2>5, <2>6 DEF Tells
<1>3. /\ \A c \in ToSet(a), e \in ToSet(b) : c.id # e.id
      /\ \A c \in ToSet(a), e \in ToSet(d) : c.id # e.id
      /\ \A c \in ToSet(b), e \in ToSet(d) : c.id # e.id
  BY <1>2 DEF Types
<1>4. QueueOf(stored) = (a \o b) \o d
  BY DEF QueueOf
<1> HIDE DEF a, b, d
<1> DEFINE e == a \o b
<1>5. e \in Seq(Change) /\ IdsOnce(e) /\ ToSet(e) = ToSet(a) \cup ToSet(b)
  BY <1>1, <1>3, ConcatElements, ConcatOnce
<1>6. \A c \in ToSet(e), x \in ToSet(d) : c.id # x.id
  BY <1>3, <1>5
<1>7. QueueOf(stored) = e \o d
  BY <1>4
<1> HIDE DEF e
<1> QED
  BY <1>1, <1>5, <1>6, <1>7, ConcatOnce

-----------------------------------------------------------------------------
(* Types and flush numbers                                                 *)

LEMMA IdleTyped ==
  /\ Idle \in WorkerT /\ IsFiniteSet(Idle.changes) /\ SortedByType(Idle.stored)
  /\ Idle.pc = "idle" /\ Idle.stored = reset
<1>1. reset \in [Types -> Seq(Change)] /\ \A t \in Types : reset[t] = <<>>
  BY DEF reset
<1>2. Idle \in WorkerT
  BY <1>1, ConstantsAssumption DEF Idle, WorkerT
<1>3. IsFiniteSet(Idle.changes)
  BY FS_EmptySet DEF Idle
<1>4. SortedByType(reset)
  BY <1>1 DEF SortedByType
<1> QED
  BY <1>2, <1>3, <1>4 DEF Idle

(* A step changes one worker; its flush keeps its number or gets a new one.*)
LEMMA StepTyped ==
  ASSUME BInv, NEW w \in Workers, NEW k \in WorkerT,
         worker' = [worker EXCEPT ![w] = k],
         IsFiniteSet(k.changes), SortedByType(k.stored),
         rows' \in [Ids -> Data \cup {None}], hub' \in Seq(MessageT),
         committed' \in Seq(CommitT), flushes' \in 0..MaxFlushes,
         flushes <= flushes',
         k.pc # "idle" =>
           \/ worker[w].pc # "idle" /\ k.flush = worker[w].flush
           \/ k.flush = flushes' /\ flushes' = flushes + 1
  PROVE  BInv'
<1>1. /\ worker' \in [Workers -> WorkerT] /\ worker'[w] = k
      /\ \A v \in Workers : v # w => worker'[v] = worker[v]
      /\ flushes \in Nat /\ flushes' \in Nat
  BY ConstantsAssumption DEF BInv, Typed
<1>2. Typed'
  BY <1>1 DEF BInv, Typed
<1>3. StoredByType'
  <2>1. \A v \in Workers : SortedByType(worker'[v].stored)
    BY <1>1 DEF BInv, StoredByType
  <2> QED
    BY <2>1 DEF StoredByType, SortedByType
<1>4. \A v \in Workers : worker[v].pc # "idle" => worker[v].flush \in 1..flushes
  BY DEF BInv, FlushesDiffer
<1>5. \A v, u \in Workers :
        v # u /\ worker[v].pc # "idle" /\ worker[u].pc # "idle" =>
          worker[v].flush # worker[u].flush
  BY DEF BInv, FlushesDiffer
<1>6. \A v \in Workers : worker'[v].pc # "idle" => worker'[v].flush \in 1..flushes'
  BY <1>1, <1>4
<1>7. ASSUME NEW v \in Workers, v # w, k.pc # "idle", worker[v].pc # "idle"
      PROVE  worker[v].flush # k.flush
  BY <1>1, <1>4, <1>5, <1>7
<1>8. \A v, u \in Workers :
        v # u /\ worker'[v].pc # "idle" /\ worker'[u].pc # "idle" =>
          worker'[v].flush # worker'[u].flush
  BY <1>1, <1>5, <1>7
<1>9. FlushesDiffer'
  BY <1>6, <1>8 DEF FlushesDiffer
<1> QED
  BY <1>2, <1>3, <1>9 DEF BInv

LEMMA LoadTyped ==
  ASSUME BInv, NEW w \in Workers, Load(w)
  PROVE  BInv'
<1> DEFINE k == [worker[w] EXCEPT !.pc = "loaded", !.flush = flushes',
                                  !.loaded = rows, !.read = Len(committed)]
<1>1. /\ worker[w] \in WorkerT /\ worker' = [worker EXCEPT ![w] = k]
      /\ flushes' = flushes + 1 /\ flushes' \in 0..MaxFlushes
      /\ flushes <= flushes' /\ UNCHANGED <<rows, hub, committed>>
      /\ Len(committed) \in Nat
  BY ConstantsAssumption, LenProperties DEF Load, BInv, Typed
<1>2. /\ k \in WorkerT /\ k.changes = worker[w].changes
      /\ k.stored = worker[w].stored /\ k.flush = flushes'
  BY <1>1 DEF WorkerT, BInv, Typed
<1>3. IsFiniteSet(k.changes) /\ SortedByType(k.stored)
  BY <1>2 DEF BInv, Typed, StoredByType
<1> HIDE DEF k
<1> QED
  BY <1>1, <1>2, <1>3, StepTyped DEF BInv, Typed

LEMMA OnFlushTyped ==
  ASSUME BInv, NEW w \in Workers, NEW D \in SUBSET Ids,
         NEW data \in [D -> Data \cup {None}], onFlush(w, data)
  PROVE  /\ BInv'
         /\ LET k == worker[w]
                S == Scheduled(k, data)
            IN  /\ S \in SUBSET ChangeT /\ S \in SUBSET Change /\ OneEach(S, k.flush)
                /\ worker' = [worker EXCEPT ![w] =
                     [k EXCEPT !.pc = "flushing", !.changes = S,
                               !.stored = storeObjectToPublish(@, S)]]
<1> DEFINE S == Scheduled(worker[w], data)
           k == [worker[w] EXCEPT !.pc = "flushing", !.changes = S,
                   !.stored = storeObjectToPublish(@, S)]
<1>1. /\ worker[w] \in WorkerT /\ worker[w].pc = "loaded"
      /\ worker' = [worker EXCEPT ![w] = k]
      /\ UNCHANGED <<rows, hub, committed, flushes>>
  BY DEF onFlush, BInv, Typed
<1>2. worker[w].flush \in 1..MaxFlushes
  <2>1. worker[w].flush \in 1..flushes /\ flushes \in 0..MaxFlushes
    BY <1>1 DEF BInv, FlushesDiffer, Typed
  <2> QED
    BY <2>1, ConstantsAssumption
<1>3. S \subseteq ChangeT /\ S \subseteq Change /\ OneEach(S, worker[w].flush)
  BY <1>1, <1>2, ScheduledOnce DEF ChangeT
<1> HIDE DEF S
<1>4. /\ worker[w].stored \in [Types -> Seq(Change)]
      /\ SortedByType(worker[w].stored) /\ IsFiniteSet(S)
  BY <1>1, <1>3 DEF WorkerT, BInv, StoredByType, OneEach
<1>5. /\ storeObjectToPublish(worker[w].stored, S) \in [Types -> Seq(Change)]
      /\ SortedByType(storeObjectToPublish(worker[w].stored, S))
  BY <1>3, <1>4, StoreKeepsTypes
<1>6. /\ k \in WorkerT /\ k.changes = S /\ k.flush = worker[w].flush
      /\ k.stored = storeObjectToPublish(worker[w].stored, S)
  BY <1>1, <1>3, <1>5 DEF WorkerT
<1>7. IsFiniteSet(k.changes) /\ SortedByType(k.stored)
  BY <1>4, <1>5, <1>6
<1>8. BInv'
  <2> HIDE DEF k
  <2>1. /\ rows' \in [Ids -> Data \cup {None}] /\ hub' \in Seq(MessageT)
        /\ committed' \in Seq(CommitT) /\ flushes' \in 0..MaxFlushes
        /\ flushes <= flushes'
    BY <1>1, ConstantsAssumption DEF BInv, Typed
  <2> QED
    BY <1>1, <1>6, <1>7, <2>1, StepTyped
<1> QED
  BY <1>1, <1>3, <1>8 DEF S

(* The records of a commit are those of its changes.                       *)
LEMMA CommitRecords ==
  ASSUME BInv, NEW w \in Workers, Commit(w)
  PROVE  \E q \in Seq(CommitT) :
           /\ committed' = committed \o q
           /\ \A c \in worker[w].changes : \E j \in DOMAIN q : Tells(c, q[j])
           /\ \A j \in DOMAIN q : \E c \in worker[w].changes : Tells(c, q[j])
<1> DEFINE C == worker[w].changes
           landed == {c \in C : Landed(c)}
           record(c) == [worker |-> w, flush |-> c.flush, type |-> c.type,
                         id |-> c.id, val |-> c.val, landed |-> c \in landed,
                         columns |-> Written(worker[w], c), read |-> worker[w].read]
           f == [c \in C |-> record(c)]
           R == {record(c) : c \in C}
           q == SetToSeq(R)
<1>1. committed' = committed \o q
  BY DEF Commit
<1>2. C \subseteq Change /\ IsFiniteSet(C) /\ worker[w].read \in Nat
  BY DEF BInv, Typed, WorkerT, ChangeT
<1>3. ASSUME NEW c \in C
      PROVE  record(c) \in CommitT /\ Tells(c, record(c))
  <2>1. c \in Change /\ (c \in landed) \in BOOLEAN
    BY <1>2
  <2>2. Written(worker[w], c) \in SUBSET Columns
    BY DEF Written
  <2> HIDE DEF landed
  <2> QED
    BY <1>2, <2>1, <2>2 DEF Change, CommitT, Tells, Types
<1>4. R = {f[c] : c \in C} /\ DOMAIN f = C
  <2> HIDE DEF record
  <2> QED
    OBVIOUS
<1>5. IsFiniteSet(R)
  <2>1. IsFiniteSet({f[c] : c \in C})
    <3> HIDE DEF f, R, C
    <3> QED
      BY <1>2, <1>4, ImageFinite
  <2> QED
    BY <1>4, <2>1
<1> HIDE DEF record, landed, f
<1>6. /\ R \subseteq CommitT /\ \A r \in R : \E c \in C : Tells(c, r)
      /\ \A c \in C : \E r \in R : Tells(c, r)
  BY <1>3
<1> HIDE DEF R
<1>7. /\ Cardinality(R) \in Nat /\ q \in [1..Cardinality(R) -> R]
      /\ \A x \in R : \E i \in 1..Cardinality(R) : q[i] = x
  BY <1>5, SetToSeqElements
<1> HIDE DEF q
<1>8. q \in [1..Cardinality(R) -> CommitT] /\ DOMAIN q = 1..Cardinality(R)
  BY <1>6, <1>7
<1>9. q \in Seq(CommitT)
  BY <1>7, <1>8, SeqDef
<1>10. /\ \A c \in C : \E j \in DOMAIN q : Tells(c, q[j])
       /\ \A j \in DOMAIN q : \E c \in C : Tells(c, q[j])
  BY <1>6, <1>7, <1>8
<1> QED
  BY <1>1, <1>9, <1>10

LEMMA RecordConcat ==
  \A s, t \in Seq(CommitT) :
    /\ s \o t \in Seq(CommitT) /\ Len(s \o t) = Len(s) + Len(t)
    /\ \A i \in 1..(Len(s) + Len(t)) :
         (s \o t)[i] = IF i <= Len(s) THEN s[i] ELSE t[i - Len(s)]
  BY ConcatProperties

(* What a change leaves in the row it matches.                             *)
LEMMA RowTyped ==
  ASSUME BInv, NEW k, NEW c \in ChangeT, Landed(c)
  PROVE  Row(k, c) \in Data \cup {None}
<1>1. c \in Change
  BY DEF ChangeT
<1>2. CASE c.type # "update"
  BY <1>1, <1>2 DEF Row, Change
<1>3. CASE c.type = "update"
  <2>1. c.val \in Data /\ rows[c.id] \in Data
    BY <1>1, <1>3 DEF ChangeT, Landed, Change, BInv, Typed
  <2> QED
    BY <1>3, <2>1 DEF Row, Data
<1> QED
  BY <1>2, <1>3

LEMMA CommitTyped ==
  ASSUME BInv, NEW w \in Workers, Commit(w)
  PROVE  BInv'
<1> DEFINE k == [worker[w] EXCEPT !.pc = "committed",
                   !.stored = Named(@, worker[w].flush)]
<1>1. /\ worker[w] \in WorkerT /\ worker[w].pc = "flushing"
      /\ worker' = [worker EXCEPT ![w] = k]
      /\ UNCHANGED <<hub, flushes>>
  BY DEF Commit, BInv, Typed
<1>2. worker[w].stored \in [Types -> Seq(Change)] /\ SortedByType(worker[w].stored)
  BY <1>1 DEF WorkerT, BInv, StoredByType
<1>3. /\ Named(worker[w].stored, worker[w].flush) \in [Types -> Seq(Change)]
      /\ SortedByType(Named(worker[w].stored, worker[w].flush))
  <2> DEFINE old == worker[w].stored
             n == worker[w].flush
  <2>0. old \in [Types -> Seq(Change)] /\ SortedByType(old)
    BY <1>2
  <2> HIDE DEF old, n
  <2>1. /\ Named(old, n) \in [Types -> Seq(Change)]
        /\ \A t \in Types :
             /\ DOMAIN Named(old, n)[t] = DOMAIN old[t]
             /\ \A j \in DOMAIN old[t] : Named(old, n)[t][j].type = old[t][j].type
    BY <2>0, NamedSame
  <2>2. SortedByType(Named(old, n))
    BY <2>0, <2>1 DEF SortedByType
  <2> QED
    BY <2>1, <2>2 DEF old, n
<1>4. /\ k \in WorkerT /\ k.changes = worker[w].changes
      /\ k.flush = worker[w].flush
      /\ k.stored = Named(worker[w].stored, worker[w].flush)
  BY <1>1, <1>3 DEF WorkerT
<1>5. IsFiniteSet(k.changes) /\ SortedByType(k.stored)
  BY <1>3, <1>4 DEF BInv, Typed
<1>6. rows' \in [Ids -> Data \cup {None}]
  <2> DEFINE landed == {c \in worker[w].changes : Landed(c)}
  <2>1. rows' = [i \in Ids |->
           IF \E c \in landed : c.id = i
           THEN Row(worker[w], CHOOSE c \in landed : c.id = i) ELSE rows[i]]
    BY DEF Commit
  <2>2. \A c \in landed : Row(worker[w], c) \in Data \cup {None}
    BY <1>1, RowTyped DEF WorkerT
  <2> HIDE DEF landed
  <2>3. ASSUME NEW i \in Ids
        PROVE  (IF \E c \in landed : c.id = i
                THEN Row(worker[w], CHOOSE c \in landed : c.id = i) ELSE rows[i])
                 \in Data \cup {None}
    <3>1. CASE \E c \in landed : c.id = i
      <4>1. (CHOOSE c \in landed : c.id = i) \in landed
        BY <3>1
      <4> QED
        BY <2>2, <3>1, <4>1
    <3>2. CASE ~\E c \in landed : c.id = i
      BY <3>2 DEF BInv, Typed
    <3> QED
      BY <3>1, <3>2
  <2> QED
    BY <2>1, <2>3
<1>7. committed' \in Seq(CommitT)
  BY CommitRecords, RecordConcat, Zenon DEF BInv, Typed
<1>8. flushes' \in 0..MaxFlushes /\ flushes <= flushes' /\ hub' \in Seq(MessageT)
  BY <1>1, ConstantsAssumption DEF BInv, Typed
<1> HIDE DEF k
<1> QED
  BY <1>1, <1>4, <1>5, <1>6, <1>7, <1>8, StepTyped

(* The steps that touch neither the rows nor the changes committed.        *)
LEMMA QuietTyped ==
  ASSUME BInv, NEW w \in Workers, NEW k \in WorkerT,
         worker' = [worker EXCEPT ![w] = k],
         IsFiniteSet(k.changes), SortedByType(k.stored),
         hub' \in Seq(MessageT), UNCHANGED <<rows, committed, flushes>>,
         k.pc # "idle" => worker[w].pc # "idle" /\ k.flush = worker[w].flush
  PROVE  BInv'
<1>1. flushes' \in 0..MaxFlushes /\ flushes <= flushes'
  BY ConstantsAssumption DEF BInv, Typed
<1> QED
  BY <1>1, StepTyped DEF BInv, Typed

LEMMA CommitFailsTyped ==
  ASSUME BInv, NEW w \in Workers, CommitFails(w)
  PROVE  BInv'
<1> DEFINE k == IF LongRunning THEN [Idle EXCEPT !.stored = worker[w].stored]
                ELSE Idle
<1>1. /\ worker[w] \in WorkerT /\ worker' = [worker EXCEPT ![w] = k]
      /\ SortedByType(worker[w].stored) /\ hub' \in Seq(MessageT)
      /\ UNCHANGED <<rows, committed, flushes>>
  BY DEF CommitFails, BInv, Typed, StoredByType
<1>2. /\ k \in WorkerT /\ k.pc = "idle" /\ k.changes = Idle.changes
      /\ k.stored \in {worker[w].stored, Idle.stored}
  BY <1>1, IdleTyped DEF WorkerT
<1>3. IsFiniteSet(k.changes) /\ SortedByType(k.stored)
  BY <1>1, <1>2, IdleTyped
<1> HIDE DEF k
<1> QED
  BY <1>1, <1>2, <1>3, QuietTyped

LEMMA BackToIdleTyped ==
  ASSUME BInv, NEW w \in Workers, PublishThrows(w) \/ PublishDone(w)
  PROVE  BInv'
<1>1. /\ worker' = [worker EXCEPT ![w] = Idle] /\ hub' \in Seq(MessageT)
      /\ UNCHANGED <<rows, committed, flushes>>
  BY DEF PublishThrows, PublishDone, BInv, Typed
<1> QED
  BY <1>1, IdleTyped, QuietTyped

LEMMA PostFlushTyped ==
  ASSUME BInv, NEW w \in Workers, postFlush(w)
  PROVE  BInv'
<1> DEFINE k == [worker[w] EXCEPT !.pc = "publishing",
                                  !.queue = QueueOf(worker[w].stored)]
<1>1. /\ worker[w] \in WorkerT /\ worker[w].pc = "committed"
      /\ worker' = [worker EXCEPT ![w] = k] /\ hub' \in Seq(MessageT)
      /\ UNCHANGED <<rows, committed, flushes>>
  BY DEF postFlush, QueueOf, BInv, Typed
<1>2. QueueOf(worker[w].stored) \in Seq(Change)
  BY <1>1, QueueElements DEF WorkerT
<1>3. /\ k \in WorkerT /\ k.changes = worker[w].changes
      /\ k.stored = worker[w].stored /\ k.flush = worker[w].flush
  BY <1>1, <1>2 DEF WorkerT
<1>4. IsFiniteSet(k.changes) /\ SortedByType(k.stored)
  BY <1>3 DEF BInv, Typed, StoredByType
<1> HIDE DEF k
<1> QED
  BY <1>1, <1>3, <1>4, QuietTyped

(* The first of the queue goes to the hub.                                 *)
LEMMA PublishTyped ==
  ASSUME BInv, NEW w \in Workers, publishUpdate(w)
  PROVE  /\ BInv'
         /\ worker[w].queue # <<>> /\ Message(Head(worker[w].queue)) \in MessageT
         /\ Head(worker[w].queue) \in Change
<1> DEFINE k == [worker[w] EXCEPT !.queue = Tail(@)]
           q == worker[w].queue
<1>1. /\ worker[w] \in WorkerT /\ worker[w].pc = "publishing"
      /\ worker' = [worker EXCEPT ![w] = k] /\ q # <<>>
      /\ hub' = Append(hub, Message(Head(q)))
      /\ UNCHANGED <<rows, committed, flushes>>
  BY DEF publishUpdate, publishing, BInv, Typed
<1>2. q \in Seq(Change)
  BY <1>1 DEF WorkerT
<1>3. Head(q) \in Change /\ Tail(q) \in Seq(Change)
  <2> HIDE DEF q
  <2> QED
    BY <1>1, <1>2, HeadTailProperties
<1>4. Message(Head(q)) \in MessageT
  <2>1. Len(committed) \in Nat
    BY LenProperties DEF BInv, Typed
  <2> QED
    BY <1>3, <2>1 DEF Message, MessageT, Change, Types
<1>5. hub' \in Seq(MessageT)
  BY <1>1, <1>4, AppendProperties DEF BInv, Typed
<1>6. /\ k \in WorkerT /\ k.changes = worker[w].changes /\ k.pc = "publishing"
      /\ k.stored = worker[w].stored /\ k.flush = worker[w].flush
  BY <1>1, <1>3 DEF WorkerT
<1>7. IsFiniteSet(k.changes) /\ SortedByType(k.stored)
  BY <1>6 DEF BInv, Typed, StoredByType
<1>8. BInv'
  <2> HIDE DEF k
  <2> QED
    BY <1>1, <1>5, <1>6, <1>7, QuietTyped
<1> QED
  BY <1>1, <1>3, <1>4, <1>8

-----------------------------------------------------------------------------
(* What is published was committed                                         *)

(* A step that publishes nothing; commits are only added.                  *)
LEMMA StepPerFlush ==
  ASSUME BInv, PerFlush, NEW w \in Workers, NEW k \in WorkerT,
         worker' = [worker EXCEPT ![w] = k],
         hub' = hub, flushes \in Nat, flushes' \in Nat, flushes <= flushes',
         Len(committed) \in Nat, Len(committed') \in Nat,
         Len(committed) <= Len(committed'),
         DOMAIN committed = 1..Len(committed),
         DOMAIN committed' = 1..Len(committed'),
         \A n \in DOMAIN committed : committed'[n] = committed[n],
         EmptyAtFirst(k), Flushing(k), Committed(k)', Unpublished(k),
         lost \subseteq lost',
         \A n \in DOMAIN committed :
           committed[n].id \in Mercure /\ PendingBy(worker[w], committed[n]) =>
             \/ PendingBy(k, committed[n])
             \/ [flush |-> committed[n].flush, id |-> committed[n].id] \in lost',
         \A n \in DOMAIN committed' :
           n \notin DOMAIN committed => PendingBy(k, committed'[n])
  PROVE  PerFlush'
<1>1. /\ worker'[w] = k /\ DOMAIN committed \subseteq DOMAIN committed'
      /\ \A v \in Workers : v # w => worker'[v] = worker[v]
  BY DEF BInv, Typed
<1>2. \A v \in Workers : EmptyAtFirst(worker'[v]) /\ Flushing(worker'[v])
  BY <1>1 DEF PerFlush
<1>3. \A c : WasCommitted(c) => WasCommitted(c)'
  BY <1>1 DEF WasCommitted
<1>4. ASSUME NEW v \in Workers
      PROVE  Committed(worker[v])'
  <2>1. CASE v = w
    <3>1. (k.pc = "committed" => \A c \in k.changes : WasCommitted(c))'
          /\ (k.pc = "publishing" => Queued(k.queue, k.flush))'
      BY DEF Committed
    <3> QED
      BY <1>1, <2>1, <3>1 DEF Committed, Queued, WasCommitted
  <2>2. CASE v # w
    BY <1>1, <1>3, <2>2 DEF PerFlush, Committed, Queued
  <2> QED
    BY <2>1, <2>2
<1>5. \A v \in Workers : Unpublished(worker[v])'
  BY <1>1 DEF PerFlush, Unpublished
<1>6. HubOnce'
  <2>1. ASSUME NEW i \in DOMAIN hub
        PROVE  hub[i].flush \in 1..flushes' /\ hub[i].at <= Len(committed')
    <3>1. hub[i] \in MessageT
      BY ElementOfSeq, LenProperties DEF BInv, Typed
    <3>2. hub[i].flush \in 1..flushes /\ hub[i].at <= Len(committed)
      BY DEF PerFlush, HubOnce
    <3> QED
      BY <3>1, <3>2 DEF MessageT
  <2> QED
    BY <2>1 DEF PerFlush, HubOnce
<1>7. PublishedWasCommitted'
  <2>1. ASSUME NEW i \in DOMAIN hub
        PROVE  \E n \in 1..hub[i].at : Tells(hub[i], committed'[n])
    <3>1. PICK n \in 1..hub[i].at : Tells(hub[i], committed[n])
      BY DEF PerFlush, PublishedWasCommitted
    <3>2. hub[i].at <= Len(committed) /\ hub[i].at \in Nat
      <4>1. hub[i] \in MessageT
        BY ElementOfSeq, LenProperties DEF BInv, Typed
      <4> QED
        BY <4>1 DEF PerFlush, HubOnce, MessageT
    <3>3. n \in DOMAIN committed
      BY <3>2
    <3> QED
      BY <3>1, <3>3
  <2> QED
    BY <2>1 DEF PublishedWasCommitted
<1>8. Accounted'
  <2>1. ASSUME NEW n \in DOMAIN committed', committed'[n].id \in Mercure
        PROVE  \/ Published(committed'[n])
               \/ [flush |-> committed'[n].flush, id |-> committed'[n].id] \in lost'
               \/ \E v \in Workers : PendingBy(worker'[v], committed'[n])
    <3>1. CASE n \notin DOMAIN committed
      BY <1>1, <3>1
    <3>2. CASE n \in DOMAIN committed
      <4>1. committed'[n] = committed[n]
        BY <3>2
      <4>2. \/ Published(committed[n]) \/ Lost(committed[n])
            \/ \E v \in Workers : PendingBy(worker[v], committed[n])
        BY <2>1, <3>2, <4>1 DEF PerFlush, Accounted, Pending
      <4>3. Lost(committed[n]) =>
              [flush |-> committed[n].flush, id |-> committed[n].id] \in lost'
        BY DEF Lost
      <4> QED
        BY <1>1, <2>1, <3>2, <4>1, <4>2, <4>3
    <3> QED
      BY <3>1, <3>2
  <2> QED
    BY <2>1 DEF Accounted, Published, Lost, Pending, PendingBy
<1> QED
  BY <1>2, <1>4, <1>5, <1>6, <1>7, <1>8
     DEF PerFlush, EmptyAtFirst, Flushing, Committed, Unpublished

LEMMA NoCommitPerFlush ==
  ASSUME BInv, PerFlush, NEW w \in Workers, NEW k \in WorkerT,
         worker' = [worker EXCEPT ![w] = k],
         hub' = hub, committed' = committed, flushes' \in {flushes, flushes + 1},
         EmptyAtFirst(k), Flushing(k), Committed(k), Unpublished(k),
         lost \subseteq lost',
         \A n \in DOMAIN committed :
           committed[n].id \in Mercure /\ PendingBy(worker[w], committed[n]) =>
             \/ PendingBy(k, committed[n])
             \/ [flush |-> committed[n].flush, id |-> committed[n].id] \in lost'
  PROVE  PerFlush'
<1>1. flushes \in Nat /\ flushes' \in Nat /\ flushes <= flushes'
  BY ConstantsAssumption DEF BInv, Typed
<1>2. Len(committed) \in Nat /\ DOMAIN committed = 1..Len(committed)
  BY LenProperties DEF BInv, Typed
<1>3. Committed(k)'
  BY DEF Committed, Queued, WasCommitted
<1>4. /\ Len(committed') \in Nat /\ Len(committed) <= Len(committed')
      /\ DOMAIN committed' = 1..Len(committed')
      /\ \A n \in DOMAIN committed : committed'[n] = committed[n]
      /\ \A n \in DOMAIN committed' : n \in DOMAIN committed
  BY <1>2
<1> QED
  BY <1>1, <1>2, <1>3, <1>4, StepPerFlush

LEMMA LoadPerFlush ==
  ASSUME BInv, PerFlush, NEW w \in Workers, Load(w)
  PROVE  PerFlush'
<1> DEFINE k == [worker[w] EXCEPT !.pc = "loaded", !.flush = flushes',
                                  !.loaded = rows, !.read = Len(committed)]
<1>1. /\ worker[w] \in WorkerT /\ worker[w].pc = "idle"
      /\ worker' = [worker EXCEPT ![w] = k]
      /\ flushes' = flushes + 1 /\ flushes' \in 0..MaxFlushes /\ flushes \in Nat
      /\ UNCHANGED <<rows, hub, committed, lost>> /\ Len(committed) \in Nat
  BY ConstantsAssumption, LenProperties DEF Load, BInv, Typed
<1>2. /\ k \in WorkerT /\ k.pc = "loaded" /\ k.stored = worker[w].stored
      /\ k.flush = flushes + 1
  BY <1>1 DEF WorkerT, BInv, Typed
<1> HIDE DEF k
<1>3. EmptyAtFirst(k)
  BY <1>1, <1>2 DEF PerFlush, EmptyAtFirst
<1>4. Unpublished(k)
  BY <1>1, <1>2 DEF PerFlush, HubOnce, Unpublished
<1>5. Flushing(k) /\ Committed(k)
  BY <1>2 DEF Flushing, Committed
<1>6. \A n \in DOMAIN committed : ~PendingBy(worker[w], committed[n])
  BY <1>1 DEF PendingBy
<1> QED
  BY <1>1, <1>2, <1>3, <1>4, <1>5, <1>6, NoCommitPerFlush

LEMMA OnFlushPerFlush ==
  ASSUME BInv, PerFlush, NEW w \in Workers, NEW D \in SUBSET Ids,
         NEW data \in [D -> Data \cup {None}], onFlush(w, data)
  PROVE  PerFlush'
<1> DEFINE S == Scheduled(worker[w], data)
           k == [worker[w] EXCEPT !.pc = "flushing", !.changes = S,
                   !.stored = storeObjectToPublish(@, S)]
<1>1. /\ worker[w] \in WorkerT /\ worker[w].pc = "loaded"
      /\ UNCHANGED <<rows, hub, committed, lost, flushes>>
  BY DEF onFlush, BInv, Typed
<1>2. /\ S \in SUBSET Change /\ OneEach(S, worker[w].flush)
      /\ worker' = [worker EXCEPT ![w] = k] /\ BInv'
  BY OnFlushTyped
<1> HIDE DEF S
<1>3. worker[w].stored = reset
  BY <1>1 DEF PerFlush, EmptyAtFirst
<1>4. /\ k.pc = "flushing" /\ k.changes = S /\ k.flush = worker[w].flush
      /\ k.stored = storeObjectToPublish(reset, S)
  BY <1>1, <1>3 DEF WorkerT
<1>5. k \in WorkerT
  <2>1. worker' \in [Workers -> WorkerT] /\ worker'[w] = k
    BY <1>2 DEF BInv, Typed
  <2> QED
    BY <2>1
<1> HIDE DEF k
<1>6. Stores(k.stored, S)
  BY <1>2, <1>4, StoreFromNone
<1>7. Flushing(k) /\ EmptyAtFirst(k) /\ Committed(k)
  BY <1>2, <1>4, <1>6 DEF Flushing, EmptyAtFirst, Committed
<1>8. Unpublished(k)
  BY <1>1, <1>4 DEF PerFlush, Unpublished
<1>9. \A n \in DOMAIN committed : ~PendingBy(worker[w], committed[n])
  BY <1>1 DEF PendingBy
<1> QED
  BY <1>1, <1>2, <1>5, <1>7, <1>8, <1>9, NoCommitPerFlush

(* The identifiers that an insertion gives do not change what is stored.   *)
LEMMA NamedStores ==
  ASSUME NEW stored \in [Types -> Seq(Change)], NEW n,
         NEW S \in SUBSET Change, Stores(stored, S)
  PROVE  Stores(Named(stored, n), S)
<1> DEFINE new == Named(stored, n)
<1>1. \A t \in Types :
        /\ DOMAIN new[t] = DOMAIN stored[t]
        /\ \A j \in DOMAIN stored[t] :
             /\ Tells(new[t][j], stored[t][j])
             /\ new[t][j].id = stored[t][j].id
  BY NamedSame
<1> HIDE DEF new
<1>2. \A t \in Types : \A j \in DOMAIN new[t] : \E c \in S : Tells(new[t][j], c)
  BY <1>1, TellsBack DEF Stores
<1>3. \A t \in Types : IdsOnce(new[t])
  BY <1>1 DEF Stores, IdsOnce
<1>4. ASSUME NEW c \in S, c.id \in Mercure
      PROVE  \E j \in DOMAIN new[c.type] : Tells(new[c.type][j], c)
  <2>1. c.type \in Types
    BY TypeTyped
  <2>2. PICK j \in DOMAIN stored[c.type] : Tells(stored[c.type][j], c)
    BY <1>4 DEF Stores
  <2>3. j \in DOMAIN new[c.type] /\ Tells(new[c.type][j], stored[c.type][j])
    BY <1>1, <2>1, <2>2
  <2> QED
    BY <2>2, <2>3, TellsBack
<1>5. Stores(new, S)
  BY <1>2, <1>3, <1>4 DEF Stores
<1> QED
  BY <1>5 DEF new

LEMMA CommitPerFlush ==
  ASSUME BInv, PerFlush, NEW w \in Workers, Commit(w)
  PROVE  PerFlush'
<1>0. PICK k : k = [worker[w] EXCEPT !.pc = "committed",
                      !.stored = Named(@, worker[w].flush)]
  OBVIOUS
<1>1. /\ worker[w] \in WorkerT /\ worker[w].pc = "flushing"
      /\ worker' = [worker EXCEPT ![w] = k]
      /\ UNCHANGED <<hub, lost, flushes>>
  BY <1>0 DEF Commit, BInv, Typed
<1>2. BInv'
  BY CommitTyped
<1>3. k \in WorkerT
  <2>1. worker' \in [Workers -> WorkerT] /\ worker'[w] = k
    BY <1>1, <1>2 DEF BInv, Typed
  <2> QED
    BY <2>1
<1>4. /\ k.pc = "committed" /\ k.changes = worker[w].changes
      /\ k.flush = worker[w].flush
      /\ k.stored = Named(worker[w].stored, worker[w].flush)
  BY <1>0, <1>1 DEF WorkerT
<1>5. PICK q \in Seq(CommitT) :
        /\ committed' = committed \o q
        /\ \A c \in worker[w].changes : \E j \in DOMAIN q : Tells(c, q[j])
        /\ \A j \in DOMAIN q : \E c \in worker[w].changes : Tells(c, q[j])
  BY CommitRecords
<1>6. /\ committed \in Seq(CommitT) /\ Len(committed) \in Nat
      /\ DOMAIN committed = 1..Len(committed)
      /\ Len(q) \in Nat /\ DOMAIN q = 1..Len(q)
  BY LenProperties DEF BInv, Typed
<1>7. /\ committed' \in Seq(CommitT)
      /\ Len(committed') = Len(committed) + Len(q)
      /\ \A i \in 1..(Len(committed) + Len(q)) :
           committed'[i] = IF i <= Len(committed) THEN committed[i]
                           ELSE q[i - Len(committed)]
  BY <1>5, <1>6, RecordConcat, Zenon
<1>8. DOMAIN committed' = 1..(Len(committed) + Len(q))
  BY <1>7, LenProperties
<1>9. \A n \in DOMAIN committed : committed'[n] = committed[n]
  BY <1>6, <1>7
<1>10. ASSUME NEW n \in DOMAIN committed', n \notin DOMAIN committed
       PROVE  PendingBy(k, committed'[n])
  <2>1. n - Len(committed) \in DOMAIN q /\ committed'[n] = q[n - Len(committed)]
    BY <1>6, <1>7, <1>8, <1>10
  <2> QED
    BY <1>4, <1>5, <2>1 DEF PendingBy
<1>11. ASSUME NEW c \in k.changes
       PROVE  \E n \in DOMAIN committed' : Tells(c, committed'[n])
  <2>1. PICK j \in DOMAIN q : Tells(c, q[j])
    BY <1>4, <1>5
  <2>2. /\ Len(committed) + j \in 1..(Len(committed) + Len(q))
        /\ (Len(committed) + j) - Len(committed) = j
        /\ ~(Len(committed) + j <= Len(committed))
    BY <1>6
  <2>3. committed'[Len(committed) + j] = q[j]
    BY <1>7, <2>2
  <2> QED
    BY <1>8, <2>1, <2>2, <2>3
<1>12. Committed(k)'
  BY <1>4, <1>11 DEF Committed, WasCommitted
<1>13. Flushing(k)
  <2>1. /\ OneEach(worker[w].changes, worker[w].flush)
        /\ Stores(worker[w].stored, worker[w].changes)
    BY <1>1 DEF PerFlush, Flushing
  <2>2. /\ worker[w].stored \in [Types -> Seq(Change)]
        /\ worker[w].changes \in SUBSET Change
    BY <1>1 DEF WorkerT, ChangeT
  <2>3. Stores(Named(worker[w].stored, worker[w].flush), worker[w].changes)
    BY <2>1, <2>2, NamedStores
  <2> QED
    BY <1>4, <2>1, <2>3 DEF Flushing
<1>14. EmptyAtFirst(k)
  BY <1>4 DEF EmptyAtFirst
<1>15. Unpublished(k)
  BY <1>1, <1>4 DEF PerFlush, Unpublished
<1>16. \A n \in DOMAIN committed : ~PendingBy(worker[w], committed[n])
  BY <1>1 DEF PendingBy
<1>17. /\ flushes \in Nat /\ flushes' \in Nat /\ flushes <= flushes'
       /\ Len(committed') \in Nat /\ Len(committed) <= Len(committed')
       /\ DOMAIN committed' = 1..Len(committed') /\ lost \subseteq lost'
  BY <1>1, <1>6, <1>7, <1>8, ConstantsAssumption DEF BInv, Typed
<1> QED
  BY <1>1, <1>3, <1>6, <1>9, <1>10, <1>12, <1>13, <1>14, <1>15, <1>16, <1>17,
     StepPerFlush

(* The listener ends with the process: what it stored is forgotten.        *)
LEMMA IdlePerFlush ==
  ASSUME BInv, PerFlush, NEW w \in Workers,
         worker' = [worker EXCEPT ![w] = Idle],
         hub' = hub, committed' = committed, flushes' = flushes,
         lost \subseteq lost',
         \A n \in DOMAIN committed :
           committed[n].id \in Mercure /\ PendingBy(worker[w], committed[n]) =>
             [flush |-> committed[n].flush, id |-> committed[n].id] \in lost'
  PROVE  PerFlush'
<1>1. /\ EmptyAtFirst(Idle) /\ Flushing(Idle) /\ Committed(Idle)
      /\ Unpublished(Idle)
  BY IdleTyped DEF EmptyAtFirst, Flushing, Committed, Unpublished
<1> QED
  BY <1>1, IdleTyped, NoCommitPerFlush

LEMMA CommitFailsPerFlush ==
  ASSUME ~LongRunning, BInv, PerFlush, NEW w \in Workers, CommitFails(w)
  PROVE  PerFlush'
<1>1. /\ worker[w].pc = "flushing" /\ worker' = [worker EXCEPT ![w] = Idle]
      /\ UNCHANGED <<rows, hub, committed, lost, flushes>>
  BY DEF CommitFails
<1>2. \A n \in DOMAIN committed : ~PendingBy(worker[w], committed[n])
  BY <1>1 DEF PendingBy
<1> QED
  BY <1>1, <1>2, IdlePerFlush

LEMMA PublishThrowsPerFlush ==
  ASSUME BInv, PerFlush, NEW w \in Workers, PublishThrows(w)
  PROVE  PerFlush'
<1>1. /\ worker[w].pc = "publishing" /\ worker' = [worker EXCEPT ![w] = Idle]
      /\ lost' = lost \cup {[flush |-> c.flush, id |-> c.id] :
                              c \in ToSet(worker[w].queue)}
      /\ UNCHANGED <<rows, hub, committed, flushes>>
  BY DEF PublishThrows, publishing
<1>2. ASSUME NEW n \in DOMAIN committed, PendingBy(worker[w], committed[n])
      PROVE  [flush |-> committed[n].flush, id |-> committed[n].id] \in lost'
  <2>1. PICK j \in DOMAIN worker[w].queue : Tells(worker[w].queue[j], committed[n])
    BY <1>1, <1>2 DEF PendingBy
  <2>2. worker[w].queue[j] \in ToSet(worker[w].queue)
    BY <2>1 DEF ToSet
  <2> QED
    BY <1>1, <2>1, <2>2 DEF Tells
<1> QED
  BY <1>1, <1>2, IdlePerFlush

LEMMA PublishDonePerFlush ==
  ASSUME BInv, PerFlush, NEW w \in Workers, PublishDone(w)
  PROVE  PerFlush'
<1>1. /\ worker[w].pc = "publishing" /\ worker[w].queue = <<>>
      /\ worker' = [worker EXCEPT ![w] = Idle]
      /\ UNCHANGED <<rows, hub, committed, lost, flushes>>
  BY DEF PublishDone
<1>2. \A n \in DOMAIN committed : ~PendingBy(worker[w], committed[n])
  BY <1>1 DEF PendingBy
<1> QED
  BY <1>1, <1>2, IdlePerFlush

LEMMA PostFlushPerFlush ==
  ASSUME BInv, PerFlush, NEW w \in Workers, postFlush(w)
  PROVE  PerFlush'
<1> DEFINE q == QueueOf(worker[w].stored)
           S == worker[w].changes
<1>0. PICK k : k = [worker[w] EXCEPT !.pc = "publishing", !.queue = q]
  OBVIOUS
<1>1. /\ worker[w] \in WorkerT /\ worker[w].pc = "committed"
      /\ worker' = [worker EXCEPT ![w] = k]
      /\ UNCHANGED <<rows, hub, committed, lost, flushes>>
  BY <1>0 DEF postFlush, QueueOf, BInv, Typed
<1>2. /\ worker[w].stored \in [Types -> Seq(Change)] /\ S \in SUBSET Change
      /\ SortedByType(worker[w].stored)
      /\ OneEach(S, worker[w].flush) /\ Stores(worker[w].stored, S)
      /\ \A c \in S : WasCommitted(c)
  BY <1>1 DEF WorkerT, ChangeT, BInv, StoredByType, PerFlush, Flushing, Committed
<1>3. /\ q \in Seq(Change) /\ IdsOnce(q)
      /\ \A c : c \in ToSet(q) <=> \E t \in Types : c \in ToSet(worker[w].stored[t])
  BY <1>2, QueueElements, QueueOnce
<1> HIDE DEF q
<1>4. /\ k \in WorkerT /\ k.pc = "publishing" /\ k.queue = q
      /\ k.flush = worker[w].flush
  BY <1>0, <1>1, <1>3 DEF WorkerT
<1>5. ASSUME NEW j \in DOMAIN q
      PROVE  q[j].flush = k.flush /\ WasCommitted(q[j])
  <2>1. PICK t \in Types : q[j] \in ToSet(worker[w].stored[t])
    BY <1>3 DEF ToSet
  <2>2. PICK c \in S : Tells(q[j], c)
    BY <1>2, <2>1 DEF ToSet, Stores
  <2>3. c.flush = worker[w].flush /\ WasCommitted(c)
    BY <1>2 DEF OneEach
  <2> QED
    BY <1>4, <2>2, <2>3 DEF Tells, WasCommitted
<1>6. Committed(k) /\ Flushing(k) /\ EmptyAtFirst(k)
  BY <1>3, <1>4, <1>5 DEF Committed, Queued, Flushing, EmptyAtFirst
<1>7. Unpublished(k)
  BY <1>1, <1>4 DEF PerFlush, Unpublished
<1>8. ASSUME NEW n \in DOMAIN committed, committed[n].id \in Mercure,
             PendingBy(worker[w], committed[n])
      PROVE  PendingBy(k, committed[n])
  <2>1. PICK d \in S : Tells(d, committed[n])
    BY <1>1, <1>8 DEF PendingBy
  <2>2. d.id \in Mercure /\ d.type \in Types
    BY <1>2, <1>8, <2>1, TypeTyped DEF Tells
  <2>3. PICK i \in DOMAIN worker[w].stored[d.type] :
          Tells(worker[w].stored[d.type][i], d)
    BY <1>2, <2>2 DEF Stores
  <2>4. worker[w].stored[d.type][i] \in ToSet(q)
    BY <1>3, <2>2, <2>3 DEF ToSet
  <2>5. PICK j \in DOMAIN q : q[j] = worker[w].stored[d.type][i]
    BY <2>4 DEF ToSet
  <2> QED
    BY <1>4, <2>1, <2>3, <2>5, TellsBack DEF PendingBy
<1> QED
  BY <1>1, <1>4, <1>6, <1>7, <1>8, NoCommitPerFlush

LEMMA PublishPerFlush ==
  ASSUME BInv, PerFlush, NEW w \in Workers, publishUpdate(w)
  PROVE  PerFlush'
<1>0. PICK k : k = [worker[w] EXCEPT !.queue = Tail(@)]
  OBVIOUS
<1> DEFINE q == worker[w].queue
           m == Message(Head(q))
<1>1. /\ worker[w] \in WorkerT /\ worker[w].pc = "publishing"
      /\ worker' = [worker EXCEPT ![w] = k] /\ hub' = Append(hub, m)
      /\ UNCHANGED <<rows, committed, lost, flushes>>
      /\ worker'[w] = k /\ \A v \in Workers : v # w => worker'[v] = worker[v]
  BY <1>0 DEF publishUpdate, publishing, BInv, Typed
<1>2. q # <<>> /\ m \in MessageT /\ Head(q) \in Change /\ BInv'
  BY PublishTyped
<1>3. q \in Seq(Change)
  BY <1>1 DEF WorkerT
<1>4. /\ Len(q) \in Nat /\ Len(q) >= 1 /\ DOMAIN q = 1..Len(q) /\ Head(q) = q[1]
      /\ Tail(q) \in Seq(Change) /\ Len(Tail(q)) = Len(q) - 1
      /\ DOMAIN Tail(q) = 1..(Len(q) - 1)
      /\ \A i \in 1..(Len(q) - 1) : Tail(q)[i] = q[i + 1]
  <2> HIDE DEF q
  <2>1. Tail(q) \in Seq(Change) /\ Len(Tail(q)) = Len(q) - 1
    BY <1>2, <1>3, HeadTailProperties
  <2>2. Len(q) \in Nat /\ Len(q) # 0 /\ DOMAIN q = 1..Len(q)
    BY <1>2, <1>3, LenProperties, EmptySeq
  <2> QED
    BY <1>3, <2>1, <2>2, LenProperties
<1>5. /\ k.pc = "publishing" /\ k.queue = Tail(q) /\ k.flush = worker[w].flush
      /\ k.stored = worker[w].stored
  BY <1>0, <1>1 DEF WorkerT
<1>6. /\ m.flush = q[1].flush /\ m.id = q[1].id /\ m.at = Len(committed)
      /\ Tells(m, q[1])
  BY <1>4 DEF Message, Tells
<1>7. /\ \A j \in DOMAIN q : q[j].flush = k.flush /\ WasCommitted(q[j])
      /\ IdsOnce(q)
      /\ \A i \in DOMAIN hub : hub[i].flush = k.flush =>
           \A j \in DOMAIN q : q[j].id # hub[i].id
  BY <1>1, <1>5 DEF PerFlush, Committed, Queued, Unpublished
<1>8. /\ hub \in Seq(MessageT) /\ Len(hub) \in Nat /\ DOMAIN hub = 1..Len(hub)
      /\ DOMAIN hub' = 1..(Len(hub) + 1) /\ hub'[Len(hub) + 1] = m
      /\ \A i \in 1..Len(hub) : hub'[i] = hub[i]
  <2>1. hub \in Seq(MessageT)
    BY DEF BInv, Typed
  <2> HIDE DEF m
  <2>2. /\ hub' \in Seq(MessageT) /\ Len(hub') = Len(hub) + 1
        /\ hub'[Len(hub) + 1] = m
        /\ \A i \in 1..Len(hub) : hub'[i] = hub[i]
    BY <1>1, <1>2, <2>1, AppendProperties
  <2> QED
    BY <2>1, <2>2, LenProperties
<1>9. /\ DOMAIN committed = 1..Len(committed) /\ Len(committed) \in Nat
  BY LenProperties DEF BInv, Typed
<1> HIDE DEF q, m
<1>10. ASSUME NEW v \in Workers
       PROVE  /\ EmptyAtFirst(worker'[v]) /\ Flushing(worker'[v])
              /\ Committed(worker'[v])
  <2>1. CASE v # w
    BY <1>1, <2>1 DEF PerFlush
  <2>2. CASE v = w
    <3>1. EmptyAtFirst(k) /\ Flushing(k)
      BY <1>5 DEF EmptyAtFirst, Flushing
    <3>2. \A j \in DOMAIN Tail(q) : Tail(q)[j].flush = k.flush /\ WasCommitted(Tail(q)[j])
      BY <1>4, <1>7
    <3>3. IdsOnce(Tail(q))
      BY <1>4, <1>7 DEF IdsOnce
    <3>4. Committed(k)
      BY <1>5, <3>2, <3>3 DEF Committed, Queued
    <3> QED
      BY <1>1, <2>2, <3>1, <3>4
  <2> QED
    BY <2>1, <2>2
<1>11. m.flush \in 1..flushes
  <2>1. worker[w].flush \in 1..flushes
    BY <1>1 DEF BInv, FlushesDiffer
  <2> QED
    BY <1>4, <1>5, <1>6, <1>7, <2>1
<1>12. HubOnce'
  <2>1. \A i \in DOMAIN hub' : hub'[i].flush \in 1..flushes /\ hub'[i].at <= Len(committed)
    BY <1>6, <1>8, <1>9, <1>11 DEF PerFlush, HubOnce
  <2>2. \A i \in 1..Len(hub) : ~(hub[i].flush = m.flush /\ hub[i].id = m.id)
    BY <1>4, <1>6, <1>7, <1>8
  <2>3. \A i, j \in DOMAIN hub' :
          hub'[i].flush = hub'[j].flush /\ hub'[i].id = hub'[j].id => i = j
    BY <1>8, <2>2 DEF PerFlush, HubOnce
  <2> QED
    BY <1>1, <2>1, <2>3 DEF HubOnce
<1>13. ASSUME NEW v \in Workers
       PROVE  Unpublished(worker[v])'
  <2>1. CASE v # w
    <3>1. worker[v].pc # "idle" => worker[v].flush # m.flush
      BY <1>1, <1>4, <1>5, <1>6, <1>7, <2>1 DEF BInv, FlushesDiffer
    <3> QED
      BY <1>1, <1>8, <2>1, <3>1 DEF PerFlush, Unpublished
  <2>2. CASE v = w
    <3>1. ASSUME NEW i \in DOMAIN hub', hub'[i].flush = k.flush,
                 NEW j \in DOMAIN Tail(q)
          PROVE  Tail(q)[j].id # hub'[i].id
      <4>1. j + 1 \in DOMAIN q /\ Tail(q)[j] = q[j + 1] /\ j + 1 # 1 /\ 1 \in DOMAIN q
        BY <1>4
      <4>2. CASE i = Len(hub) + 1
        BY <1>6, <1>7, <1>8, <4>1, <4>2 DEF IdsOnce
      <4>3. CASE i # Len(hub) + 1
        BY <1>7, <1>8, <3>1, <4>1, <4>3
      <4> QED
        BY <4>2, <4>3
    <3>2. \A i \in DOMAIN hub' :
            /\ k.pc \in {"loaded", "flushing", "committed"} =>
                 hub'[i].flush # k.flush
            /\ k.pc = "publishing" /\ hub'[i].flush = k.flush =>
                 \A j \in DOMAIN k.queue : k.queue[j].id # hub'[i].id
      BY <1>5, <3>1
    <3>3. worker'[v] = k
      BY <1>1, <2>2
    <3> QED
      BY <3>2, <3>3 DEF Unpublished
  <2> QED
    BY <2>1, <2>2
<1>14. PublishedWasCommitted'
  <2>1. PICK n \in DOMAIN committed : Tells(q[1], committed[n])
    BY <1>4, <1>7 DEF WasCommitted
  <2>2. n \in 1..m.at /\ Tells(m, committed[n])
    BY <1>6, <1>9, <2>1, TellsBack
  <2>3. \A i \in DOMAIN hub' : \E l \in 1..hub'[i].at : Tells(hub'[i], committed[l])
    BY <1>8, <2>2 DEF PerFlush, PublishedWasCommitted
  <2> QED
    BY <1>1, <2>3 DEF PublishedWasCommitted
<1>15. Accounted'
  <2>1. ASSUME NEW n \in DOMAIN committed, committed[n].id \in Mercure
        PROVE  \/ \E i \in DOMAIN hub' : Tells(hub'[i], committed[n])
               \/ Lost(committed[n])
               \/ \E v \in Workers : PendingBy(worker'[v], committed[n])
    <3>1. CASE Published(committed[n])
      BY <1>8, <3>1 DEF Published
    <3>2. CASE \E v \in Workers : v # w /\ PendingBy(worker[v], committed[n])
      BY <1>1, <3>2
    <3>3. CASE PendingBy(worker[w], committed[n])
      <4>1. PICK j \in DOMAIN q : Tells(q[j], committed[n])
        BY <1>1, <3>3 DEF PendingBy, q
      <4>2. CASE j = 1
        <5>1. Tells(m, committed[n])
          BY <1>6, <4>1, <4>2, TellsBack
        <5>2. Len(hub) + 1 \in DOMAIN hub'
          BY <1>8
        <5> QED
          BY <1>8, <5>1, <5>2
      <4>3. CASE j # 1
        <5>1. j - 1 \in DOMAIN Tail(q) /\ Tail(q)[j - 1] = q[j]
          BY <1>4, <4>1, <4>3
        <5>2. PendingBy(k, committed[n])
          BY <1>5, <4>1, <5>1 DEF PendingBy
        <5> QED
          BY <1>1, <5>2
      <4> QED
        BY <4>2, <4>3
    <3> QED
      BY <2>1, <3>1, <3>2, <3>3 DEF PerFlush, Accounted, Pending
  <2> QED
    BY <1>1, <2>1 DEF Accounted, Published, Lost, Pending, PendingBy
<1> QED
  BY <1>1, <1>10, <1>12, <1>13, <1>14, <1>15
     DEF PerFlush, EmptyAtFirst, Flushing, Committed, Queued, WasCommitted

-----------------------------------------------------------------------------
(* The invariant is inductive                                              *)

LEMMA InitInv == Init => MInv
<1> SUFFICES ASSUME Init PROVE MInv
  OBVIOUS
<1>1. /\ rows \in [Ids -> Data \cup {None}]
      /\ worker = [w \in Workers |-> Idle] /\ hub = <<>> /\ committed = <<>>
      /\ lost = {} /\ flushes = 0
  BY DEF Init
<1>2. \A w \in Workers : worker[w] = Idle
  BY <1>1
<1>3. <<>> \in Seq(MessageT) /\ <<>> \in Seq(CommitT)
      /\ DOMAIN <<>> = {}
  OBVIOUS
<1>4. BInv
  BY <1>1, <1>2, <1>3, IdleTyped, ConstantsAssumption
     DEF BInv, Typed, FlushesDiffer, StoredByType
<1>5. PerFlush
  <2>1. \A w \in Workers :
          /\ EmptyAtFirst(worker[w]) /\ Flushing(worker[w])
          /\ Committed(worker[w]) /\ Unpublished(worker[w])
    BY <1>2, IdleTyped DEF EmptyAtFirst, Flushing, Committed, Unpublished
  <2>2. HubOnce /\ PublishedWasCommitted /\ Accounted
    BY <1>1, <1>3 DEF HubOnce, PublishedWasCommitted, Accounted
  <2> QED
    BY <2>1, <2>2 DEF PerFlush
<1> QED
  BY <1>4, <1>5 DEF MInv

LEMMA NextInv == MInv /\ [Next]_vars => MInv'
<1> SUFFICES ASSUME MInv, [Next]_vars PROVE MInv'
  OBVIOUS
<1>1. BInv /\ (~LongRunning => PerFlush)
  BY DEF MInv
<1>2. CASE UNCHANGED vars
  <2>1. BInv'
    BY <1>1, <1>2 DEF vars, BInv, Typed, FlushesDiffer, StoredByType
  <2>2. PerFlush => PerFlush'
    BY <1>2 DEF vars, PerFlush, EmptyAtFirst, Flushing, Committed, Queued,
       WasCommitted, Unpublished, HubOnce, PublishedWasCommitted, Accounted,
       Published, Lost, Pending, PendingBy
  <2> QED
    BY <1>1, <2>1, <2>2 DEF MInv
<1>3. CASE Next
  <2> SUFFICES ASSUME NEW w \in Workers,
                      \/ Load(w)
                      \/ \E D \in SUBSET Ids \ {{}} :
                           \E data \in [D -> Data \cup {None}] : onFlush(w, data)
                      \/ Commit(w) \/ CommitFails(w) \/ postFlush(w)
                      \/ publishUpdate(w) \/ PublishThrows(w) \/ PublishDone(w)
               PROVE  BInv' /\ (~LongRunning => PerFlush')
    BY <1>3 DEF Next, MInv
  <2>1. CASE Load(w)
    BY <1>1, <2>1, LoadTyped, LoadPerFlush
  <2>2. CASE \E D \in SUBSET Ids \ {{}} :
               \E data \in [D -> Data \cup {None}] : onFlush(w, data)
    <3>1. PICK D \in SUBSET Ids : \E data \in [D -> Data \cup {None}] : onFlush(w, data)
      BY <2>2
    <3>2. PICK data \in [D -> Data \cup {None}] : onFlush(w, data)
      BY <3>1
    <3>3. BInv'
      BY <1>1, <3>2, OnFlushTyped
    <3> QED
      BY <1>1, <3>2, <3>3, OnFlushPerFlush
  <2>3. CASE Commit(w)
    BY <1>1, <2>3, CommitTyped, CommitPerFlush
  <2>4. CASE CommitFails(w)
    BY <1>1, <2>4, CommitFailsTyped, CommitFailsPerFlush
  <2>5. CASE postFlush(w)
    BY <1>1, <2>5, PostFlushTyped, PostFlushPerFlush
  <2>6. CASE publishUpdate(w)
    BY <1>1, <2>6, PublishTyped, PublishPerFlush
  <2>7. CASE PublishThrows(w)
    BY <1>1, <2>7, BackToIdleTyped, PublishThrowsPerFlush
  <2>8. CASE PublishDone(w)
    BY <1>1, <2>8, BackToIdleTyped, PublishDonePerFlush
  <2> QED
    BY <2>1, <2>2, <2>3, <2>4, <2>5, <2>6, <2>7, <2>8
<1> QED
  BY <1>2, <1>3

LEMMA AlwaysInv == Spec => []MInv
  BY InitInv, NextInv, PTL DEF Spec

-----------------------------------------------------------------------------
(* Theorems                                                                *)

(* The storages of the listener are typed and sorted, whether or not a     *)
(* flush that failed has left objects in them.                             *)
THEOREM TypeCorrect == Spec => []TypeOK
<1>1. MInv => TypeOK
  <2> SUFFICES ASSUME MInv, NEW w \in Workers
               PROVE  /\ rows \in [Ids -> Data \cup {None}]
                      /\ worker[w].pc \in {"idle", "loaded", "flushing",
                                           "committed", "publishing"}
                      /\ worker[w].flush \in 0..MaxFlushes
                      /\ worker[w].changes \subseteq Change
                      /\ \A t \in Types : \A j \in DOMAIN worker[w].stored[t] :
                           worker[w].stored[t][j] \in Change
                             /\ worker[w].stored[t][j].type = t
                      /\ \A j \in DOMAIN worker[w].queue :
                           worker[w].queue[j] \in Change
    BY DEF TypeOK, MInv, BInv, Typed
  <2>1. rows \in [Ids -> Data \cup {None}] /\ worker[w] \in WorkerT
    BY DEF MInv, BInv, Typed
  <2>2. \A s \in Seq(Change) : \A j \in DOMAIN s : s[j] \in Change
    BY ElementOfSeq, LenProperties
  <2>3. /\ \A t \in Types : worker[w].stored[t] \in Seq(Change)
        /\ worker[w].queue \in Seq(Change)
    BY <2>1 DEF WorkerT, ChangeT
  <2>4. \A t \in Types : \A j \in DOMAIN worker[w].stored[t] :
          worker[w].stored[t][j].type = t
    BY DEF MInv, BInv, StoredByType, SortedByType
  <2> QED
    BY <2>1, <2>2, <2>3, <2>4 DEF WorkerT, ChangeT
<1> QED
  BY <1>1, AlwaysInv, PTL

(* When the listener ends with the process, an update on the hub tells a   *)
(* change that was committed before: with any number of workers, whatever  *)
(* flushes and publications fail.                                          *)
THEOREM NothingUncommittedPublished ==
  ASSUME ~LongRunning
  PROVE  Spec => []PublishedWasCommitted
<1>1. MInv => PublishedWasCommitted
  BY DEF MInv, PerFlush
<1> QED
  BY <1>1, AlwaysInv, PTL

(* When the listener ends with the process, a committed change of a        *)
(* published resource is told once when the workers are done, or at most   *)
(* once when its publication failed.                                       *)
THEOREM CommittedIsTold ==
  ASSUME ~LongRunning
  PROVE  Spec => []CommittedIsPublished
<1>1. MInv => CommittedIsPublished
  <2> SUFFICES ASSUME MInv, Quiescent, NEW n \in DOMAIN committed,
                      committed[n].id \in Mercure
               PROVE  LET T == {i \in DOMAIN hub : Tells(hub[i], committed[n])}
                      IN  \/ Cardinality(T) = 1
                          \/ Cardinality(T) = 0 /\ Lost(committed[n])
    BY DEF CommittedIsPublished, Lost
  <2> DEFINE T == {i \in DOMAIN hub : Tells(hub[i], committed[n])}
  <2>1. PerFlush
    BY DEF MInv
  <2>2. Published(committed[n]) \/ Lost(committed[n])
    BY <2>1 DEF PerFlush, Accounted, Pending, PendingBy, Quiescent
  <2>3. \A i, j \in T : i = j
    BY <2>1 DEF PerFlush, HubOnce, Tells
  <2>4. CASE T = {}
    BY <2>2, <2>4, FS_EmptySet DEF Published
  <2>5. CASE T # {}
    <3>1. PICK i \in T : T = {i}
      <4> HIDE DEF T
      <4> QED
        BY <2>3, <2>5
    <3>2. Cardinality({i}) = 1
      BY FS_Singleton
    <3> QED
      BY <3>1, <3>2
  <2> QED
    BY <2>4, <2>5
<1> QED
  BY <1>1, AlwaysInv, PTL
-----------------------------------------------------------------------------
(***************************************************************************)
(* Who follows a resource ends with its data: the order of the messages on *)
(* the hub against the order of the commits of several workers.            *)
(***************************************************************************)

(* The row shows a value of a column, which was there when s changes were  *)
(* committed, unless a later change wrote the column.                      *)
Reflects(val, s, id, a) ==
  \/ Same(rows[id], val, a)
  \/ \E m \in DOMAIN committed :
       /\ s < m /\ committed[m].landed
       /\ committed[m].id = id /\ a \in committed[m].columns

RowsReflect ==
  \A n \in DOMAIN committed : committed[n].landed =>
    \A a \in Columns :
      Reflects(committed[n].val, Since(n, a), committed[n].id, a)

(* So do the objects a worker has read, after all its commits.             *)
Snapshot(w, k) ==
  k.pc \in {"loaded", "flushing"} =>
    /\ k.read <= Len(committed)
    /\ \A n \in DOMAIN committed : committed[n].worker = w => n <= k.read
    /\ \A id \in Ids : \A a \in Columns : Reflects(k.loaded[id], k.read, id, a)

(* A row is read before it is written, after what its worker wrote before. *)
ReadFirst ==
  /\ \A n \in DOMAIN committed : committed[n].read < n
  /\ \A n, m \in DOMAIN committed :
       /\ m < n /\ committed[m].worker = committed[n].worker
       /\ committed[m].id = committed[n].id
       => m <= committed[n].read

(* A flush commits a change of a resource once.                            *)
CommitsOnce ==
  /\ \A n \in DOMAIN committed : committed[n].flush \in 1..flushes
  /\ \A n, m \in DOMAIN committed :
       committed[n].flush = committed[m].flush /\ committed[n].id = committed[m].id
         => n = m

(* The changes a worker is publishing are its last ones.                   *)
LastOf(w, k) ==
  /\ k.pc \in {"loaded", "flushing"} =>
       \A n \in DOMAIN committed : committed[n].flush # k.flush
  /\ k.pc \in {"committed", "publishing"} =>
       \A n \in DOMAIN committed : committed[n].flush = k.flush =>
         /\ committed[n].worker = w
         /\ \A m \in DOMAIN committed :
              n < m /\ committed[m].worker = w => committed[m].flush = k.flush

(* Only what is to be published is stored, and queued.                     *)
OnlyMercure(k) ==
  /\ \A t \in Types : \A c \in ToSet(k.stored[t]) : c.id \in Mercure
  /\ \A c \in ToSet(k.queue) : c.id \in Mercure

(* Messages follow the commits: what a worker has published, it published  *)
(* before it committed again.                                              *)
HubInOrder ==
  /\ \A i \in DOMAIN hub : hub[i].id \in Mercure
  /\ \A i, j \in DOMAIN hub : i <= j => hub[i].at <= hub[j].at
  /\ \A i \in DOMAIN hub : \A n, m \in DOMAIN committed :
       /\ Tells(hub[i], committed[n]) /\ n < m
       /\ committed[m].id = committed[n].id
       /\ committed[m].worker = committed[n].worker
       => hub[i].at < m

OInv ==
  /\ RowsReflect /\ ReadFirst /\ CommitsOnce /\ HubInOrder
  /\ \A w \in Workers :
       LastOf(w, worker[w]) /\ OnlyMercure(worker[w]) /\ Snapshot(w, worker[w])

-----------------------------------------------------------------------------
(* The steps that neither commit nor publish                               *)

LEMMA QuietOrder ==
  ASSUME BInv, OInv, NEW w \in Workers, NEW k,
         worker' = [worker EXCEPT ![w] = k],
         rows' = rows, hub' = hub, committed' = committed,
         flushes' \in Nat, flushes <= flushes',
         LastOf(w, k), OnlyMercure(k), Snapshot(w, k)
  PROVE  OInv'
<1>1. /\ worker'[w] = k /\ flushes \in Nat
      /\ \A v \in Workers : v # w => worker'[v] = worker[v]
  BY ConstantsAssumption DEF BInv, Typed
<1>2. CommitsOnce'
  BY <1>1 DEF OInv, CommitsOnce
<1>3. \A v \in Workers :
        LastOf(v, worker'[v]) /\ OnlyMercure(worker'[v]) /\ Snapshot(v, worker'[v])
  BY <1>1 DEF OInv
<1>4. \A v \in Workers :
        LastOf(v, worker[v])' /\ OnlyMercure(worker[v])' /\ Snapshot(v, worker[v])'
  BY <1>3 DEF LastOf, OnlyMercure, Snapshot, Reflects, Same
<1>5. RowsReflect' /\ ReadFirst' /\ HubInOrder'
  BY DEF OInv, RowsReflect, Reflects, Since, Same, ReadFirst, HubInOrder, Tells
<1> QED
  BY <1>2, <1>4, <1>5 DEF OInv

LEMMA IdleOrder ==
  ASSUME NEW w
  PROVE  LastOf(w, Idle) /\ OnlyMercure(Idle) /\ Snapshot(w, Idle)
  BY DEF LastOf, OnlyMercure, Snapshot, Idle, reset, ToSet

LEMMA LoadOrder ==
  ASSUME BInv, OInv, NEW w \in Workers, Load(w)
  PROVE  OInv'
<1>0. PICK k : k = [worker[w] EXCEPT !.pc = "loaded", !.flush = flushes',
                                     !.loaded = rows, !.read = Len(committed)]
  OBVIOUS
<1>1. /\ worker[w] \in WorkerT /\ worker' = [worker EXCEPT ![w] = k]
      /\ UNCHANGED <<rows, hub, committed>>
      /\ flushes \in Nat /\ flushes' = flushes + 1
  BY <1>0, ConstantsAssumption DEF Load, BInv, Typed
<1>2. /\ k.pc = "loaded" /\ k.flush = flushes' /\ k.stored = worker[w].stored
      /\ k.queue = worker[w].queue /\ k.loaded = rows /\ k.read = Len(committed)
  BY <1>0, <1>1 DEF WorkerT
<1>3. LastOf(w, k)
  BY <1>1, <1>2 DEF LastOf, OInv, CommitsOnce
<1>4. OnlyMercure(k)
  BY <1>2 DEF OInv, OnlyMercure
<1>5. /\ rows' = rows /\ hub' = hub /\ committed' = committed
      /\ flushes' \in Nat /\ flushes <= flushes'
  BY <1>1
<1>6. Snapshot(w, k)
  <2>1. DOMAIN committed = 1..Len(committed) /\ Len(committed) \in Nat
    BY LenProperties DEF BInv, Typed
  <2> QED
    BY <1>2, <2>1 DEF Snapshot, Reflects, Same
<1> QED
  BY <1>1, <1>3, <1>4, <1>5, <1>6, QuietOrder

(* What the listener stores is to be published.                            *)
LEMMA StoredMercure ==
  ASSUME NEW stored \in [Types -> Seq(Change)], NEW S \in SUBSET Change,
         IsFiniteSet(S),
         \A t \in Types : \A c \in ToSet(stored[t]) : c.id \in Mercure
  PROVE  \A t \in Types :
           \A c \in ToSet(storeObjectToPublish(stored, S)[t]) : c.id \in Mercure
<1> TAKE t \in Types
<1> DEFINE P == {c \in S : c.type = t /\ c.id \in Mercure}
           q == SetToSeq(P)
<1>1. storeObjectToPublish(stored, S)[t] = stored[t] \o q
  BY DEF storeObjectToPublish
<1>2. q \in Seq(Change)
  BY StoreSequence
<1>3. IsFiniteSet(P) /\ \A c \in P : c.id \in Mercure
  BY FS_Subset
<1> HIDE DEF P
<1>4. q \in [1..Cardinality(P) -> P]
  BY <1>3, SetToSeqElements
<1>5. \A c \in ToSet(q) : c.id \in Mercure
  <2> HIDE DEF q
  <2> QED BY <1>3, <1>4 DEF ToSet
<1> HIDE DEF q
<1>6. ToSet(stored[t] \o q) = ToSet(stored[t]) \cup ToSet(q)
  BY <1>2, ConcatElements
<1> QED
  BY <1>1, <1>5, <1>6

LEMMA OnFlushOrder ==
  ASSUME BInv, OInv, NEW w \in Workers, NEW D \in SUBSET Ids,
         NEW data \in [D -> Data \cup {None}], onFlush(w, data)
  PROVE  OInv'
<1> DEFINE S == Scheduled(worker[w], data)
<1>0. PICK k : k = [worker[w] EXCEPT !.pc = "flushing", !.changes = S,
                      !.stored = storeObjectToPublish(@, S)]
  OBVIOUS
<1>1. /\ worker[w] \in WorkerT /\ worker[w].pc = "loaded"
      /\ worker' = [worker EXCEPT ![w] = k]
      /\ rows' = rows /\ hub' = hub /\ committed' = committed
      /\ flushes' \in Nat /\ flushes <= flushes' /\ flushes' = flushes
  BY <1>0, ConstantsAssumption DEF onFlush, BInv, Typed
<1>2. S \in SUBSET Change /\ IsFiniteSet(S)
  BY OnFlushTyped DEF OneEach
<1> HIDE DEF S
<1>3. /\ k.pc = "flushing" /\ k.flush = worker[w].flush
      /\ k.stored = storeObjectToPublish(worker[w].stored, S)
      /\ k.queue = worker[w].queue
      /\ k.loaded = worker[w].loaded /\ k.read = worker[w].read
      /\ worker[w].stored \in [Types -> Seq(Change)]
  BY <1>0, <1>1 DEF WorkerT
<1>4. LastOf(w, k)
  BY <1>1, <1>3 DEF OInv, LastOf
<1>5. OnlyMercure(k)
  BY <1>2, <1>3, StoredMercure DEF OInv, OnlyMercure
<1>6. Snapshot(w, k)
  BY <1>1, <1>3 DEF OInv, Snapshot
<1> QED
  BY <1>1, <1>4, <1>5, <1>6, QuietOrder

LEMMA EndOrder ==
  ASSUME ~LongRunning, BInv, OInv, NEW w \in Workers,
         CommitFails(w) \/ PublishThrows(w) \/ PublishDone(w)
  PROVE  OInv'
<1>1. /\ worker' = [worker EXCEPT ![w] = Idle]
      /\ rows' = rows /\ hub' = hub /\ committed' = committed
      /\ flushes' \in Nat /\ flushes <= flushes' /\ flushes' = flushes
  BY ConstantsAssumption DEF CommitFails, PublishThrows, PublishDone, BInv, Typed
<1> QED
  BY <1>1, IdleOrder, QuietOrder

LEMMA PostFlushOrder ==
  ASSUME BInv, OInv, NEW w \in Workers, postFlush(w)
  PROVE  OInv'
<1> DEFINE q == QueueOf(worker[w].stored)
<1>0. PICK k : k = [worker[w] EXCEPT !.pc = "publishing", !.queue = q]
  OBVIOUS
<1>1. /\ worker[w] \in WorkerT /\ worker[w].pc = "committed"
      /\ worker' = [worker EXCEPT ![w] = k]
      /\ rows' = rows /\ hub' = hub /\ committed' = committed
      /\ flushes' \in Nat /\ flushes <= flushes' /\ flushes' = flushes
  BY <1>0, ConstantsAssumption DEF postFlush, QueueOf, BInv, Typed
<1>2. \A c : c \in ToSet(q) <=> \E t \in Types : c \in ToSet(worker[w].stored[t])
  BY <1>1, QueueElements DEF WorkerT
<1> HIDE DEF q
<1>3. /\ k.pc = "publishing" /\ k.flush = worker[w].flush /\ k.queue = q
      /\ k.stored = worker[w].stored
  BY <1>0, <1>1 DEF WorkerT
<1>4. LastOf(w, k)
  BY <1>1, <1>3 DEF OInv, LastOf
<1>5. OnlyMercure(k)
  BY <1>2, <1>3 DEF OInv, OnlyMercure
<1>6. Snapshot(w, k)
  BY <1>3 DEF Snapshot
<1> QED
  BY <1>1, <1>4, <1>5, <1>6, QuietOrder

-----------------------------------------------------------------------------
(* A commit                                                                *)

(* A record tells whether its change has matched a row, and how.           *)
Records(c, w, r) ==
  /\ Tells(c, r) /\ r.worker = w /\ (r.landed <=> Landed(c))
  /\ r.columns = Written(worker[w], c) /\ r.read = worker[w].read

LEMMA CommitMatches ==
  ASSUME BInv, PerFlush, NEW w \in Workers, Commit(w)
  PROVE  \E q \in Seq(CommitT) :
           /\ committed' = committed \o q
           /\ \A c \in worker[w].changes : \E j \in DOMAIN q : Records(c, w, q[j])
           /\ \A j \in DOMAIN q : \E c \in worker[w].changes : Records(c, w, q[j])
           /\ \A i, j \in DOMAIN q : q[i].id = q[j].id => i = j
<1> DEFINE C == worker[w].changes
           landed == {c \in C : Landed(c)}
           record(c) == [worker |-> w, flush |-> c.flush, type |-> c.type,
                         id |-> c.id, val |-> c.val, landed |-> c \in landed,
                         columns |-> Written(worker[w], c), read |-> worker[w].read]
           f == [c \in C |-> record(c)]
           R == {record(c) : c \in C}
           q == SetToSeq(R)
<1>1. committed' = committed \o q
  BY DEF Commit
<1>2. C \subseteq Change /\ IsFiniteSet(C) /\ worker[w].read \in Nat
  BY DEF BInv, Typed, WorkerT, ChangeT
<1>3. ASSUME NEW c \in C
      PROVE  record(c) \in CommitT /\ Records(c, w, record(c)) /\ record(c).id = c.id
  <2>1. c \in Change /\ (c \in landed) \in BOOLEAN
    BY <1>2
  <2>2. record(c).landed <=> Landed(c)
    OBVIOUS
  <2>3. Written(worker[w], c) \in SUBSET Columns
    BY DEF Written
  <2> HIDE DEF landed
  <2> QED
    BY <1>2, <2>1, <2>2, <2>3 DEF Change, CommitT, Records, Tells, Types
<1>4. R = {f[c] : c \in C} /\ DOMAIN f = C
  <2> HIDE DEF record
  <2> QED
    OBVIOUS
<1>5. IsFiniteSet(R)
  <2>1. IsFiniteSet({f[c] : c \in C})
    <3> HIDE DEF f, R, C
    <3> QED
      BY <1>2, <1>4, ImageFinite
  <2> QED
    BY <1>4, <2>1
<1>6. \A c, d \in C : c.id = d.id => c = d
  BY DEF Commit, PerFlush, Flushing, OneEach
<1> HIDE DEF record, landed, f
<1>7. /\ R \subseteq CommitT /\ \A r \in R : \E c \in C : Records(c, w, r)
      /\ \A c \in C : \E r \in R : Records(c, w, r)
      /\ \A r, s \in R : r.id = s.id => r = s
  BY <1>3, <1>6
<1> HIDE DEF R
<1>8. /\ Cardinality(R) \in Nat /\ q \in [1..Cardinality(R) -> R]
      /\ \A x \in R : \E i \in 1..Cardinality(R) : q[i] = x
      /\ \A i, j \in 1..Cardinality(R) : q[i] = q[j] => i = j
  BY <1>5, SetToSeqElements
<1> HIDE DEF q
<1>9. q \in [1..Cardinality(R) -> CommitT] /\ DOMAIN q = 1..Cardinality(R)
  BY <1>7, <1>8
<1>10. q \in Seq(CommitT)
  BY <1>8, <1>9, SeqDef
<1>11. /\ \A c \in C : \E j \in DOMAIN q : Records(c, w, q[j])
       /\ \A j \in DOMAIN q : \E c \in C : Records(c, w, q[j])
       /\ \A i, j \in DOMAIN q : q[i].id = q[j].id => i = j
  BY <1>7, <1>8, <1>9
<1> QED
  BY <1>1, <1>10, <1>11

(* A commit writes the changes that match a row, and no other row.         *)
LEMMA CommitRows ==
  ASSUME BInv, PerFlush, NEW w \in Workers, Commit(w)
  PROVE  /\ \A c \in worker[w].changes : Landed(c) => rows'[c.id] = Row(worker[w], c)
         /\ \A i \in Ids :
              (\A c \in worker[w].changes : Landed(c) => c.id # i)
                => rows'[i] = rows[i]
<1> DEFINE C == worker[w].changes
           landed == {c \in C : Landed(c)}
<1>1. rows' = [i \in Ids |->
         IF \E c \in landed : c.id = i
         THEN Row(worker[w], CHOOSE c \in landed : c.id = i) ELSE rows[i]]
  BY DEF Commit
<1>2. \A c \in C : c \in landed <=> Landed(c)
  OBVIOUS
<1>3. \A c \in landed : c \in C
  OBVIOUS
<1>4. /\ \A c \in C : c.id \in Ids
      /\ \A c, d \in C : c.id = d.id => c = d
  BY DEF BInv, Typed, WorkerT, ChangeT, Change, Commit, PerFlush, Flushing, OneEach
<1> HIDE DEF C, landed
<1>5. ASSUME NEW c \in landed
      PROVE  rows'[c.id] = Row(worker[w], c)
  <2>1. (CHOOSE d \in landed : d.id = c.id) = c
    BY <1>3, <1>4
  <2> QED
    BY <1>1, <1>3, <1>4, <2>1
<1>6. ASSUME NEW i \in Ids, \A c \in C : Landed(c) => c.id # i
      PROVE  rows'[i] = rows[i]
  <2>1. ~\E c \in landed : c.id = i
    BY <1>2, <1>3, <1>6
  <2> QED
    BY <1>1, <2>1
<1>7. \A c \in C : Landed(c) => rows'[c.id] = Row(worker[w], c)
  BY <1>2, <1>5
<1> QED
  BY <1>6, <1>7 DEF C

(* Column by column: a column that is written shows the change, another    *)
(* one what it showed.                                                     *)
LEMMA RowColumns ==
  ASSUME BInv, NEW k, NEW c \in ChangeT, Landed(c), NEW a \in Columns
  PROVE  /\ a \in Written(k, c) => Same(Row(k, c), c.val, a)
         /\ a \notin Written(k, c) =>
              /\ \A v : Same(rows[c.id], v, a) => Same(Row(k, c), v, a)
              /\ Same(rows[c.id], k.loaded[c.id], a) => Same(Row(k, c), c.val, a)
<1>1. CASE c.type # "update"
  BY <1>1 DEF Row, Written, Same
<1>2. CASE c.type = "update"
  <2>1. /\ c.val \in Data /\ rows[c.id] \in Data
        /\ c.val # None /\ rows[c.id] # None
    BY <1>2, ConstantsAssumption DEF ChangeT, Landed, Change, BInv, Typed
  <2>2. Row(k, c) = [b \in Columns |-> IF b \in Written(k, c) THEN c.val[b]
                                       ELSE rows[c.id][b]]
    BY <1>2 DEF Row
  <2>3. Row(k, c)[a] = IF a \in Written(k, c) THEN c.val[a] ELSE rows[c.id][a]
    BY <2>2
  <2>4. Row(k, c) # None
    <3>1. Row(k, c) \in Data
      BY <2>1, <2>2 DEF Data
    <3> QED
      BY <3>1, ConstantsAssumption
  <2>5. a \notin Written(k, c) => k.loaded[c.id][a] = c.val[a]
    BY <1>2 DEF Written
  <2> QED
    BY <2>1, <2>3, <2>4, <2>5 DEF Same
<1> QED
  BY <1>1, <1>2

LEMMA CommitOrder ==
  ASSUME BInv, PerFlush, OInv, NEW w \in Workers, Commit(w)
  PROVE  OInv'
<1>0. PICK k : k = [worker[w] EXCEPT !.pc = "committed",
                      !.stored = Named(@, worker[w].flush)]
  OBVIOUS
<1> DEFINE C == worker[w].changes
           x == worker[w]
<1>1. /\ worker[w] \in WorkerT /\ worker[w].pc = "flushing"
      /\ worker' = [worker EXCEPT ![w] = k]
      /\ hub' = hub /\ flushes' = flushes
      /\ worker'[w] = k /\ \A v \in Workers : v # w => worker'[v] = worker[v]
  BY <1>0 DEF Commit, BInv, Typed
<1>2. /\ k.pc = "committed" /\ k.flush = worker[w].flush
      /\ k.stored = Named(worker[w].stored, worker[w].flush)
      /\ k.queue = worker[w].queue
  BY <1>0, <1>1 DEF WorkerT
<1>3. PICK q \in Seq(CommitT) :
        /\ committed' = committed \o q
        /\ \A c \in C : \E j \in DOMAIN q : Records(c, w, q[j])
        /\ \A j \in DOMAIN q : \E c \in C : Records(c, w, q[j])
        /\ \A i, j \in DOMAIN q : q[i].id = q[j].id => i = j
  BY CommitMatches
<1> DEFINE L == Len(committed)
<1>4. /\ committed \in Seq(CommitT) /\ L \in Nat /\ DOMAIN committed = 1..L
      /\ Len(q) \in Nat /\ DOMAIN q = 1..Len(q)
  BY LenProperties DEF BInv, Typed
<1>5. /\ committed' \in Seq(CommitT)
      /\ Len(committed') = L + Len(q)
      /\ \A i \in 1..(L + Len(q)) :
           committed'[i] = IF i <= L THEN committed[i] ELSE q[i - L]
  BY <1>3, <1>4, RecordConcat, Zenon
<1>6. DOMAIN committed' = 1..(L + Len(q))
  BY <1>5, LenProperties
<1>7. \A n \in DOMAIN committed : n \in DOMAIN committed' /\ committed'[n] = committed[n]
  BY <1>4, <1>5, <1>6
<1>8. ASSUME NEW n \in DOMAIN committed', n \notin DOMAIN committed
      PROVE  /\ n > L /\ n - L \in DOMAIN q /\ committed'[n] = q[n - L]
             /\ n \in Nat
  BY <1>4, <1>5, <1>6, <1>8
<1>9. ASSUME NEW j \in DOMAIN q
      PROVE  /\ L + j \in DOMAIN committed' /\ committed'[L + j] = q[j]
             /\ L + j > L
  <2>1. /\ L + j \in 1..(L + Len(q)) /\ (L + j) - L = j /\ ~(L + j <= L)
    BY <1>4
  <2> QED
    BY <1>4, <1>5, <1>6, <2>1
<1>10. /\ \A c \in C : c.flush = k.flush
       /\ k.flush \in 1..flushes
       /\ \A n \in DOMAIN committed : committed[n].flush # k.flush
  BY <1>1, <1>2 DEF PerFlush, Flushing, OneEach, BInv, FlushesDiffer, OInv, LastOf
<1>11. \A j \in DOMAIN q : q[j].flush = k.flush /\ q[j].worker = w
  BY <1>3, <1>10 DEF Records, Tells
<1>12. \A n \in DOMAIN committed' : n \notin DOMAIN committed =>
         committed'[n].flush = k.flush /\ committed'[n].worker = w
  BY <1>8, <1>11
<1>13. CommitsOnce'
  <2>1. \A n \in DOMAIN committed' : committed'[n].flush \in 1..flushes
    BY <1>7, <1>10, <1>12 DEF OInv, CommitsOnce
  <2>2. ASSUME NEW n \in DOMAIN committed', NEW m \in DOMAIN committed',
               committed'[n].flush = committed'[m].flush,
               committed'[n].id = committed'[m].id
        PROVE  n = m
    <3>1. CASE n \in DOMAIN committed /\ m \in DOMAIN committed
      BY <1>7, <2>2, <3>1 DEF OInv, CommitsOnce
    <3>2. CASE n \notin DOMAIN committed /\ m \notin DOMAIN committed
      <4>1. /\ n - L \in DOMAIN q /\ m - L \in DOMAIN q
            /\ q[n - L].id = q[m - L].id /\ n \in Nat /\ m \in Nat
        BY <1>8, <2>2, <3>2
      <4>2. n - L = m - L
        BY <1>3, <4>1
      <4> QED
        BY <1>4, <4>1, <4>2
    <3>3. CASE n \in DOMAIN committed /\ m \notin DOMAIN committed
      BY <1>7, <1>10, <1>12, <2>2, <3>3
    <3>4. CASE n \notin DOMAIN committed /\ m \in DOMAIN committed
      BY <1>7, <1>10, <1>12, <2>2, <3>4
    <3> QED
      BY <3>1, <3>2, <3>3, <3>4
  <2> QED
    BY <1>1, <2>1, <2>2 DEF CommitsOnce
<1>13a. /\ C \subseteq ChangeT /\ \A c \in C : c.id \in Ids
        /\ x.read \in Nat /\ x.read <= L
        /\ \A n \in DOMAIN committed : committed[n].worker = w => n <= x.read
        /\ \A id \in Ids : \A a \in Columns : Reflects(x.loaded[id], x.read, id, a)
  BY <1>1 DEF WorkerT, ChangeT, Change, OInv, Snapshot
<1>13b. ASSUME NEW val, NEW s \in Nat, s <= L, NEW id \in Ids, NEW a \in Columns,
               Reflects(val, s, id, a)
        PROVE  \/ Same(rows'[id], val, a)
               \/ \E m \in DOMAIN committed' :
                    /\ s < m /\ committed'[m].landed
                    /\ committed'[m].id = id /\ a \in committed'[m].columns
  <2>1. CASE \E m \in DOMAIN committed :
               /\ s < m /\ committed[m].landed
               /\ committed[m].id = id /\ a \in committed[m].columns
    BY <1>7, <2>1
  <2>2. CASE Same(rows[id], val, a)
    <3>1. CASE \E c \in C : Landed(c) /\ c.id = id
      <4>1. PICK c \in C : Landed(c) /\ c.id = id
        BY <3>1
      <4>2. rows'[id] = Row(x, c) /\ c \in ChangeT
        BY <1>13a, <4>1, CommitRows
      <4>3. CASE a \in Written(x, c)
        <5>1. PICK j \in DOMAIN q : Records(c, w, q[j])
          BY <1>3
        <5>2. PICK m : m = L + j
          OBVIOUS
        <5>3. m \in DOMAIN committed' /\ committed'[m] = q[j] /\ s < m
          BY <1>4, <1>9, <1>13b, <5>2
        <5>4. q[j].landed /\ q[j].id = id /\ a \in q[j].columns
          BY <4>1, <4>3, <5>1 DEF Records, Tells
        <5> QED
          BY <5>3, <5>4
      <4>4. CASE a \notin Written(x, c)
        BY <2>2, <4>1, <4>2, <4>4, RowColumns
      <4> QED
        BY <4>3, <4>4
    <3>2. CASE ~\E c \in C : Landed(c) /\ c.id = id
      <4>1. rows'[id] = rows[id]
        BY <3>2, CommitRows
      <4> QED
        BY <2>2, <4>1
    <3> QED
      BY <3>1, <3>2
  <2> QED
    BY <1>13b, <2>1, <2>2 DEF Reflects
<1>13c. /\ \A n \in DOMAIN committed :
             committed[n].read \in Nat /\ committed[n].read < n /\ committed[n].id \in Ids
        /\ \A n \in DOMAIN committed : \A a \in Columns :
             Since(n, a) \in Nat /\ Since(n, a) <= L
  <2>1. \A n \in DOMAIN committed :
          committed[n].read \in Nat /\ committed[n].read < n /\ committed[n].id \in Ids
    <3>1. \A n \in DOMAIN committed : committed[n] \in CommitT
      BY <1>4, ElementOfSeq
    <3> QED
      BY <3>1 DEF CommitT, OInv, ReadFirst
  <2> QED
    BY <1>4, <2>1 DEF Since
<1>14. RowsReflect'
  <2> DEFINE since(n, a) == IF a \in committed'[n].columns THEN n ELSE committed'[n].read
  <2> SUFFICES ASSUME NEW n \in DOMAIN committed', committed'[n].landed, NEW a \in Columns
               PROVE  \/ Same(rows'[committed'[n].id], committed'[n].val, a)
                      \/ \E m \in DOMAIN committed' :
                           /\ since(n, a) < m /\ committed'[m].landed
                           /\ committed'[m].id = committed'[n].id
                           /\ a \in committed'[m].columns
    BY DEF RowsReflect, Reflects, Since, Same
  <2>1. CASE n \notin DOMAIN committed
    <3>1. PICK c \in C : Records(c, w, committed'[n])
      BY <1>3, <1>8, <2>1
    <3>2. /\ Landed(c) /\ c \in ChangeT /\ c.id = committed'[n].id
          /\ c.val = committed'[n].val /\ committed'[n].read = x.read
          /\ committed'[n].columns = Written(x, c) /\ c.id \in Ids
      BY <1>13a, <3>1 DEF Records, Tells
    <3>3. rows'[c.id] = Row(x, c)
      BY <3>2, CommitRows
    <3>4. CASE a \in Written(x, c)
      BY <3>2, <3>3, <3>4, RowColumns
    <3>5. CASE a \notin Written(x, c)
      <4>1. since(n, a) = x.read
        BY <3>2, <3>5
      <4>2. Reflects(x.loaded[c.id], x.read, c.id, a)
        BY <1>13a, <3>2
      <4>3. CASE Same(rows[c.id], x.loaded[c.id], a)
        <5>1. Same(Row(x, c), c.val, a)
          BY <3>2, <3>5, <4>3, RowColumns
        <5> QED
          BY <3>2, <3>3, <5>1
      <4>4. CASE ~Same(rows[c.id], x.loaded[c.id], a)
        BY <1>7, <3>2, <4>1, <4>2, <4>4 DEF Reflects
      <4> QED
        BY <4>3, <4>4
    <3> QED
      BY <3>4, <3>5
  <2>2. CASE n \in DOMAIN committed
    <3>1. /\ committed'[n] = committed[n] /\ since(n, a) = Since(n, a)
          /\ committed[n].id \in Ids /\ Since(n, a) \in Nat /\ Since(n, a) <= L
      BY <1>7, <1>13c, <2>2 DEF Since
    <3>2. Reflects(committed[n].val, Since(n, a), committed[n].id, a)
      BY <2>2, <3>1 DEF OInv, RowsReflect
    <3> HIDE DEF since
    <3> QED
      BY <1>13b, <3>1, <3>2
  <2> QED
    BY <2>1, <2>2
<1>14a. ReadFirst'
  <2>1. ASSUME NEW n \in DOMAIN committed'
        PROVE  committed'[n].read < n
    <3>1. CASE n \in DOMAIN committed
      BY <1>7, <1>13c, <3>1
    <3>2. CASE n \notin DOMAIN committed
      <4>1. committed'[n].read = x.read
        BY <1>3, <1>8, <3>2 DEF Records
      <4> QED
        BY <1>4, <1>8, <1>13a, <3>2, <4>1
    <3> QED
      BY <3>1, <3>2
  <2>2. ASSUME NEW n \in DOMAIN committed', NEW m \in DOMAIN committed',
               m < n, committed'[m].worker = committed'[n].worker,
               committed'[m].id = committed'[n].id
        PROVE  m <= committed'[n].read
    <3>1. CASE n \in DOMAIN committed
      <4>1. m \in DOMAIN committed
        BY <1>4, <1>6, <2>2, <3>1
      <4> QED
        BY <1>7, <2>2, <3>1, <4>1 DEF OInv, ReadFirst
    <3>2. CASE n \notin DOMAIN committed
      <4>1. committed'[n].read = x.read /\ committed'[n].worker = w
        BY <1>3, <1>8, <3>2 DEF Records
      <4>2. m \in DOMAIN committed
        <5>1. CASE m \notin DOMAIN committed
          <6>1. committed'[m].flush = committed'[n].flush
            BY <1>12, <3>2, <5>1
          <6>2. m = n
            BY <1>13, <2>2, <6>1 DEF CommitsOnce
          <6> QED
            BY <1>8, <2>2, <3>2, <6>2
        <5> QED
          BY <5>1
      <4>3. committed[m].worker = w
        BY <1>7, <2>2, <4>1, <4>2
      <4> QED
        BY <1>13a, <4>1, <4>2, <4>3
    <3> QED
      BY <3>1, <3>2
  <2> QED
    BY <2>1, <2>2 DEF ReadFirst
<1>14b. ASSUME NEW v \in Workers
        PROVE  Snapshot(v, worker[v])'
  <2>1. CASE v = w
    <3>1. worker'[v].pc = "committed"
      BY <1>1, <1>2, <2>1
    <3> QED
      BY <3>1 DEF Snapshot
  <2>2. CASE v # w
    <3>1. worker'[v] = worker[v] /\ worker[v] \in WorkerT
      BY <1>1, <2>2 DEF BInv, Typed
    <3>2. PICK y : y = worker[v]
      OBVIOUS
    <3>3. ASSUME y.pc \in {"loaded", "flushing"}
          PROVE  /\ y.read <= Len(committed')
                 /\ \A n \in DOMAIN committed' : committed'[n].worker = v => n <= y.read
                 /\ \A id \in Ids : \A a \in Columns : Reflects(y.loaded[id], y.read, id, a)
                 /\ y.read \in Nat /\ y.read <= L
      <4>1. /\ y.read <= L /\ y.read \in Nat
            /\ \A n \in DOMAIN committed : committed[n].worker = v => n <= y.read
            /\ \A id \in Ids : \A a \in Columns : Reflects(y.loaded[id], y.read, id, a)
        BY <3>1, <3>2, <3>3 DEF OInv, Snapshot, WorkerT
      <4>2. \A n \in DOMAIN committed' : committed'[n].worker = v =>
              n \in DOMAIN committed /\ committed[n].worker = v
        BY <1>7, <1>12, <2>2
      <4> QED
        BY <1>4, <1>5, <4>1, <4>2
    <3>4. ASSUME y.pc \in {"loaded", "flushing"}, NEW id \in Ids, NEW a \in Columns
          PROVE  \/ Same(rows'[id], y.loaded[id], a)
                 \/ \E m \in DOMAIN committed' :
                      /\ y.read < m /\ committed'[m].landed
                      /\ committed'[m].id = id /\ a \in committed'[m].columns
      <4>1. /\ y.read \in Nat /\ y.read <= L
            /\ Reflects(y.loaded[id], y.read, id, a)
        BY <3>3, <3>4
      <4> QED
        BY <1>13b, <4>1
    <3>5. worker'[v] = y
      BY <3>1, <3>2
    <3> HIDE DEF x, C, L
    <3> QED
      BY <3>3, <3>4, <3>5 DEF Snapshot, Reflects, Same
  <2> QED
    BY <2>1, <2>2
<1>15. HubInOrder'
  <2>1. ASSUME NEW i \in DOMAIN hub, NEW n \in DOMAIN committed',
               NEW m \in DOMAIN committed',
               Tells(hub[i], committed'[n]), n < m,
               committed'[m].id = committed'[n].id,
               committed'[m].worker = committed'[n].worker
        PROVE  hub[i].at < m
    <3>1. hub[i].at <= L /\ hub[i].at \in Nat
      <4>1. hub[i] \in MessageT
        BY ElementOfSeq, LenProperties DEF BInv, Typed
      <4> QED
        BY <4>1 DEF PerFlush, HubOnce, MessageT
    <3>2. CASE m \notin DOMAIN committed
      BY <1>4, <1>8, <3>1, <3>2
    <3>3. CASE m \in DOMAIN committed
      <4>1. n \in DOMAIN committed
        BY <1>4, <1>6, <2>1, <3>3
      <4> QED
        BY <1>7, <2>1, <3>3, <4>1 DEF OInv, HubInOrder
    <3> QED
      BY <3>2, <3>3
  <2> QED
    BY <1>1, <2>1 DEF OInv, HubInOrder, Tells
<1>16. ASSUME NEW v \in Workers
       PROVE  LastOf(v, worker[v])'
  <2>1. CASE v = w
    <3>1. \A n \in DOMAIN committed' : committed'[n].flush = k.flush =>
            /\ n > L /\ committed'[n].worker = w
            /\ \A m \in DOMAIN committed' : n < m => committed'[m].flush = k.flush
      <4>1. \A n \in DOMAIN committed' : committed'[n].flush = k.flush =>
              n \notin DOMAIN committed
        BY <1>7, <1>10
      <4>2. \A n, m \in DOMAIN committed' :
              n \notin DOMAIN committed /\ n < m => m \notin DOMAIN committed
        BY <1>4, <1>6
      <4> QED
        BY <1>8, <1>12, <4>1, <4>2
    <3>2. worker'[v] = k /\ v = w
      BY <1>1, <2>1
    <3> QED
      BY <1>2, <3>1, <3>2 DEF LastOf
  <2>2. CASE v # w
    <3>1. /\ worker'[v] = worker[v]
          /\ worker[v].pc # "idle" => worker[v].flush # k.flush
      BY <1>1, <1>2, <2>2 DEF BInv, FlushesDiffer
    <3>2. \A n \in DOMAIN committed' :
            worker[v].pc # "idle" /\ committed'[n].flush = worker[v].flush
              => n \in DOMAIN committed
      BY <1>12, <3>1
    <3>3. \A m \in DOMAIN committed' : committed'[m].worker = v => m \in DOMAIN committed
      BY <1>12, <2>2
    <3>4. LastOf(v, worker[v])
      BY DEF OInv
    <3>5. worker[v].pc \in {"loaded", "flushing"} =>
            \A n \in DOMAIN committed' : committed'[n].flush # worker[v].flush
      BY <1>7, <3>2, <3>4 DEF LastOf
    <3>6. ASSUME worker[v].pc \in {"committed", "publishing"},
                 NEW n \in DOMAIN committed', committed'[n].flush = worker[v].flush
          PROVE  /\ committed'[n].worker = v
                 /\ \A m \in DOMAIN committed' :
                      n < m /\ committed'[m].worker = v =>
                        committed'[m].flush = worker[v].flush
      <4>1. n \in DOMAIN committed /\ committed[n].flush = worker[v].flush
        BY <1>7, <3>2, <3>6
      <4> QED
        BY <1>7, <3>3, <3>4, <3>6, <4>1 DEF LastOf
    <3> QED
      BY <3>1, <3>5, <3>6 DEF LastOf
  <2> QED
    BY <2>1, <2>2
<1>17. ASSUME NEW v \in Workers
       PROVE  OnlyMercure(worker'[v])
  <2>1. CASE v = w
    <3>1. \A t \in Types : \A j \in DOMAIN k.stored[t] :
            j \in DOMAIN worker[w].stored[t] /\ k.stored[t][j].id = worker[w].stored[t][j].id
      BY <1>1, <1>2, NamedSame DEF WorkerT
    <3>2. OnlyMercure(worker[w])
      BY DEF OInv
    <3>3. OnlyMercure(k)
      BY <1>2, <3>1, <3>2 DEF OnlyMercure, ToSet
    <3> QED
      BY <1>1, <2>1, <3>3
  <2>2. CASE v # w
    BY <1>1, <2>2 DEF OInv
  <2> QED
    BY <2>1, <2>2
<1> QED
  BY <1>13, <1>14, <1>14a, <1>14b, <1>15, <1>16, <1>17 DEF OInv, OnlyMercure

-----------------------------------------------------------------------------
(* A publication                                                           *)

LEMMA PublishOrder ==
  ASSUME BInv, PerFlush, OInv, NEW w \in Workers, publishUpdate(w)
  PROVE  OInv'
<1>0. PICK k : k = [worker[w] EXCEPT !.queue = Tail(@)]
  OBVIOUS
<1> DEFINE q == worker[w].queue
           m == Message(Head(q))
<1>1. /\ worker[w] \in WorkerT /\ worker[w].pc = "publishing"
      /\ worker' = [worker EXCEPT ![w] = k] /\ hub' = Append(hub, m)
      /\ rows' = rows /\ committed' = committed /\ flushes' = flushes
      /\ worker'[w] = k /\ \A v \in Workers : v # w => worker'[v] = worker[v]
  BY <1>0 DEF publishUpdate, publishing, BInv, Typed
<1>2. q # <<>> /\ m \in MessageT
  BY PublishTyped
<1>3. q \in Seq(Change)
  BY <1>1 DEF WorkerT
<1>4. /\ Head(q) = q[1] /\ 1 \in DOMAIN q
      /\ \A c \in ToSet(Tail(q)) : c \in ToSet(q)
  <2> HIDE DEF q
  <2>1. Tail(q) \in Seq(Change) /\ Len(Tail(q)) = Len(q) - 1
    BY <1>2, <1>3, HeadTailProperties
  <2>2. Len(q) \in Nat /\ Len(q) # 0 /\ DOMAIN q = 1..Len(q)
    BY <1>2, <1>3, LenProperties, EmptySeq
  <2>3. DOMAIN Tail(q) = 1..(Len(q) - 1)
    BY <2>1, <2>2, LenProperties
  <2>4. \A i \in 1..(Len(q) - 1) : Tail(q)[i] = q[i + 1] /\ i + 1 \in DOMAIN q
    BY <1>3, <2>1, <2>2
  <2> QED
    BY <1>3, <2>2, <2>3, <2>4 DEF ToSet
<1>5. /\ k.pc = "publishing" /\ k.queue = Tail(q) /\ k.flush = worker[w].flush
      /\ k.stored = worker[w].stored
  BY <1>0, <1>1 DEF WorkerT
<1>6. /\ m.flush = k.flush /\ m.id = q[1].id /\ m.at = Len(committed)
  BY <1>1, <1>4, <1>5 DEF Message, PerFlush, Committed, Queued
<1>7. /\ hub \in Seq(MessageT) /\ Len(hub) \in Nat /\ DOMAIN hub = 1..Len(hub)
      /\ DOMAIN hub' = 1..(Len(hub) + 1) /\ hub'[Len(hub) + 1] = m
      /\ \A i \in 1..Len(hub) : hub'[i] = hub[i]
  <2>1. hub \in Seq(MessageT)
    BY DEF BInv, Typed
  <2> HIDE DEF m
  <2>2. /\ hub' \in Seq(MessageT) /\ Len(hub') = Len(hub) + 1
        /\ hub'[Len(hub) + 1] = m
        /\ \A i \in 1..Len(hub) : hub'[i] = hub[i]
    BY <1>1, <1>2, <2>1, AppendProperties
  <2> QED
    BY <2>1, <2>2, LenProperties
<1>8. Len(committed) \in Nat /\ DOMAIN committed = 1..Len(committed)
  BY LenProperties DEF BInv, Typed
<1>9. m.id \in Mercure
  <2>1. q[1] \in ToSet(q)
    BY <1>4 DEF ToSet
  <2> QED
    BY <1>6, <2>1 DEF OInv, OnlyMercure
<1> HIDE DEF q, m
<1>10. ASSUME NEW n \in DOMAIN committed, NEW l \in DOMAIN committed,
              Tells(m, committed[n]), n < l,
              committed[l].id = committed[n].id,
              committed[l].worker = committed[n].worker
       PROVE  FALSE
  <2>1. committed[n].flush = k.flush
    BY <1>6, <1>10 DEF Tells
  <2>2. committed[n].worker = w /\ committed[l].flush = k.flush
    BY <1>1, <1>5, <1>10, <2>1 DEF OInv, LastOf
  <2>3. n = l
    BY <1>10, <2>1, <2>2 DEF OInv, CommitsOnce
  <2> QED
    BY <1>8, <1>10, <2>3
<1>11. HubInOrder'
  <2>1. \A i \in DOMAIN hub' : hub'[i].id \in Mercure
    BY <1>7, <1>9 DEF OInv, HubInOrder
  <2>2. \A i \in DOMAIN hub : hub[i].at <= m.at
    BY <1>6 DEF PerFlush, HubOnce
  <2>3. \A i, j \in DOMAIN hub' : i <= j => hub'[i].at <= hub'[j].at
    <3>1. ASSUME NEW i \in DOMAIN hub', NEW j \in DOMAIN hub', i <= j
          PROVE  hub'[i].at <= hub'[j].at
      <4>1. CASE j \in DOMAIN hub
        <5>1. i \in DOMAIN hub
          BY <1>7, <3>1, <4>1
        <5> QED
          BY <1>7, <3>1, <4>1, <5>1 DEF OInv, HubInOrder
      <4>2. CASE j \notin DOMAIN hub
        <5>1. hub'[j] = m
          BY <1>7, <4>2
        <5>2. CASE i \in DOMAIN hub
          BY <1>7, <2>2, <5>1, <5>2
        <5>3. CASE i \notin DOMAIN hub
          <6>1. hub'[i] = m
            BY <1>7, <5>3
          <6> QED
            BY <1>6, <1>8, <5>1, <6>1
        <5> QED
          BY <5>2, <5>3
      <4> QED
        BY <4>1, <4>2
    <3> QED
      BY <3>1
  <2>4. ASSUME NEW i \in DOMAIN hub', NEW n \in DOMAIN committed,
               NEW l \in DOMAIN committed,
               Tells(hub'[i], committed[n]), n < l,
               committed[l].id = committed[n].id,
               committed[l].worker = committed[n].worker
        PROVE  hub'[i].at < l
    <3>1. CASE i \in DOMAIN hub
      BY <1>7, <2>4, <3>1 DEF OInv, HubInOrder
    <3>2. CASE i \notin DOMAIN hub
      <4>1. hub'[i] = m
        BY <1>7, <3>2
      <4> QED
        BY <1>10, <2>4, <4>1
    <3> QED
      BY <3>1, <3>2
  <2> QED
    BY <1>1, <2>1, <2>3, <2>4 DEF HubInOrder, Tells
<1>12. \A v \in Workers : LastOf(v, worker[v])'
  <2>1. LastOf(w, k)
    BY <1>1, <1>5 DEF OInv, LastOf
  <2>2. \A v \in Workers : LastOf(v, worker'[v])
    BY <1>1, <2>1 DEF OInv
  <2> QED
    BY <1>1, <2>2 DEF LastOf
<1>13. \A v \in Workers : OnlyMercure(worker'[v])
  <2>1. OnlyMercure(k)
    BY <1>4, <1>5 DEF OInv, OnlyMercure, q
  <2> QED
    BY <1>1, <2>1 DEF OInv
<1>14. CommitsOnce' /\ RowsReflect' /\ ReadFirst'
  BY <1>1 DEF OInv, CommitsOnce, RowsReflect, Reflects, Since, Same, ReadFirst
<1>15. \A v \in Workers : Snapshot(v, worker[v])'
  <2>1. Snapshot(w, k)
    BY <1>5 DEF Snapshot
  <2>2. \A v \in Workers : Snapshot(v, worker'[v])
    BY <1>1, <2>1 DEF OInv
  <2> QED
    BY <1>1, <2>2 DEF Snapshot, Reflects, Same
<1> QED
  BY <1>11, <1>12, <1>13, <1>14, <1>15 DEF OInv, OnlyMercure

-----------------------------------------------------------------------------
(* The invariant is inductive                                              *)

LEMMA InitOrder == Init => OInv
<1> SUFFICES ASSUME Init PROVE OInv
  OBVIOUS
<1>1. /\ worker = [w \in Workers |-> Idle] /\ hub = <<>> /\ committed = <<>>
  BY DEF Init
<1>2. DOMAIN hub = {} /\ DOMAIN committed = {}
  BY <1>1
<1>3. \A w \in Workers :
        LastOf(w, worker[w]) /\ OnlyMercure(worker[w]) /\ Snapshot(w, worker[w])
  BY <1>1, IdleOrder
<1> QED
  BY <1>2, <1>3 DEF OInv, RowsReflect, ReadFirst, CommitsOnce, HubInOrder

LEMMA NextOrder ==
  ASSUME ~LongRunning
  PROVE  MInv /\ OInv /\ [Next]_vars => OInv'
<1> SUFFICES ASSUME MInv, OInv, [Next]_vars PROVE OInv'
  OBVIOUS
<1>1. BInv /\ PerFlush
  BY DEF MInv
<1>2. CASE UNCHANGED vars
  <2>1. RowsReflect' /\ ReadFirst' /\ CommitsOnce' /\ HubInOrder'
    BY <1>2 DEF vars, OInv, RowsReflect, Reflects, Since, Same, ReadFirst,
       CommitsOnce, HubInOrder, Tells
  <2>2. \A w \in Workers : Snapshot(w, worker[w])'
    BY <1>2 DEF vars, OInv, Snapshot, Reflects, Same
  <2>3. \A w \in Workers : LastOf(w, worker[w])' /\ OnlyMercure(worker[w])'
    BY <1>2 DEF vars, OInv, LastOf, OnlyMercure
  <2> QED
    BY <2>1, <2>2, <2>3 DEF OInv
<1>3. CASE Next
  <2> SUFFICES ASSUME NEW w \in Workers,
                      \/ Load(w)
                      \/ \E D \in SUBSET Ids \ {{}} :
                           \E data \in [D -> Data \cup {None}] : onFlush(w, data)
                      \/ Commit(w) \/ CommitFails(w) \/ postFlush(w)
                      \/ publishUpdate(w) \/ PublishThrows(w) \/ PublishDone(w)
               PROVE  OInv'
    BY <1>3 DEF Next
  <2>1. CASE Load(w)
    BY <1>1, <2>1, LoadOrder
  <2>2. CASE \E D \in SUBSET Ids \ {{}} :
               \E data \in [D -> Data \cup {None}] : onFlush(w, data)
    <3>1. PICK D \in SUBSET Ids : \E data \in [D -> Data \cup {None}] : onFlush(w, data)
      BY <2>2
    <3>2. PICK data \in [D -> Data \cup {None}] : onFlush(w, data)
      BY <3>1
    <3> QED
      BY <1>1, <3>2, OnFlushOrder
  <2>3. CASE Commit(w)
    BY <1>1, <2>3, CommitOrder
  <2>4. CASE CommitFails(w) \/ PublishThrows(w) \/ PublishDone(w)
    BY <1>1, <2>4, EndOrder
  <2>5. CASE postFlush(w)
    BY <1>1, <2>5, PostFlushOrder
  <2>6. CASE publishUpdate(w)
    BY <1>1, <2>6, PublishOrder
  <2> QED
    BY <2>1, <2>2, <2>3, <2>4, <2>5, <2>6
<1> QED
  BY <1>2, <1>3

-----------------------------------------------------------------------------
(* Theorem                                                                 *)

(* When the listener ends with the process, who follows a resource ends    *)
(* with its current data, column by column, whatever flushes and workers   *)
(* there are, except where another worker wrote the column after the       *)
(* object was read and before its message, the row was gone, or the hub    *)
(* could not be reached.                                                   *)
THEOREM FollowerIsCurrent ==
  ASSUME ~LongRunning
  PROVE  Spec => []LastUpdateIsCurrent
<1>1. MInv /\ OInv => LastUpdateIsCurrent
  <2> SUFFICES ASSUME MInv, OInv, Quiescent, NEW i \in DOMAIN hub,
                      NEW a \in Columns,
                      ~\E j \in DOMAIN hub : j > i /\ hub[j].id = hub[i].id,
                      ~\E p \in lost : p.id = hub[i].id,
                      ~Overtaken(i, a), ~Missed(i)
               PROVE  Same(rows[hub[i].id], hub[i].val, a)
    BY DEF LastUpdateIsCurrent
  <2>1. PerFlush
    BY DEF MInv
  <2>2. /\ hub \in Seq(MessageT) /\ DOMAIN hub = 1..Len(hub) /\ Len(hub) \in Nat
        /\ DOMAIN committed = 1..Len(committed) /\ Len(committed) \in Nat
        /\ \A j \in DOMAIN hub : hub[j].at \in Nat /\ hub[j].at <= Len(committed)
    <3>1. hub \in Seq(MessageT) /\ committed \in Seq(CommitT)
      BY DEF MInv, BInv, Typed
    <3>2. DOMAIN hub = 1..Len(hub) /\ Len(hub) \in Nat
      BY <3>1, LenProperties
    <3>3. \A j \in DOMAIN hub : hub[j] \in MessageT
      BY <3>1, <3>2, ElementOfSeq
    <3> QED
      BY <2>1, <3>1, <3>2, <3>3, LenProperties DEF PerFlush, HubOnce, MessageT
  <2>3. PICK n \in 1..hub[i].at : Tells(hub[i], committed[n])
    BY <2>1 DEF PerFlush, PublishedWasCommitted
  <2>4. n \in DOMAIN committed
    BY <2>2, <2>3
  <2>5. committed[n].landed
    BY <2>3, <2>4 DEF Missed
  <2>6. committed[n].id = hub[i].id /\ committed[n].val = hub[i].val
    BY <2>3 DEF Tells
  <2>7. ASSUME NEW m \in DOMAIN committed, Since(n, a) < m,
               committed[m].landed, committed[m].id = hub[i].id,
               a \in committed[m].columns
        PROVE  FALSE
    <3>1. CASE m <= hub[i].at
      <4>1. m \in 1..hub[i].at
        BY <2>2, <2>7, <3>1
      <4>2. committed[m].worker = committed[n].worker
        BY <2>3, <2>7, <4>1 DEF Overtaken
      <4>3. ~(n < m)
        <5>1. n < m => hub[i].at < m
          BY <2>3, <2>4, <2>6, <2>7, <4>2 DEF OInv, HubInOrder
        <5> QED
          BY <2>2, <3>1, <5>1
      <4>4. m < n => m <= committed[n].read
        BY <2>4, <2>6, <2>7, <4>2 DEF OInv, ReadFirst
      <4>5. committed[n].read \in Nat
        <5>1. committed \in Seq(CommitT)
          BY DEF MInv, BInv, Typed
        <5>2. committed[n] \in CommitT
          BY <2>4, <5>1, ElementOfSeq
        <5> QED
          BY <5>2 DEF CommitT
      <4> QED
        BY <2>2, <2>4, <2>7, <4>3, <4>4, <4>5 DEF Since
    <3>2. CASE ~(m <= hub[i].at)
      <4>1. committed[m].id \in Mercure
        BY <2>7 DEF OInv, HubInOrder
      <4>2. Published(committed[m]) \/ Lost(committed[m])
        BY <2>1, <4>1 DEF PerFlush, Accounted, Pending, PendingBy, Quiescent
      <4>3. ~Lost(committed[m])
        BY <2>7 DEF Lost
      <4>4. PICK j \in DOMAIN hub : Tells(hub[j], committed[m])
        BY <4>2, <4>3 DEF Published
      <4>5. PICK l \in 1..hub[j].at : Tells(hub[j], committed[l])
        BY <2>1 DEF PerFlush, PublishedWasCommitted
      <4>6. l = m
        <5>1. l \in DOMAIN committed
          BY <2>2, <4>5
        <5> QED
          BY <4>4, <4>5, <5>1 DEF Tells, OInv, CommitsOnce
      <4>7. j <= i
        BY <2>2, <2>7, <4>4 DEF Tells
      <4>8. hub[j].at <= hub[i].at
        BY <4>7 DEF OInv, HubInOrder
      <4> QED
        BY <2>2, <3>2, <4>5, <4>6, <4>8
    <3> QED
      BY <3>1, <3>2
  <2> QED
    BY <2>4, <2>5, <2>6, <2>7 DEF OInv, RowsReflect, Reflects
<1>2. Spec => [](MInv /\ OInv)
  <2>1. Init => MInv /\ OInv
    BY InitInv, InitOrder
  <2>2. MInv /\ OInv /\ [Next]_vars => (MInv /\ OInv)'
    BY NextInv, NextOrder
  <2> QED
    BY <2>1, <2>2, PTL DEF Spec
<1> QED
  BY <1>1, <1>2, PTL
=============================================================================
