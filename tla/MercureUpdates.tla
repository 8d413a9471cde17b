---------------------------- MODULE MercureUpdates ----------------------------
(***************************************************************************)
(* Updates pushed to the Mercure hub. When Doctrine flushes, the           *)
(* PublishMercureUpdatesListener of the PHP worker stores the objects that *)
(* are created, updated and deleted; once the flush is committed it sends  *)
(* one update for each of them to the hub.                                 *)
(***************************************************************************)
EXTENDS Naturals, Sequences, FiniteSets, SequencesExt

CONSTANTS
  Workers,     \* PHP workers, each with its entity manager and its listener
  Ids,         \* identifiers of the resources
  Mercure,     \* the resources whose "mercure" attribute is not false
  Columns,     \* the columns of a row
  Vals,        \* the values of a column
  None,        \* no resource; the data of an update about a deleted one
  AssignedIds, \* whether an object has its identifier before its insertion
  LongRunning, \* whether the process of a worker outlives its requests
  MaxFlushes   \* bound: flushes in a behaviour

(* The data of a resource.                                                 *)
Data == [Columns -> Vals]

ASSUME ConstantsAssumption ==
  /\ IsFiniteSet(Ids) /\ Mercure \subseteq Ids
  /\ None \notin Data
  /\ AssignedIds \in BOOLEAN /\ LongRunning \in BOOLEAN
  /\ MaxFlushes \in Nat

VARIABLES
  rows,      \* the committed resources
  worker,    \* per worker: its unit of work, and the objects stored
  hub,       \* history: the updates the hub received, in order
  committed, \* history: the changes committed, in order
  lost,      \* history: changes whose publication failed
  flushes    \* flushes started so far

vars == <<rows, worker, hub, committed, lost, flushes>>

(* An object stored by the listener in flush number n. An object without   *)
(* identifier has no IRI.                                                  *)
Change ==
  [flush : 1..MaxFlushes, type : {"create", "update", "delete"}, id : Ids,
   val : Data \cup {None}, named : BOOLEAN]

Types == {"create", "update", "delete"}

reset == [t \in Types |-> <<>>]

Idle == [pc |-> "idle", flush |-> 0, loaded |-> [i \in Ids |-> None],
         read |-> 0, changes |-> {}, stored |-> reset, queue |-> <<>>]

Init ==
  /\ rows \in [Ids -> Data \cup {None}]
  /\ worker = [w \in Workers |-> Idle]
  /\ hub = <<>>
  /\ committed = <<>>
  /\ lost = {}
  /\ flushes = 0

-----------------------------------------------------------------------------

(* "read" is the number of changes committed when the objects were read.   *)
Load(w) ==
  /\ worker[w].pc = "idle"
  /\ flushes < MaxFlushes
  /\ flushes' = flushes + 1
  /\ worker' = [worker EXCEPT ![w] =
       [worker[w] EXCEPT !.pc = "loaded", !.flush = flushes', !.loaded = rows,
                         !.read = Len(committed)]]
  /\ UNCHANGED <<rows, hub, committed, lost>>

typeOf(old, new) ==
  IF old = None THEN "create" ELSE IF new = None THEN "delete" ELSE "update"

(* The changes the unit of work has scheduled: resource -> new data.       *)
Scheduled(k, data) ==
  {[flush |-> k.flush, type |-> typeOf(k.loaded[i], data[i]), id |-> i,
    val |-> data[i], named |-> AssignedIds \/ k.loaded[i] # None] :
     i \in DOMAIN data}

(* Fault: the objects the unit of work deletes are not stored.             *)
storeObjectToKeep(stored, changes) ==
  [t \in Types |-> stored[t] \o
     SetToSeq({c \in changes : c.type = t /\ t # "delete" /\ c.id \in Mercure})]

(* Fault: the objects that are created are stored as updated ones too.     *)
storeObjectTwice(stored, changes) ==
  [t \in Types |-> stored[t] \o
     SetToSeq({c \in changes : /\ c.id \in Mercure
                               /\ c.type = t \/ {c.type, t} = {"create", "update"}})]

(* The objects of resources published on Mercure, after those already      *)
(* stored.                                                                 *)
storeObjectToPublish(stored, changes) ==
  [t \in Types |-> stored[t] \o
     SetToSeq({c \in changes : c.type = t /\ c.id \in Mercure})]

onFlush(w, data) ==
  LET k == worker[w]
  IN  /\ k.pc = "loaded"
      /\ \A i \in DOMAIN data : data[i] # k.loaded[i]
      /\ worker' = [worker EXCEPT ![w] =
           [k EXCEPT !.pc = "flushing", !.changes = Scheduled(k, data),
                     !.stored = storeObjectToPublish(@, Scheduled(k, data))]]
      /\ UNCHANGED <<rows, hub, committed, lost, flushes>>

(* An inserted object has its identifier.                                  *)
Named(stored, n) ==
  [t \in Types |->
     [j \in DOMAIN stored[t] |->
        [stored[t][j] EXCEPT !.named = @ \/ stored[t][j].flush = n]]]

(* An UPDATE or a DELETE of a row that is gone matches nothing.            *)
Landed(c) == c.type = "create" \/ rows[c.id] # None

(* The columns an object is written with: all of them, but only those that *)
(* differ from what was read when it is updated.                           *)
Written(k, c) ==
  IF c.type = "update"
  THEN {a \in Columns : k.loaded[c.id][a] # c.val[a]} ELSE Columns

(* What a change that matches its row leaves there.                        *)
Row(k, c) ==
  IF c.type = "update"
  THEN [a \in Columns |-> IF a \in Written(k, c) THEN c.val[a] ELSE rows[c.id][a]]
  ELSE c.val

(* The history tells who made each change, when it had read the row, which *)
(* columns it wrote and whether it matched a row.                          *)
Commit(w) ==
  LET k == worker[w]
      landed == {c \in k.changes : Landed(c)}
      record(c) == [worker |-> w, flush |-> c.flush, type |-> c.type, id |-> c.id,
                    val |-> c.val, landed |-> c \in landed,
                    columns |-> Written(k, c), read |-> k.read]
  IN  /\ k.pc = "flushing"
      /\ \A c \in k.changes : c.type = "create" => rows[c.id] = None
      /\ rows' = [i \in Ids |->
           IF \E c \in landed : c.id = i
           THEN Row(k, CHOOSE c \in landed : c.id = i) ELSE rows[i]]
      /\ committed' = committed \o SetToSeq({record(c) : c \in k.changes})
      /\ worker' = [worker EXCEPT ![w] =
           [k EXCEPT !.pc = "committed", !.stored = Named(@, k.flush)]]
      /\ UNCHANGED <<hub, lost, flushes>>

(* There is no postFlush event: the listener still stores the objects. The *)
(* listener ends with the process.                                         *)
CommitFails(w) ==
  /\ worker[w].pc = "flushing"
  /\ worker' = [worker EXCEPT ![w] =
       IF LongRunning THEN [Idle EXCEPT !.stored = worker[w].stored] ELSE Idle]
  /\ UNCHANGED <<rows, hub, committed, lost, flushes>>

(* Fault: the objects are published as soon as they are stored.            *)
postFlushEarly(w) ==
  /\ worker[w].pc \in {"flushing", "committed"}
  /\ worker' = [worker EXCEPT ![w] =
       [worker[w] EXCEPT !.pc = "publishing",
          !.queue = worker[w].stored["create"] \o worker[w].stored["update"]
                      \o worker[w].stored["delete"]]]
  /\ UNCHANGED <<rows, hub, committed, lost, flushes>>

(* The created objects come first, then the updated, then the deleted.     *)
postFlush(w) ==
  /\ worker[w].pc = "committed"
  /\ worker' = [worker EXCEPT ![w] =
       [worker[w] EXCEPT !.pc = "publishing",
          !.queue = worker[w].stored["create"] \o worker[w].stored["update"]
                      \o worker[w].stored["delete"]]]
  /\ UNCHANGED <<rows, hub, committed, lost, flushes>>

publishing(w) == worker[w].pc = "publishing" /\ worker[w].queue # <<>>

Message(c) ==
  [flush |-> c.flush, type |-> c.type, id |-> c.id, val |-> c.val,
   at |-> Len(committed)]

publishUpdate(w) ==
  /\ publishing(w)
  /\ Head(worker[w].queue).named
  /\ hub' = Append(hub, Message(Head(worker[w].queue)))
  /\ worker' = [worker EXCEPT ![w] = [worker[w] EXCEPT !.queue = Tail(@)]]
  /\ UNCHANGED <<rows, committed, lost, flushes>>

(* The IRI cannot be generated, or the hub cannot be reached: the objects  *)
(* that remain are forgotten with the others.                              *)
PublishThrows(w) ==
  /\ publishing(w)
  /\ worker' = [worker EXCEPT ![w] = Idle]
  /\ lost' = lost \cup {[flush |-> c.flush, id |-> c.id] : c \in ToSet(worker[w].queue)}
  /\ UNCHANGED <<rows, hub, committed, flushes>>

(* Fault: the objects published are still stored.                          *)
PublishDoneKept(w) ==
  /\ worker[w].pc = "publishing" /\ worker[w].queue = <<>>
  /\ worker' = [worker EXCEPT ![w] = [Idle EXCEPT !.stored = worker[w].stored]]
  /\ UNCHANGED <<rows, hub, committed, lost, flushes>>

PublishDone(w) ==
  /\ worker[w].pc = "publishing" /\ worker[w].queue = <<>>
  /\ worker' = [worker EXCEPT ![w] = Idle]
  /\ UNCHANGED <<rows, hub, committed, lost, flushes>>

Next ==
  \E w \in Workers :
    \/ Load(w)
    \/ \E D \in SUBSET Ids \ {{}} : \E data \in [D -> Data \cup {None}] :
         onFlush(w, data)
    \/ Commit(w)
    \/ CommitFails(w)
    \/ postFlush(w)
    \/ publishUpdate(w)
    \/ PublishThrows(w)
    \/ PublishDone(w)

Spec == Init /\ [][Next]_vars

-----------------------------------------------------------------------------
(* Properties                                                              *)

(* Types of the state; what is stored is sorted by kind of change.         *)
TypeOK ==
  /\ rows \in [Ids -> Data \cup {None}]
  /\ \A w \in Workers :
       /\ worker[w].pc \in {"idle", "loaded", "flushing", "committed", "publishing"}
       /\ worker[w].flush \in 0..MaxFlushes
       /\ worker[w].changes \subseteq Change
       /\ \A t \in Types : \A j \in DOMAIN worker[w].stored[t] :
            worker[w].stored[t][j] \in Change /\ worker[w].stored[t][j].type = t
       /\ \A j \in DOMAIN worker[w].queue : worker[w].queue[j] \in Change
  /\ flushes \in 0..MaxFlushes

Tells(m, c) ==
  m.flush = c.flush /\ m.type = c.type /\ m.id = c.id /\ m.val = c.val

(* "Publishes updates for changes collected on flush": an update on the    *)
(* hub tells a change that was committed before, never one of a flush that *)
(* failed.                                                                 *)
PublishedWasCommitted ==
  \A i \in DOMAIN hub : \E n \in 1..hub[i].at : Tells(hub[i], committed[n])

Quiescent == \A w \in Workers : worker[w].pc = "idle"

(* Every committed change of a published resource is on the hub once,      *)
(* unless its publication failed: at most once then.                       *)
CommittedIsPublished ==
  Quiescent =>
    \A n \in DOMAIN committed :
      LET c == committed[n]
          times == Cardinality({i \in DOMAIN hub : Tells(hub[i], c)})
      IN  c.id \in Mercure =>
            times = 1 \/ (times = 0 /\ [flush |-> c.flush, id |-> c.id] \in lost)

(* The number of changes committed when change n had its value of a        *)
(* column: the change wrote it, or its object was read with it.            *)
Since(n, a) == IF a \in committed[n].columns THEN n ELSE committed[n].read

(* Another worker wrote the column between that moment and message i.      *)
Overtaken(i, a) ==
  \E n, m \in 1..hub[i].at :
    /\ Tells(hub[i], committed[n])
    /\ Since(n, a) < m
    /\ committed[m].id = hub[i].id /\ committed[m].worker # committed[n].worker
    /\ committed[m].landed /\ a \in committed[m].columns

(* The commit message i tells has changed no row, which was gone.          *)
Missed(i) ==
  \E n \in DOMAIN committed :
    Tells(hub[i], committed[n]) /\ ~committed[n].landed

Same(x, y, a) == IF x = None \/ y = None THEN x = y ELSE x[a] = y[a]

(* Who follows a resource ends with its current data, column by column.    *)
(* An update tells the object of its worker, which shows a column as it    *)
(* was when the object was read: what another worker wrote there since is  *)
(* the exception, with a hub that could not be reached and a row that was  *)
(* gone.                                                                   *)
LastUpdateIsCurrent ==
  Quiescent =>
    \A i \in DOMAIN hub : \A a \in Columns :
      LET id == hub[i].id
      IN  \/ \E j \in DOMAIN hub : j > i /\ hub[j].id = id
          \/ \E p \in lost : p.id = id
          \/ Overtaken(i, a)
          \/ Missed(i)
          \/ Same(rows[id], hub[i].val, a)
=============================================================================
