---------------------- MODULE SubscriptionManager_proofs ----------------------
(***************************************************************************)
(* For any number of workers: a cached list never holds a selection twice, *)
(* and the list about which no two requests ran at once keeps its entries  *)
(* and has its subscribers told what differs.                              *)
(***************************************************************************)
EXTENDS SubscriptionManager, SortedSets_proofs

Distinct(items) ==
  \A i, j \in DOMAIN items : items[i].fields = items[j].fields => i = j

(* A request being handled has a resource, and what it was given to save.  *)
RequestTyped(r) ==
  /\ DOMAIN r = {"pc", "iri", "fields", "result", "items", "object",
                 "payloads"}
  /\ r.pc \in {"idle", "normalized", "fetched", "loaded", "flushed",
               "publishing"}
  /\ r.pc # "idle" => r.iri \in Iris
  /\ r.pc \in {"normalized", "fetched"} =>
       /\ r.fields \in Selections
       /\ r.result \in [r.fields \cap Attrs -> Vals]

(* Between its read and its save, a request holds a list of distinct       *)
(* selections, its own not among them.                                     *)
FetchedDistinct(r) ==
  r.pc = "fetched" =>
    /\ r.items \in Seq(Entries)
    /\ Distinct(r.items)
    /\ \A i \in DOMAIN r.items : r.items[i].fields # r.fields

RequestInv(r) == RequestTyped(r) /\ FetchedDistinct(r)

WorkersInv ==
  /\ DOMAIN worker = Workers
  /\ \A w \in Workers : RequestInv(worker[w])

PoolInv ==
  /\ pool \in [Keys -> Seq(Entries)]
  /\ \A k \in Keys : Distinct(pool[k])

StoreInv ==
  /\ stored \in [Iris -> Value]
  /\ requests \in 0..MaxRequests

IInv == StoreInv /\ PoolInv /\ WorkersInv

-----------------------------------------------------------------------------
(* Lemmas                                                                  *)

(* The key of a resource's list is a key of the pool.                      *)
LEMMA KeyOfIri == \A iri \in Iris : encodeIriToCacheKey(iri) \in Keys
  BY DEF Keys

(* What SaveSubscription appends is an entry of the type read back.        *)
LEMMA EntryTyped ==
  ASSUME NEW f \in Selections, NEW res \in [f \cap Attrs -> Vals]
  PROVE  Entry(f, res) \in Entries /\ Entry(f, res).fields = f
  BY DEF Entry, Entries

(* Appending an entry whose selection is new keeps the selections distinct. *)
LEMMA AppendDistinct ==
  ASSUME NEW items \in Seq(Entries), NEW e \in Entries, Distinct(items),
         \A i \in DOMAIN items : items[i].fields # e.fields
  PROVE  Append(items, e) \in Seq(Entries) /\ Distinct(Append(items, e))
<1>1. Append(items, e) \in Seq(Entries)
  OBVIOUS
<1>2. /\ DOMAIN Append(items, e) = 1..(Len(items) + 1)
      /\ DOMAIN items = 1..Len(items)
      /\ Append(items, e)[Len(items) + 1] = e
      /\ \A i \in 1..Len(items) : Append(items, e)[i] = items[i]
  OBVIOUS
<1>3. ASSUME NEW i \in DOMAIN Append(items, e),
             NEW j \in DOMAIN Append(items, e),
             Append(items, e)[i].fields = Append(items, e)[j].fields
      PROVE  i = j
  <2>1. CASE i \in 1..Len(items) /\ j \in 1..Len(items)
    BY <1>2, <1>3, <2>1 DEF Distinct
  <2>2. CASE i = Len(items) + 1 /\ j \in 1..Len(items)
    BY <1>2, <1>3, <2>2
  <2>3. CASE i \in 1..Len(items) /\ j = Len(items) + 1
    BY <1>2, <1>3, <2>3
  <2>4. CASE i = Len(items) + 1 /\ j = Len(items) + 1
    BY <2>4
  <2>5. Len(items) \in Nat
    OBVIOUS
  <2> QED
    BY <1>2, <2>1, <2>2, <2>3, <2>4, <2>5
<1> QED
  BY <1>1, <1>3 DEF Distinct

(* Only the worker that takes the step changes.                            *)
LEMMA OneWorker ==
  ASSUME WorkersInv, NEW w \in Workers, NEW r,
         worker' = [worker EXCEPT ![w] = r], RequestInv(r)
  PROVE  WorkersInv'
  BY DEF WorkersInv

-----------------------------------------------------------------------------
(* The invariant is inductive                                              *)

(* The invariant holds at first.                                           *)
LEMMA InitInv == Init => IInv
<1> SUFFICES ASSUME Init PROVE IInv
  OBVIOUS
<1>1. StoreInv
  BY ConstantsAssumption DEF Init, StoreInv, Value
<1>2. PoolInv
  BY DEF Init, PoolInv, Distinct
<1>3. WorkersInv
  BY DEF Init, WorkersInv, RequestInv, RequestTyped, FetchedDistinct, Idle
<1> QED
  BY <1>1, <1>2, <1>3 DEF IInv

(* Every step keeps it, whatever the other workers do.                     *)
LEMMA NextInv == IInv /\ [Next]_vars => IInv'
<1> SUFFICES ASSUME IInv, [Next]_vars PROVE IInv'
  OBVIOUS
<1> USE DEF IInv
<1>1. ASSUME NEW w \in Workers, NEW iri \in Iris, NEW fields \in Selections,
             Subscribe(w, iri, fields)
      PROVE  IInv'
  <2> DEFINE r == [Idle EXCEPT !.pc = "normalized", !.iri = iri,
                     !.fields = fields,
                     !.result = Normalize(fields, stored[iri])]
  <2>1. Normalize(fields, stored[iri]) \in [fields \cap Attrs -> Vals]
    BY DEF Normalize, StoreInv, Value
  <2>2. RequestInv(r)
    BY <2>1 DEF RequestInv, RequestTyped, FetchedDistinct, Idle
  <2>3. WorkersInv'
    BY <1>1, <2>2, OneWorker DEF Subscribe
  <2> QED
    BY <1>1, <2>3, ConstantsAssumption DEF Subscribe, Start, StoreInv, PoolInv
<1>2. ASSUME NEW w \in Workers, SubscriptionKnown(w)
      PROVE  IInv'
  <2>1. RequestInv(Idle)
    BY DEF RequestInv, RequestTyped, FetchedDistinct, Idle
  <2>2. WorkersInv'
    BY <1>2, <2>1, OneWorker DEF SubscriptionKnown, Answer
  <2> QED
    BY <1>2, <2>2 DEF SubscriptionKnown, StoreInv, PoolInv
<1>3. ASSUME NEW w \in Workers, SubscriptionUnknown(w)
      PROVE  IInv'
  <2> DEFINE items == pool[encodeIriToCacheKey(worker[w].iri)]
             r == [worker[w] EXCEPT !.pc = "fetched", !.items = items]
  <2>1. RequestInv(worker[w]) /\ worker[w].pc = "normalized"
    BY <1>3 DEF WorkersInv, SubscriptionUnknown
  <2>2. encodeIriToCacheKey(worker[w].iri) \in Keys
    BY <2>1, KeyOfIri DEF RequestInv, RequestTyped
  <2>3. /\ items \in Seq(Entries) /\ Distinct(items)
        /\ \A i \in DOMAIN items : items[i].fields # worker[w].fields
    BY <1>3, <2>2 DEF PoolInv, SubscriptionUnknown
  <2>4. RequestInv(r)
    BY <2>1, <2>3 DEF RequestInv, RequestTyped, FetchedDistinct
  <2>5. worker' = [worker EXCEPT ![w] = r]
    BY <1>3 DEF SubscriptionUnknown
  <2>6. WorkersInv'
    BY <2>4, <2>5, OneWorker
  <2> QED
    BY <1>3, <2>6 DEF SubscriptionUnknown, StoreInv, PoolInv
<1>4. ASSUME NEW w \in Workers, SaveSubscription(w)
      PROVE  IInv'
  <2> DEFINE e == Entry(worker[w].fields, worker[w].result)
             k == encodeIriToCacheKey(worker[w].iri)
  <2>1. RequestInv(worker[w]) /\ worker[w].pc = "fetched"
    BY <1>4 DEF WorkersInv, SaveSubscription
  <2>2. k \in Keys
    BY <2>1, KeyOfIri DEF RequestInv, RequestTyped
  <2>3. e \in Entries /\ e.fields = worker[w].fields
    BY <2>1, EntryTyped DEF RequestInv, RequestTyped
  <2>4. /\ Append(worker[w].items, e) \in Seq(Entries)
        /\ Distinct(Append(worker[w].items, e))
    BY <2>1, <2>3, AppendDistinct DEF RequestInv, FetchedDistinct
  <2>5. pool' = [pool EXCEPT ![k] = Append(worker[w].items, e)]
    BY <1>4 DEF SaveSubscription
  <2>6. PoolInv'
    BY <2>2, <2>4, <2>5 DEF PoolInv
  <2>7. RequestInv(Idle)
    BY DEF RequestInv, RequestTyped, FetchedDistinct, Idle
  <2>8. WorkersInv'
    BY <1>4, <2>7, OneWorker DEF SaveSubscription, Answer
  <2> QED
    BY <1>4, <2>6, <2>8 DEF SaveSubscription, StoreInv
<1>5. ASSUME NEW w \in Workers, NEW iri \in Iris, Load(w, iri)
      PROVE  IInv'
  <2>1. RequestInv([Idle EXCEPT !.pc = "loaded", !.iri = iri,
                                !.object = stored[iri]])
    BY DEF RequestInv, RequestTyped, FetchedDistinct, Idle
  <2>2. WorkersInv'
    BY <1>5, <2>1, OneWorker DEF Load
  <2> QED
    BY <1>5, <2>2, ConstantsAssumption DEF Load, Start, StoreInv, PoolInv
<1>6. ASSUME NEW w \in Workers, NEW a \in Attrs, NEW v \in Vals,
             Flush(w, a, v)
      PROVE  IInv'
  <2>1. RequestInv(worker[w]) /\ worker[w].pc = "loaded"
    BY <1>6 DEF WorkersInv, Flush
  <2> DEFINE r == [worker[w] EXCEPT !.pc = "flushed", !.object[a] = v]
  <2>2. RequestInv(r)
    BY <2>1 DEF RequestInv, RequestTyped, FetchedDistinct
  <2>3. worker' = [worker EXCEPT ![w] = r]
    BY <1>6 DEF Flush
  <2>4. WorkersInv'
    BY <2>2, <2>3, OneWorker
  <2>5. StoreInv'
    BY <1>6, <2>1 DEF Flush, StoreInv, Value, RequestInv, RequestTyped
  <2> QED
    BY <1>6, <2>4, <2>5 DEF Flush, PoolInv
<1>7. ASSUME NEW w \in Workers, getPushPayloads(w)
      PROVE  IInv'
  <2>1. RequestInv(worker[w]) /\ worker[w].pc = "flushed"
    BY <1>7 DEF WorkersInv, getPushPayloads
  <2> DEFINE payloads == Payloads(pool[encodeIriToCacheKey(worker[w].iri)],
                                  worker[w].object)
             r == [worker[w] EXCEPT !.pc = "publishing", !.payloads = payloads]
  <2>2. RequestInv(r)
    <3> HIDE DEF payloads
    <3> QED BY <2>1 DEF RequestInv, RequestTyped, FetchedDistinct
  <2>3. worker' = [worker EXCEPT ![w] = r]
    BY <1>7 DEF getPushPayloads
  <2>4. WorkersInv'
    BY <2>2, <2>3, OneWorker
  <2> QED
    BY <1>7, <2>4 DEF getPushPayloads, StoreInv, PoolInv
<1>8. ASSUME NEW w \in Workers, Publish(w)
      PROVE  IInv'
  <2>1. RequestInv(worker[w]) /\ worker[w].pc = "publishing"
    BY <1>8 DEF WorkersInv, Publish
  <2> DEFINE r == [worker[w] EXCEPT !.payloads = Tail(@)]
  <2>2. RequestInv(r)
    BY <2>1 DEF RequestInv, RequestTyped, FetchedDistinct
  <2>3. worker' = [worker EXCEPT ![w] = r]
    BY <1>8 DEF Publish
  <2>4. WorkersInv'
    BY <2>2, <2>3, OneWorker
  <2> QED
    BY <1>8, <2>4 DEF Publish, StoreInv, PoolInv
<1>9. ASSUME NEW w \in Workers, Respond(w)
      PROVE  IInv'
  <2>1. RequestInv(Idle)
    BY DEF RequestInv, RequestTyped, FetchedDistinct, Idle
  <2>2. WorkersInv'
    BY <1>9, <2>1, OneWorker DEF Respond
  <2> QED
    BY <1>9, <2>2 DEF Respond, StoreInv, PoolInv
<1>10. ASSUME NEW w \in Workers, PublishThrows(w)
      PROVE  IInv'
  <2>1. RequestInv(Idle)
    BY DEF RequestInv, RequestTyped, FetchedDistinct, Idle
  <2>2. WorkersInv'
    BY <1>10, <2>1, OneWorker DEF PublishThrows
  <2> QED
    BY <1>10, <2>2 DEF PublishThrows, StoreInv, PoolInv
<1>11. CASE UNCHANGED vars
  BY <1>11 DEF vars, StoreInv, PoolInv, WorkersInv
<1> QED
  BY <1>1, <1>2, <1>3, <1>4, <1>5, <1>6, <1>7, <1>8, <1>9, <1>10, <1>11 DEF Next

-----------------------------------------------------------------------------
(* Theorems                                                                *)

(* It holds in every reachable state.                                      *)
LEMMA AlwaysInv == Spec => []IInv
  BY InitInv, NextInv, PTL DEF Spec

(* The state keeps its types, the cached entries included: what a worker   *)
(* reads back from the pool is an entry of one of the selections.          *)
THEOREM TypeCorrect == Spec => []TypeOK
<1>1. IInv => TypeOK
  <2> SUFFICES ASSUME IInv PROVE TypeOK
    OBVIOUS
  <2>1. stored \in [Iris -> Value] /\ requests \in 0..MaxRequests
    BY DEF IInv, StoreInv
  <2>2. DOMAIN pool = Keys /\ \A k \in Keys : pool[k] \in Seq(Entries)
    BY DEF IInv, PoolInv
  <2>3. \A k \in Keys : \A i \in DOMAIN pool[k] : pool[k][i] \in Entries
    BY <2>2
  <2>4. \A w \in Workers :
          worker[w].pc \in {"idle", "normalized", "fetched", "loaded",
                            "flushed", "publishing"}
    BY DEF IInv, WorkersInv, RequestInv, RequestTyped
  <2> QED
    BY <2>1, <2>2, <2>3, <2>4 DEF TypeOK
<1> QED
  BY <1>1, AlwaysInv, PTL

(* Whatever the number of workers and the interleaving of their reads and  *)
(* saves, the cached list of a resource never holds a selection twice.     *)
THEOREM NoDuplicateSelection == Spec => []SelectionsDistinct
<1>1. IInv => SelectionsDistinct
  BY DEF IInv, PoolInv, Distinct, SelectionsDistinct
<1> QED
  BY <1>1, AlwaysInv, PTL

-----------------------------------------------------------------------------
(* The lists about which no two requests ran at once                       *)

Key(r) == encodeIriToCacheKey(r.iri)

(* Two requests in progress are about different lists, or are recorded.    *)
Alone ==
  \A v, w \in Workers :
    /\ worker[v].pc # "idle" /\ worker[w].pc # "idle"
    /\ Key(worker[v]) = Key(worker[w])
    => v = w \/ Key(worker[w]) \in overlapped

(* The list a request is about to extend is the one in the pool.           *)
Unmoved(r) ==
  r.pc = "fetched" => Key(r) \in overlapped \/ r.items = pool[Key(r)]

Listed(s) ==
  /\ s.iri \in Iris
  /\ Key(s) \in overlapped \/ Registered(s)

RInv ==
  /\ Alone
  /\ \A s \in answered : Listed(s)
  /\ \A w \in Workers : Unmoved(worker[w])

(* A request that goes on about the resource it began with.                *)
LEMMA AloneGoesOn ==
  ASSUME WorkersInv, Alone, NEW w \in Workers, NEW q,
         worker' = [worker EXCEPT ![w] = q], overlapped \in SUBSET overlapped',
         q.pc = "idle" \/ (worker[w].pc # "idle" /\ q.iri = worker[w].iri)
  PROVE  Alone'
<1>1. worker'[w] = q /\ \A v \in Workers \ {w} : worker'[v] = worker[v]
  BY DEF WorkersInv
<1> SUFFICES ASSUME NEW u \in Workers, NEW v \in Workers, u # v,
                    worker'[u].pc # "idle", worker'[v].pc # "idle",
                    Key(worker'[u]) = Key(worker'[v])
             PROVE  Key(worker'[v]) \in overlapped'
  BY DEF Alone, Key
<1>2. /\ worker[u].pc # "idle" /\ Key(worker[u]) = Key(worker'[u])
      /\ worker[v].pc # "idle" /\ Key(worker[v]) = Key(worker'[v])
  BY <1>1 DEF Key
<1> QED
  BY <1>2 DEF Alone

(* A request that begins is recorded when another one is about its list.   *)
LEMMA AloneBegins ==
  ASSUME WorkersInv, Alone, NEW w \in Workers, NEW iri, NEW q, Start(w, iri),
         worker' = [worker EXCEPT ![w] = q], q.iri = iri
  PROVE  Alone' /\ overlapped \in SUBSET overlapped'
<1>1. worker'[w] = q /\ \A v \in Workers \ {w} : worker'[v] = worker[v]
  BY DEF WorkersInv
<1>2. /\ overlapped \in SUBSET overlapped'
      /\ \A v \in Workers \ {w} :
           worker[v].pc # "idle" /\ Key(worker[v]) = encodeIriToCacheKey(iri)
             => encodeIriToCacheKey(iri) \in overlapped'
  BY DEF Start, Key
<1> SUFFICES ASSUME NEW u \in Workers, NEW v \in Workers, u # v,
                    worker'[u].pc # "idle", worker'[v].pc # "idle",
                    Key(worker'[u]) = Key(worker'[v])
             PROVE  Key(worker'[v]) \in overlapped'
  BY <1>2 DEF Alone, Key
<1>3. Key(q) = encodeIriToCacheKey(iri)
  BY DEF Key
<1>4. CASE u = w
  BY <1>1, <1>2, <1>3, <1>4
<1>5. CASE v = w
  BY <1>1, <1>2, <1>3, <1>5
<1>6. CASE u # w /\ v # w
  BY <1>1, <1>2, <1>6 DEF Alone
<1> QED
  BY <1>4, <1>5, <1>6

(* What is appended to a list leaves what was in it.                       *)
LEMMA AppendKeeps ==
  ASSUME NEW items \in Seq(Entries), NEW e \in Entries
  PROVE  /\ \E i \in DOMAIN Append(items, e) : Append(items, e)[i] = e
         /\ \A i \in DOMAIN items :
              i \in DOMAIN Append(items, e) /\ Append(items, e)[i] = items[i]
<1>1. /\ DOMAIN Append(items, e) = 1..(Len(items) + 1)
      /\ DOMAIN items = 1..Len(items) /\ Len(items) \in Nat
      /\ Append(items, e)[Len(items) + 1] = e
      /\ \A i \in 1..Len(items) : Append(items, e)[i] = items[i]
  OBVIOUS
<1>2. Len(items) + 1 \in 1..(Len(items) + 1)
  BY <1>1
<1>3. \A i \in 1..Len(items) : i \in 1..(Len(items) + 1)
  BY <1>1
<1> QED
  BY <1>1, <1>2, <1>3

(* A step that leaves the pool and the answered clients as they are.       *)
LEMMA PoolKept ==
  ASSUME WorkersInv, RInv, NEW w \in Workers, NEW q,
         worker' = [worker EXCEPT ![w] = q], overlapped \in SUBSET overlapped',
         Alone', pool' = pool, answered' = answered, Unmoved(q)'
  PROVE  RInv'
<1>1. worker'[w] = q /\ \A v \in Workers \ {w} : worker'[v] = worker[v]
  BY DEF WorkersInv
<1>2. ASSUME NEW v \in Workers PROVE Unmoved(worker[v])'
  <2>1. CASE v = w
    BY <1>1, <2>1 DEF Unmoved, Key
  <2>2. CASE v # w
    BY <1>1, <2>2 DEF Unmoved, Key, RInv
  <2> QED
    BY <2>1, <2>2
<1>3. \A s \in answered : Listed(s)'
  BY DEF RInv, Listed, Registered, Key
<1> QED
  BY <1>2, <1>3 DEF RInv

(* The step of a request that saves the list keeps what was registered.    *)
LEMMA SaveKeeps ==
  ASSUME IInv, RInv, NEW w \in Workers, SaveSubscription(w)
  PROVE  RInv'
<1> DEFINE r == worker[w]
           k == encodeIriToCacheKey(r.iri)
           e == Entry(r.fields, r.result)
<1>0. PICK s : s = Subscription(r)
  OBVIOUS
<1>1. /\ r.pc = "fetched" /\ k \in Keys /\ r.iri \in Iris
      /\ e \in Entries /\ e.fields = r.fields
      /\ k \in overlapped \/ r.items = pool[k]
      /\ r.items \in Seq(Entries)
  BY KeyOfIri, EntryTyped DEF SaveSubscription, IInv, WorkersInv, RequestInv,
     RequestTyped, FetchedDistinct, Unmoved, RInv, Key
<1>2. /\ pool' = [pool EXCEPT ![k] = Append(r.items, e)]
      /\ answered' = answered \cup {s}
      /\ worker' = [worker EXCEPT ![w] = Idle] /\ overlapped' = overlapped
      /\ pool \in [Keys -> Seq(Entries)] /\ DOMAIN worker = Workers
  BY <1>0, <1>1 DEF SaveSubscription, Answer, IInv, PoolInv, WorkersInv
<1>3. /\ pool'[k] = Append(r.items, e)
      /\ \A l \in Keys \ {k} : pool'[l] = pool[l]
  BY <1>1, <1>2
<1>4. Alone'
  BY <1>2, AloneGoesOn DEF IInv, RInv, Idle
<1>5. Listed(s)'
  <2>1. \E i \in DOMAIN pool'[k] : pool'[k][i].fields = r.fields
    <3> HIDE DEF e, k
    <3> QED BY <1>1, <1>3, AppendKeeps
  <2> QED
    BY <1>0, <1>1, <2>1 DEF Listed, Registered, Subscription
<1>6. ASSUME NEW t \in answered PROVE Listed(t)'
  <2>1. Listed(t) /\ encodeIriToCacheKey(t.iri) \in Keys
    BY KeyOfIri DEF RInv, Listed
  <2>2. CASE encodeIriToCacheKey(t.iri) = k /\ k \notin overlapped
    <3>1. \E i \in DOMAIN pool[k] : pool[k][i].fields = t.fields
      BY <2>1, <2>2 DEF Listed, Registered, Key
    <3>2. \E i \in DOMAIN pool'[k] : pool'[k][i].fields = t.fields
      <4> HIDE DEF e, k
      <4> QED BY <1>1, <1>3, <2>2, <3>1, AppendKeeps
    <3> QED
      BY <2>1, <2>2, <3>2 DEF Listed, Registered
  <2>3. CASE encodeIriToCacheKey(t.iri) # k
    BY <1>2, <1>3, <2>1, <2>3 DEF Listed, Registered, Key
  <2>4. CASE k \in overlapped /\ encodeIriToCacheKey(t.iri) = k
    BY <1>2, <2>1, <2>4 DEF Listed, Key
  <2> QED
    BY <2>2, <2>3, <2>4
<1>7. ASSUME NEW v \in Workers PROVE Unmoved(worker[v])'
  <2>1. CASE v = w
    BY <1>2, <2>1 DEF Unmoved, Idle
  <2>2. CASE v # w /\ worker[v].pc = "fetched"
    <3>1. /\ worker'[v] = worker[v] /\ Unmoved(worker[v])
          /\ Key(worker[v]) \in Keys
      BY <1>2, <2>2, KeyOfIri DEF RInv, Key, IInv, WorkersInv, RequestInv,
         RequestTyped
    <3>2. CASE Key(worker[v]) = k
      BY <1>1, <1>2, <2>2, <3>1, <3>2 DEF RInv, Alone, Unmoved, Key
    <3>3. CASE Key(worker[v]) # k
      BY <1>2, <1>3, <3>1, <3>3 DEF Unmoved, Key
    <3> QED
      BY <3>2, <3>3
  <2>3. CASE v # w /\ worker[v].pc # "fetched"
    BY <1>2, <2>3 DEF Unmoved
  <2> QED
    BY <2>1, <2>2, <2>3
<1> QED
  BY <1>2, <1>4, <1>5, <1>6, <1>7 DEF RInv

(* Every step keeps what was registered.                                   *)
LEMMA RegisteredNext == IInv /\ RInv /\ [Next]_vars => RInv'
<1> SUFFICES ASSUME IInv, RInv, [Next]_vars PROVE RInv'
  OBVIOUS
<1>1. /\ WorkersInv /\ Alone /\ DOMAIN worker = Workers
      /\ \A w \in Workers : RequestInv(worker[w])
  BY DEF IInv, RInv, WorkersInv
<1>2. ASSUME NEW w \in Workers, NEW iri \in Iris, NEW fields \in Selections,
             Subscribe(w, iri, fields)
      PROVE  RInv'
  <2>0. PICK q : q = [Idle EXCEPT !.pc = "normalized", !.iri = iri,
                        !.fields = fields,
                        !.result = Normalize(fields, stored[iri])]
    OBVIOUS
  <2>1. q.pc = "normalized" /\ q.iri = iri
    BY <2>0 DEF Idle
  <2>2. /\ Start(w, iri) /\ worker' = [worker EXCEPT ![w] = q]
        /\ pool' = pool /\ answered' = answered
    BY <1>2, <2>0 DEF Subscribe
  <2>3. Alone' /\ overlapped \in SUBSET overlapped'
    BY <1>1, <2>1, <2>2, AloneBegins
  <2> QED
    BY <1>1, <2>1, <2>2, <2>3, PoolKept DEF Unmoved
<1>3. ASSUME NEW w \in Workers, SubscriptionKnown(w)
      PROVE  RInv'
  <2>0. PICK t : t = Subscription(worker[w])
    OBVIOUS
  <2>1. /\ worker' = [worker EXCEPT ![w] = Idle] /\ Idle.pc = "idle"
        /\ answered' = answered \cup {t}
        /\ pool' = pool /\ overlapped' = overlapped
    BY <1>3, <2>0 DEF SubscriptionKnown, Answer, Idle
  <2>2. Alone'
    BY <1>1, <2>1, AloneGoesOn
  <2>3. Listed(t)'
    BY <1>1, <1>3, <2>0, <2>1 DEF SubscriptionKnown, Listed, Registered,
       Subscription, RequestInv, RequestTyped
  <2>4. \A s \in answered : Listed(s)'
    BY <2>1 DEF RInv, Listed, Registered, Key
  <2>5. \A v \in Workers : Unmoved(worker[v])'
    BY <1>1, <2>1 DEF RInv, Unmoved, Key
  <2> QED
    BY <2>1, <2>2, <2>3, <2>4, <2>5 DEF RInv
<1>4. ASSUME NEW w \in Workers, SubscriptionUnknown(w)
      PROVE  RInv'
  <2>0. PICK q : q = [worker[w] EXCEPT !.pc = "fetched",
                        !.items = pool[encodeIriToCacheKey(worker[w].iri)]]
    OBVIOUS
  <2>1. /\ worker[w].pc = "normalized" /\ worker' = [worker EXCEPT ![w] = q]
        /\ pool' = pool /\ answered' = answered /\ overlapped' = overlapped
    BY <1>4, <2>0 DEF SubscriptionUnknown
  <2>2. q.iri = worker[w].iri /\ q.items = pool[Key(q)]
    BY <1>1, <2>0 DEF Key, RequestInv, RequestTyped
  <2>3. Alone'
    BY <1>1, <2>1, <2>2, AloneGoesOn
  <2>4. Unmoved(q)'
    BY <2>1, <2>2 DEF Unmoved, Key
  <2> QED
    BY <1>1, <2>1, <2>3, <2>4, PoolKept
<1>5. ASSUME NEW w \in Workers, SaveSubscription(w)
      PROVE  RInv'
  BY <1>5, SaveKeeps
<1>6. ASSUME NEW w \in Workers, NEW iri \in Iris, Load(w, iri)
      PROVE  RInv'
  <2>0. PICK q : q = [Idle EXCEPT !.pc = "loaded", !.iri = iri,
                        !.object = stored[iri]]
    OBVIOUS
  <2>1. q.pc = "loaded" /\ q.iri = iri
    BY <2>0 DEF Idle
  <2>2. /\ Start(w, iri) /\ worker' = [worker EXCEPT ![w] = q]
        /\ pool' = pool /\ answered' = answered
    BY <1>6, <2>0 DEF Load
  <2>3. Alone' /\ overlapped \in SUBSET overlapped'
    BY <1>1, <2>1, <2>2, AloneBegins
  <2> QED
    BY <1>1, <2>1, <2>2, <2>3, PoolKept DEF Unmoved
<1>7. ASSUME NEW w \in Workers, NEW a \in Attrs, NEW v \in Vals,
             Flush(w, a, v)
      PROVE  RInv'
  <2>0. PICK q : q = [worker[w] EXCEPT !.pc = "flushed", !.object[a] = v]
    OBVIOUS
  <2>1. /\ worker[w].pc = "loaded" /\ worker' = [worker EXCEPT ![w] = q]
        /\ pool' = pool /\ answered' = answered /\ overlapped' = overlapped
    BY <1>7, <2>0 DEF Flush
  <2>2. q.iri = worker[w].iri /\ q.pc = "flushed"
    BY <1>1, <2>0 DEF RequestInv, RequestTyped
  <2>3. Alone'
    BY <1>1, <2>1, <2>2, AloneGoesOn
  <2> QED
    BY <1>1, <2>1, <2>2, <2>3, PoolKept DEF Unmoved
<1>8. ASSUME NEW w \in Workers, getPushPayloads(w)
      PROVE  RInv'
  <2> DEFINE payloads == Payloads(pool[encodeIriToCacheKey(worker[w].iri)],
                                  worker[w].object)
  <2>0. PICK q : q = [worker[w] EXCEPT !.pc = "publishing",
                        !.payloads = payloads]
    OBVIOUS
  <2>1. /\ worker[w].pc = "flushed" /\ worker' = [worker EXCEPT ![w] = q]
        /\ pool' = pool /\ answered' = answered /\ overlapped' = overlapped
    BY <1>8, <2>0 DEF getPushPayloads
  <2> HIDE DEF payloads
  <2>2. q.iri = worker[w].iri /\ q.pc = "publishing"
    BY <1>1, <2>0 DEF RequestInv, RequestTyped
  <2>3. Alone'
    BY <1>1, <2>1, <2>2, AloneGoesOn
  <2> QED
    BY <1>1, <2>1, <2>2, <2>3, PoolKept DEF Unmoved
<1>9. ASSUME NEW w \in Workers, Publish(w)
      PROVE  RInv'
  <2>0. PICK q : q = [worker[w] EXCEPT !.payloads = Tail(@)]
    OBVIOUS
  <2>1. /\ worker[w].pc = "publishing" /\ worker' = [worker EXCEPT ![w] = q]
        /\ pool' = pool /\ answered' = answered /\ overlapped' = overlapped
    BY <1>9, <2>0 DEF Publish
  <2>2. q.iri = worker[w].iri /\ q.pc = "publishing"
    BY <1>1, <2>0, <2>1 DEF RequestInv, RequestTyped
  <2>3. Alone'
    BY <1>1, <2>1, <2>2, AloneGoesOn
  <2> QED
    BY <1>1, <2>1, <2>2, <2>3, PoolKept DEF Unmoved
<1>10. ASSUME NEW w \in Workers, PublishThrows(w) \/ Respond(w)
       PROVE  RInv'
  <2>1. /\ worker' = [worker EXCEPT ![w] = Idle] /\ Idle.pc = "idle"
        /\ pool' = pool /\ answered' = answered /\ overlapped' = overlapped
    BY <1>10 DEF PublishThrows, Respond, Idle
  <2>2. Alone'
    BY <1>1, <2>1, AloneGoesOn
  <2> QED
    BY <1>1, <2>1, <2>2, PoolKept DEF Unmoved
<1>11. CASE UNCHANGED vars
  BY <1>11 DEF vars, RInv, Alone, Listed, Registered, Unmoved, Key
<1> QED
  BY <1>2, <1>3, <1>4, <1>5, <1>6, <1>7, <1>8, <1>9, <1>10, <1>11 DEF Next

(* For any number of workers, any pool and any selections: a client that   *)
(* was given a Mercure URL keeps its entry in a list about which no two    *)
(* requests ran at once, whatever runs about the other lists.              *)
THEOREM RegisteredUnlessOverlapped == Spec => []AnsweredIsRegistered
<1>1. Init => RInv
  BY DEF Init, RInv, Alone, Unmoved, Idle
<1>2. IInv /\ RInv /\ [Next]_vars => RInv'
  BY RegisteredNext
<1>3. RInv => AnsweredIsRegistered
  BY DEF RInv, Listed, Key, AnsweredIsRegistered
<1> QED
  BY <1>1, <1>2, <1>3, AlwaysInv, PTL DEF Spec

-----------------------------------------------------------------------------
(* What the subscribers are told                                           *)

Now(fields, iri) == Normalize(fields, stored[iri])

Update(fields, iri) ==
  [id |-> generateSubscriptionIdentifier(fields), data |-> Now(fields, iri)]

(* A request works with the current data of its resource, up to the        *)
(* payloads it has yet to publish.                                         *)
Fresh(r) ==
  /\ r.pc \in {"normalized", "fetched"} => r.result = Now(r.fields, r.iri)
  /\ r.pc \in {"loaded", "flushed", "publishing"} => r.object = stored[r.iri]
  /\ r.pc = "publishing" =>
       r.payloads \in Seq({Update(f, r.iri) : f \in Selections})

(* The request r has an update for the client of s that is not published.  *)
OnItsWay(s, r) ==
  /\ r.iri = s.iri
  /\ \/ r.pc = "flushed"
     \/ /\ r.pc = "publishing"
        /\ \E n \in DOMAIN r.payloads : IsFor(r.payloads[n], r.iri, s)

(* The result cached for the selection of s is not the data of s.          *)
Differs(s) ==
  LET items == pool[encodeIriToCacheKey(s.iri)]
  IN  \E i \in DOMAIN items :
        /\ items[i].fields = s.fields
        /\ items[i].result # Now(s.fields, s.iri)

IsTold(s) == Belief(s) = Now(s.fields, s.iri) \/ s \in missed

WillBeTold(s) ==
  Differs(s) =>
    \/ Key(s) \in overlapped
    \/ IsTold(s)
    \/ \E w \in Workers : OnItsWay(s, worker[w])

Confirmed(s) ==
  /\ s.iri \in Iris /\ s.fields \in Selections
  /\ s.since \in Nat /\ s.since <= Len(hub)

Current(w) == Key(worker[w]) \in overlapped \/ Fresh(worker[w])

TInv ==
  /\ \E S : hub \in Seq(S)
  /\ \A s \in answered : Confirmed(s) /\ WillBeTold(s)
  /\ \A w \in Workers : Current(w)

(* A loop over the list: there is a payload for each entry whose result    *)
(* differs, and none for another resource's data.                          *)
LEMMA PayloadsAre ==
  ASSUME NEW items \in Seq(Entries), NEW object
  PROVE  /\ Payloads(items, object) \in
              Seq({Payload(items[i], object) : i \in DOMAIN items})
         /\ \A i \in Changed(items, object) :
              \E n \in DOMAIN Payloads(items, object) :
                Payloads(items, object)[n] = Payload(items[i], object)
<1> DEFINE S == Changed(items, object)
           due == Sorted(S)
           p == Payloads(items, object)
           P == {Payload(items[i], object) : i \in DOMAIN items}
<1>1. Len(items) \in Nat /\ DOMAIN items = 1..Len(items)
  OBVIOUS
<1>2. S \in SUBSET (1..Len(items))
  BY <1>1 DEF Changed
<1>3. S \in SUBSET Nat /\ IsFiniteSet(S)
  <2>1. IsFiniteSet(1..Len(items))
    BY <1>1, FS_Interval
  <2>2. 1..Len(items) \in SUBSET Nat
    BY <1>1
  <2> HIDE DEF S
  <2>3. IsFiniteSet(S)
    BY <1>2, <2>1, FS_Subset
  <2> QED
    BY <1>2, <2>2, <2>3
<1>4. p = [k \in DOMAIN due |-> Payload(items[due[k]], object)]
  BY DEF Payloads
<1> HIDE DEF S, p
<1>5. /\ due \in Seq(S)
      /\ \A i \in S : \E k \in 1..Cardinality(S) : due[k] = i
      /\ Len(due) = Cardinality(S) /\ Cardinality(S) \in Nat
  BY <1>3, SortedIs
<1> HIDE DEF due
<1>6. DOMAIN due = 1..Cardinality(S) /\ \A k \in DOMAIN due : due[k] \in S
  BY <1>5
<1>7. p \in Seq(P)
  <2>1. \A k \in 1..Cardinality(S) : Payload(items[due[k]], object) \in P
    BY <1>1, <1>2, <1>6
  <2> HIDE DEF P
  <2>2. p \in [1..Cardinality(S) -> P]
    BY <1>4, <1>6, <2>1
  <2> QED
    BY <1>5, <2>2, SeqDef
<1>8. \A i \in S : \E n \in DOMAIN p : p[n] = Payload(items[i], object)
  BY <1>4, <1>5, <1>6
<1> QED
  BY <1>7, <1>8 DEF S, p

(* An entry has the id of its selection.                                   *)
LEMMA EntryHas ==
  ASSUME NEW e \in Entries
  PROVE  /\ e.fields \in Selections
         /\ e.id = generateSubscriptionIdentifier(e.fields)
<1> DEFINE of(f) == [id : {generateSubscriptionIdentifier(f)}, fields : {f},
                     result : [f \cap Attrs -> Vals]]
<1>1. \E f \in Selections : e \in of(f)
  BY DEF Entries
<1>2. PICK f \in Selections : e \in of(f)
  BY <1>1
<1>3. e.fields = f /\ e.id = generateSubscriptionIdentifier(f)
  BY <1>2
<1> QED
  BY <1>3

(* Selections with one id select the same data.                            *)
LEMMA SameData ==
  ASSUME NEW f \in Selections, NEW g \in Selections, NEW v,
         generateSubscriptionIdentifier(f) = generateSubscriptionIdentifier(g)
  PROVE  Normalize(f, v) = Normalize(g, v)
<1>1. f \cap Attrs = g \cap Attrs
  BY ConstantsAssumption DEF generateSubscriptionIdentifier
<1> QED
  BY <1>1 DEF Normalize

(* A client that was told nothing yet believes what it was answered.       *)
LEMMA BeliefAtFirst ==
  ASSUME NEW s, NEW S, s.since = Len(hub), hub \in Seq(S)
  PROVE  Belief(s) = s.result
<1>1. Len(hub) \in Nat
  OBVIOUS
<1>2. Told(s) = {}
  BY <1>1 DEF Told
<1> QED
  BY <1>2 DEF Belief

(* A message for the client is what it believes from then on, and any      *)
(* other message leaves it with what it believed.                          *)
LEMMA BeliefNext ==
  ASSUME NEW s, s.since \in Nat, s.since <= Len(hub),
         NEW S, hub \in Seq(S), NEW m \in S, hub' = Append(hub, m)
  PROVE  IF IsFor(m, m.iri, s)
         THEN Belief(s)' = m.data ELSE Belief(s)' = Belief(s)
<1> DEFINE n == Len(hub)
           last(T) == CHOOSE i \in T : \A j \in T : j <= i
<1>1. n \in Nat /\ Len(hub') = n + 1 /\ hub'[n + 1] = m
      /\ \A i \in 1..n : hub'[i] = hub[i]
  OBVIOUS
<1>2. Told(s) \in SUBSET ((s.since + 1)..n) /\ Told(s) \in SUBSET (1..n)
  BY <1>1 DEF Told
<1>3. Belief(s) = IF Told(s) = {} THEN s.result ELSE hub[last(Told(s))].data
  BY DEF Belief
<1>4. Belief(s)' = IF Told(s)' = {} THEN s.result
                   ELSE hub'[last(Told(s)')].data
  BY DEF Belief
<1>5. ASSUME IsFor(m, m.iri, s)
      PROVE  Belief(s)' = m.data
  <2>1. n + 1 \in Told(s)' /\ Told(s)' \in SUBSET (1..(n + 1))
    BY <1>1, <1>5 DEF Told
  <2> DEFINE T == Told(s)'
  <2> HIDE DEF T
  <2>2. last(T) = n + 1
    <3>1. \A j \in T : j <= n + 1
      BY <1>1, <2>1 DEF T
    <3>2. \A i \in T : (\A j \in T : j <= i) => i = n + 1
      BY <1>1, <2>1, <3>1 DEF T
    <3> QED
      BY <2>1, <3>1, <3>2 DEF T
  <2> HIDE DEF last
  <2> QED
    BY <1>1, <1>4, <2>1, <2>2 DEF T
<1>6. ASSUME ~IsFor(m, m.iri, s)
      PROVE  Belief(s)' = Belief(s)
  <2>1. Told(s)' = Told(s)
    BY <1>1, <1>6 DEF Told
  <2> DEFINE T == Told(s)
  <2> HIDE DEF T
  <2>2. ASSUME T # {} PROVE last(T) \in 1..n
    <3>1. T \in SUBSET Nat /\ IsFiniteSet(T)
      <4>1. IsFiniteSet(1..n)
        BY <1>1, FS_Interval
      <4> QED
        BY <1>1, <1>2, <4>1, FS_Subset DEF T
    <3>2. \E i \in T : \A j \in T : j <= i
      BY <2>2, <3>1, HasGreatest
    <3>3. last(T) \in T
      BY <3>2
    <3> HIDE DEF last
    <3> QED
      BY <1>2, <3>3 DEF T
  <2> HIDE DEF last
  <2> QED
    BY <1>1, <1>3, <1>4, <2>1, <2>2 DEF T
<1> QED
  BY <1>5, <1>6

(* What other requests have on their way stays there.                      *)
LEMMA WayKept ==
  ASSUME WorkersInv, NEW w \in Workers, NEW q, NEW s,
         worker' = [worker EXCEPT ![w] = q],
         \E v \in Workers : OnItsWay(s, worker[v]),
         OnItsWay(s, worker[w]) => OnItsWay(s, q)
  PROVE  (\E v \in Workers : OnItsWay(s, worker[v]))'
<1>1. worker'[w] = q /\ \A v \in Workers \ {w} : worker'[v] = worker[v]
  BY DEF WorkersInv
<1>2. PICK v \in Workers : OnItsWay(s, worker[v])
  OBVIOUS
<1>3. CASE v = w
  BY <1>1, <1>2, <1>3 DEF OnItsWay
<1>4. CASE v # w
  BY <1>1, <1>2, <1>4 DEF OnItsWay
<1> QED
  BY <1>3, <1>4

(* A step that stores nothing leaves the requests with current data.       *)
LEMMA CurrentKept ==
  ASSUME WorkersInv, TInv, NEW w \in Workers, NEW q,
         worker' = [worker EXCEPT ![w] = q], overlapped \in SUBSET overlapped',
         stored' = stored, Key(q) \in overlapped' \/ Fresh(q)
  PROVE  \A v \in Workers : Current(v)'
<1>1. worker'[w] = q /\ \A v \in Workers \ {w} : worker'[v] = worker[v]
  BY DEF WorkersInv
<1> SUFFICES ASSUME NEW v \in Workers PROVE Current(v)'
  OBVIOUS
<1>2. CASE v = w
  BY <1>1, <1>2 DEF Current, Fresh, Now, Update, Key
<1>3. CASE v # w
  <2>1. PICK x : x = worker[v]
    OBVIOUS
  <2>2. worker'[v] = x /\ (Key(x) \in overlapped \/ Fresh(x))
    BY <1>1, <1>3, <2>1 DEF TInv, Current
  <2>3. Fresh(x) => Fresh(x)'
    BY DEF Fresh, Now, Update
  <2> QED
    BY <2>2, <2>3 DEF Current, Key, Fresh
<1> QED
  BY <1>2, <1>3

(* A step that stores, answers and sends nothing, of a request that has    *)
(* nothing on its way or keeps it there.                                   *)
LEMMA QuietToldNext ==
  ASSUME WorkersInv, TInv, NEW w \in Workers, NEW q,
         worker' = [worker EXCEPT ![w] = q], overlapped \in SUBSET overlapped',
         answered' = answered, stored' = stored, pool' = pool, hub' = hub,
         missed' = missed, Key(q) \in overlapped' \/ Fresh(q),
         \A s \in answered :
           OnItsWay(s, worker[w]) => ~Differs(s) \/ OnItsWay(s, q)
  PROVE  TInv'
<1>1. \A v \in Workers : Current(v)'
  BY CurrentKept
<1>2. ASSUME NEW s \in answered PROVE Confirmed(s)' /\ WillBeTold(s)'
  <2>1. Confirmed(s) /\ WillBeTold(s)
    BY DEF TInv
  <2>2. Differs(s)' = Differs(s) /\ (IsTold(s) => IsTold(s)')
    BY DEF Differs, IsTold, Belief, Told, Now
  <2>3. Key(s) \in overlapped => Key(s)' \in overlapped'
    BY DEF Key
  <2>4. Differs(s) /\ (\E v \in Workers : OnItsWay(s, worker[v]))
          => (\E v \in Workers : OnItsWay(s, worker[v]))'
    BY WayKept
  <2> QED
    BY <2>1, <2>2, <2>3, <2>4 DEF Confirmed, WillBeTold
<1> QED
  BY <1>1, <1>2 DEF TInv

(* Who is answered has been given the current data.                        *)
LEMMA AnswerTold ==
  ASSUME IInv, TInv, NEW w \in Workers, Answer(w),
         worker[w].pc \in {"normalized", "fetched"},
         stored' = stored, hub' = hub, overlapped' = overlapped,
         \A s \in answered :
           Differs(s)' => Differs(s) \/ Key(s) \in overlapped
  PROVE  TInv'
<1> DEFINE r == worker[w]
<1>0. PICK s : s = Subscription(r)
  OBVIOUS
<1>1. /\ RequestInv(r) /\ Current(w) /\ WorkersInv
      /\ ~\E t : OnItsWay(t, r)
  BY DEF IInv, WorkersInv, TInv, OnItsWay
<1>2. /\ answered' = answered \cup {s} /\ missed' = missed \ {s}
      /\ worker' = [worker EXCEPT ![w] = Idle]
  BY <1>0 DEF Answer
<1>3. \A v \in Workers : Current(v)'
  BY <1>1, <1>2, CurrentKept DEF Fresh, Idle
<1>4. PICK S : hub \in Seq(S)
  BY DEF TInv
<1>5. /\ s.iri = r.iri /\ s.fields = r.fields /\ s.result = r.result
      /\ s.since = Len(hub)
  BY <1>0 DEF Subscription
<1>6. Confirmed(s)'
  BY <1>1, <1>4, <1>5 DEF Confirmed, RequestInv, RequestTyped
<1>7. Key(s) \in overlapped \/ Belief(s) = Now(s.fields, s.iri)
  BY <1>1, <1>4, <1>5, BeliefAtFirst DEF Current, Fresh, Now, Key
<1>8. Belief(s)' = Belief(s) /\ Now(s.fields, s.iri)' = Now(s.fields, s.iri)
  BY DEF Belief, Told, Now
<1>9. WillBeTold(s)'
  BY <1>7, <1>8 DEF WillBeTold, IsTold, Key
<1>10. ASSUME NEW t \in answered PROVE Confirmed(t)' /\ WillBeTold(t)'
  <2>1. CASE t = s
    BY <1>6, <1>9, <2>1
  <2>2. CASE t # s
    <3>1. Confirmed(t)'
      BY DEF TInv, Confirmed
    <3>2. IsTold(t) => IsTold(t)'
      BY <1>2, <2>2 DEF IsTold, Belief, Told, Now
    <3>3. (\E v \in Workers : OnItsWay(t, worker[v]))
            => (\E v \in Workers : OnItsWay(t, worker[v]))'
      BY <1>1, <1>2, WayKept
    <3>4. WillBeTold(t) /\ Key(t)' = Key(t)
      BY DEF TInv, Key
    <3>5. Differs(t)' => Differs(t) \/ Key(t) \in overlapped
      OBVIOUS
    <3> QED
      BY <3>1, <3>2, <3>3, <3>4, <3>5 DEF WillBeTold
  <2> QED
    BY <2>1, <2>2
<1> QED
  BY <1>2, <1>3, <1>4, <1>6, <1>9, <1>10 DEF TInv

(* A flush of one's own copy: it is current, and an update is on its way.  *)
LEMMA FlushTold ==
  ASSUME IInv, RInv, TInv, NEW w \in Workers, NEW a \in Attrs, NEW v \in Vals,
         Flush(w, a, v)
  PROVE  TInv'
<1> DEFINE r == worker[w]
<1>0. PICK q : q = [r EXCEPT !.pc = "flushed", !.object[a] = v]
  OBVIOUS
<1>1. /\ RequestInv(r) /\ Current(w) /\ WorkersInv /\ r.pc = "loaded"
      /\ stored \in [Iris -> Value] /\ r.iri \in Iris
      /\ DOMAIN r = {"pc", "iri", "fields", "result", "items", "object",
                     "payloads"}
  BY DEF IInv, WorkersInv, TInv, StoreInv, Flush, RequestInv, RequestTyped
<1>2. /\ worker' = [worker EXCEPT ![w] = q] /\ answered' = answered
      /\ pool' = pool /\ hub' = hub /\ missed' = missed
      /\ overlapped' = overlapped
      /\ stored' = [stored EXCEPT ![r.iri] = [stored[r.iri] EXCEPT ![a] = v]]
  BY <1>0 DEF Flush
<1>3. /\ q.pc = "flushed" /\ q.iri = r.iri
      /\ q.object = [r.object EXCEPT ![a] = v]
  BY <1>0, <1>1
<1>4. /\ stored'[r.iri] = [stored[r.iri] EXCEPT ![a] = v]
      /\ \A iri \in Iris \ {r.iri} : stored'[iri] = stored[iri]
  BY <1>1, <1>2
<1>5. worker'[w] = q /\ \A u \in Workers \ {w} : worker'[u] = worker[u]
  BY <1>1, <1>2 DEF WorkersInv
<1>6. Current(w)'
  BY <1>1, <1>2, <1>3, <1>4, <1>5 DEF Current, Fresh, Key
<1>7. ASSUME NEW u \in Workers, u # w PROVE Current(u)'
  <2>1. PICK x : x = worker[u]
    OBVIOUS
  <2>2. worker'[u] = x /\ (Key(x) \in overlapped \/ Fresh(x)) /\ RequestTyped(x)
    BY <1>5, <1>7, <2>1 DEF TInv, Current, IInv, WorkersInv, RequestInv
  <2>3. CASE x.pc = "idle"
    BY <2>2, <2>3 DEF Current, Fresh
  <2>4. CASE x.pc # "idle" /\ Key(x) = Key(r)
    <3>1. Key(x) \in overlapped
      BY <1>1, <1>7, <2>1, <2>4 DEF RInv, Alone
    <3> QED
      BY <1>2, <2>2, <3>1 DEF Current, Key
  <2>5. CASE x.pc # "idle" /\ Key(x) # Key(r)
    <3>1. x.iri \in Iris \ {r.iri}
      BY <2>2, <2>5 DEF RequestTyped, Key
    <3>2. stored'[x.iri] = stored[x.iri]
      BY <1>4, <3>1
    <3>3. Fresh(x) => Fresh(x)'
      BY <3>2 DEF Fresh, Now, Update
    <3> QED
      BY <1>2, <2>2, <3>3 DEF Current, Key, Fresh
  <2> QED
    BY <2>3, <2>4, <2>5
<1>8. ASSUME NEW s \in answered PROVE Confirmed(s)' /\ WillBeTold(s)'
  <2>1. Confirmed(s) /\ WillBeTold(s) /\ Confirmed(s)'
    BY <1>2 DEF TInv, Confirmed
  <2>2. CASE s.iri = r.iri
    <3>1. OnItsWay(s, q)
      BY <1>3, <2>2 DEF OnItsWay
    <3> QED
      BY <1>5, <2>1, <3>1 DEF WillBeTold, OnItsWay
  <2>3. CASE s.iri # r.iri
    <3>1. Now(s.fields, s.iri)' = Now(s.fields, s.iri)
      BY <1>4, <2>1, <2>3 DEF Now, Confirmed
    <3>2. Differs(s)' = Differs(s) /\ (IsTold(s) => IsTold(s)')
      BY <1>2, <3>1 DEF Differs, IsTold, Belief, Told
    <3>3. (\E u \in Workers : OnItsWay(s, worker[u]))
            => (\E u \in Workers : OnItsWay(s, worker[u]))'
      BY <1>1, <1>2, <2>3, WayKept DEF OnItsWay
    <3> QED
      BY <1>2, <2>1, <3>2, <3>3 DEF WillBeTold, Key
  <2> QED
    BY <2>2, <2>3
<1> QED
  BY <1>2, <1>6, <1>7, <1>8 DEF TInv

(* The payloads of a current copy: one for every client whose data differ. *)
LEMMA PayloadsTold ==
  ASSUME IInv, TInv, NEW w \in Workers, getPushPayloads(w)
  PROVE  TInv'
<1> DEFINE r == worker[w]
           k == encodeIriToCacheKey(r.iri)
           p == Payloads(pool[k], r.object)
<1>0. PICK q : q = [r EXCEPT !.pc = "publishing", !.payloads = p]
  OBVIOUS
<1>1. /\ RequestInv(r) /\ Current(w) /\ WorkersInv /\ r.pc = "flushed"
      /\ r.iri \in Iris /\ k \in Keys /\ pool[k] \in Seq(Entries)
      /\ DOMAIN r = {"pc", "iri", "fields", "result", "items", "object",
                     "payloads"}
  BY KeyOfIri DEF IInv, WorkersInv, TInv, PoolInv, getPushPayloads,
     RequestInv, RequestTyped
<1>2. /\ worker' = [worker EXCEPT ![w] = q] /\ answered' = answered
      /\ pool' = pool /\ hub' = hub /\ missed' = missed
      /\ overlapped' = overlapped /\ stored' = stored
  BY <1>0 DEF getPushPayloads
<1>3. /\ p \in Seq({Payload(pool[k][i], r.object) : i \in DOMAIN pool[k]})
      /\ \A i \in Changed(pool[k], r.object) :
           \E n \in DOMAIN p : p[n] = Payload(pool[k][i], r.object)
  BY <1>1, PayloadsAre
<1> HIDE DEF p
<1>4. /\ q.pc = "publishing" /\ q.iri = r.iri /\ q.payloads = p
      /\ q.object = r.object
  BY <1>0, <1>1
<1>5. CASE Key(r) \in overlapped
  <2>1. ASSUME NEW s \in answered PROVE Confirmed(s)' /\ WillBeTold(s)'
    <3>1. Confirmed(s) /\ WillBeTold(s) /\ Confirmed(s)'
      BY <1>2 DEF TInv, Confirmed
    <3>2. Differs(s)' = Differs(s) /\ (IsTold(s) => IsTold(s)')
      BY <1>2 DEF Differs, IsTold, Belief, Told, Now
    <3>3. CASE s.iri = r.iri
      BY <1>2, <1>5, <3>1, <3>3 DEF WillBeTold, Key
    <3>4. CASE s.iri # r.iri
      <4>1. (\E u \in Workers : OnItsWay(s, worker[u]))
              => (\E u \in Workers : OnItsWay(s, worker[u]))'
        BY <1>1, <1>2, <3>4, WayKept DEF OnItsWay
      <4> QED
        BY <1>2, <3>1, <3>2, <4>1 DEF WillBeTold, Key
    <3> QED
      BY <3>3, <3>4
  <2>2. \A v \in Workers : Current(v)'
    BY <1>1, <1>2, <1>4, <1>5, CurrentKept DEF Key
  <2> QED
    BY <1>2, <2>1, <2>2 DEF TInv
<1>6. CASE Key(r) \notin overlapped
  <2>1. r.object = stored[r.iri]
    BY <1>1, <1>6 DEF Current, Fresh
  <2>2. \A i \in DOMAIN pool[k] :
          /\ pool[k][i].fields \in Selections
          /\ pool[k][i].id = generateSubscriptionIdentifier(pool[k][i].fields)
          /\ Payload(pool[k][i], r.object) = Update(pool[k][i].fields, r.iri)
    <3>1. \A i \in DOMAIN pool[k] : pool[k][i] \in Entries
      BY <1>1
    <3> QED
      BY <2>1, <3>1, EntryHas DEF Payload, Update, Now
  <2>3. p \in Seq({Update(f, r.iri) : f \in Selections})
    <3> DEFINE P == {Payload(pool[k][i], r.object) : i \in DOMAIN pool[k]}
               U == {Update(f, r.iri) : f \in Selections}
    <3>1. P \in SUBSET U
      BY <2>2
    <3> HIDE DEF P, U
    <3>2. p \in Seq(P)
      BY <1>3 DEF P
    <3>3. p \in Seq(U)
      BY <3>1, <3>2
    <3> QED
      BY <3>3 DEF U
  <2>4. Fresh(q)
    BY <1>4, <2>1, <2>3 DEF Fresh
  <2>5. ASSUME NEW s \in answered, OnItsWay(s, r), Differs(s)
        PROVE  OnItsWay(s, q)
    <3>1. s.iri = r.iri
      BY <2>5 DEF OnItsWay
    <3>2. PICK i \in DOMAIN pool[k] :
            pool[k][i].fields = s.fields
            /\ pool[k][i].result # Now(s.fields, s.iri)
      BY <2>5, <3>1 DEF Differs
    <3>3. i \in Changed(pool[k], r.object)
      BY <2>1, <3>1, <3>2 DEF Changed, Now
    <3>4. PICK n \in DOMAIN p : p[n] = Payload(pool[k][i], r.object)
      BY <1>3, <3>3
    <3>5. IsFor(p[n], r.iri, s)
      BY <2>2, <3>1, <3>2, <3>4 DEF Payload, IsFor
    <3> QED
      BY <1>4, <3>1, <3>5 DEF OnItsWay
  <2> QED
    BY <1>1, <1>2, <2>4, <2>5, QuietToldNext
<1> QED
  BY <1>5, <1>6

(* What is sent is the current data of whom it is for.                     *)
LEMMA PublishTold ==
  ASSUME IInv, TInv, NEW w \in Workers, Publish(w)
  PROVE  TInv'
<1> DEFINE r == worker[w]
           p == r.payloads
           U == {Update(f, r.iri) : f \in Selections}
<1>0. /\ \E q : q = [r EXCEPT !.payloads = Tail(p)]
      /\ \E m : m = [id |-> Head(p).id, iri |-> r.iri, data |-> Head(p).data]
  OBVIOUS
<1>1. PICK q : q = [r EXCEPT !.payloads = Tail(p)]
  BY <1>0
<1>2. PICK m : m = [id |-> Head(p).id, iri |-> r.iri, data |-> Head(p).data]
  BY <1>0
<1>3. /\ RequestInv(r) /\ Current(w) /\ WorkersInv /\ r.pc = "publishing"
      /\ r.iri \in Iris /\ p # <<>>
      /\ DOMAIN r = {"pc", "iri", "fields", "result", "items", "object",
                     "payloads"}
  BY DEF IInv, WorkersInv, TInv, Publish, RequestInv, RequestTyped
<1>4. /\ worker' = [worker EXCEPT ![w] = q] /\ answered' = answered
      /\ pool' = pool /\ hub' = Append(hub, m) /\ overlapped' = overlapped
      /\ stored' = stored
      /\ missed' = {s \in missed : ~IsFor(Head(p), r.iri, s)}
  BY <1>1, <1>2 DEF Publish
<1>5. /\ q.pc = "publishing" /\ q.iri = r.iri /\ q.payloads = Tail(p)
      /\ q.object = r.object
  BY <1>1, <1>3
<1>6. m.iri = r.iri /\ m.id = Head(p).id /\ m.data = Head(p).data
  BY <1>2
<1> HIDE DEF p
<1>7. PICK S : hub \in Seq(S) /\ m \in S
  <2>1. PICK T : hub \in Seq(T)
    BY DEF TInv
  <2>2. hub \in Seq(T \cup {m})
    BY <2>1
  <2> QED
    BY <2>2
<1>8. hub' \in Seq(S) /\ Len(hub') = Len(hub) + 1 /\ Len(hub) \in Nat
  BY <1>4, <1>7
<1>9. p \in Seq(U)
      => /\ Tail(p) \in Seq(U) /\ Head(p) = p[1] /\ p[1] \in U
         /\ \A n \in DOMAIN p :
              n # 1 => n - 1 \in DOMAIN Tail(p) /\ Tail(p)[n - 1] = p[n]
  <2> HIDE DEF U
  <2> SUFFICES ASSUME p \in Seq(U)
      PROVE  /\ Tail(p) \in Seq(U) /\ Head(p) = p[1] /\ p[1] \in U
             /\ \A n \in DOMAIN p :
                  n # 1 => n - 1 \in DOMAIN Tail(p) /\ Tail(p)[n - 1] = p[n]
    OBVIOUS
  <2>1. Len(p) \in Nat \ {0} /\ DOMAIN p = 1..Len(p)
    BY <1>3
  <2>2. Tail(p) \in Seq(U) /\ Head(p) = p[1] /\ p[1] \in U
        /\ Len(Tail(p)) = Len(p) - 1
        /\ \A n \in 1..(Len(p) - 1) : Tail(p)[n] = p[n + 1]
    BY <1>3, <2>1
  <2>3. DOMAIN Tail(p) = 1..(Len(p) - 1)
    BY <2>1, <2>2
  <2>4. ASSUME NEW n \in DOMAIN p, n # 1
        PROVE  n - 1 \in DOMAIN Tail(p) /\ Tail(p)[n - 1] = p[n]
    <3>1. n \in Nat /\ n - 1 \in 1..(Len(p) - 1) /\ (n - 1) + 1 = n
      BY <2>1, <2>4
    <3> QED
      BY <2>2, <2>3, <3>1
  <2> QED
    BY <2>2, <2>4
<1>10. Key(q) \in overlapped' \/ Fresh(q)
  <2>1. Key(q) = Key(r)
    BY <1>5 DEF Key
  <2>2. Fresh(r) => Fresh(q)
    BY <1>3, <1>5, <1>9 DEF Fresh, p
  <2> QED
    BY <1>3, <1>4, <2>1, <2>2 DEF Current
<1>11. \A v \in Workers : Current(v)'
  BY <1>3, <1>4, <1>10, CurrentKept
<1>12. ASSUME NEW s \in answered PROVE Confirmed(s)' /\ WillBeTold(s)'
  <2>1. Confirmed(s) /\ WillBeTold(s)
    BY DEF TInv
  <2>2. Confirmed(s)'
    BY <1>8, <2>1 DEF Confirmed
  <2>3. /\ Now(s.fields, s.iri)' = Now(s.fields, s.iri)
        /\ Differs(s)' = Differs(s) /\ Key(s)' = Key(s)
    BY <1>4 DEF Now, Differs, Key
  <2>4. IF IsFor(m, m.iri, s) THEN Belief(s)' = m.data
                              ELSE Belief(s)' = Belief(s)
    BY <1>4, <1>7, <2>1, BeliefNext DEF Confirmed
  <2>5. IsFor(m, m.iri, s) <=> IsFor(Head(p), r.iri, s)
    BY <1>6 DEF IsFor
  <2>6. CASE Key(s) \in overlapped
    BY <1>4, <2>2, <2>3, <2>6 DEF WillBeTold
  <2>7. CASE IsFor(m, m.iri, s) /\ Key(s) \notin overlapped
    <3>1. Key(r) = Key(s) /\ s.iri = r.iri
      BY <1>6, <2>7 DEF IsFor, Key
    <3>2. p \in Seq(U)
      BY <1>3, <2>7, <3>1 DEF Current, Fresh, p
    <3>3. PICK g \in Selections : Head(p) = Update(g, r.iri)
      BY <1>9, <3>2
    <3>4. /\ generateSubscriptionIdentifier(g)
               = generateSubscriptionIdentifier(s.fields)
          /\ m.data = Now(g, s.iri)
      BY <1>6, <2>7, <3>1, <3>3 DEF IsFor, Update
    <3>5. m.data = Now(s.fields, s.iri)
      BY <2>1, <3>4, SameData DEF Now, Confirmed
    <3> QED
      BY <2>2, <2>3, <2>4, <2>7, <3>5 DEF WillBeTold, IsTold
  <2>8. CASE ~IsFor(m, m.iri, s) /\ Key(s) \notin overlapped
    <3>1. IsTold(s) => IsTold(s)'
      BY <1>4, <2>3, <2>4, <2>5, <2>8 DEF IsTold
    <3>2. OnItsWay(s, r) => OnItsWay(s, q)
      <4> SUFFICES ASSUME OnItsWay(s, r) PROVE OnItsWay(s, q)
        OBVIOUS
      <4>1. s.iri = r.iri /\ Key(r) = Key(s)
        BY DEF OnItsWay, Key
      <4>2. p \in Seq(U)
        BY <1>3, <2>8, <4>1 DEF Current, Fresh, p
      <4>3. PICK n \in DOMAIN p : IsFor(p[n], r.iri, s)
        BY <1>3 DEF OnItsWay, p
      <4>4. n # 1
        BY <1>9, <2>5, <2>8, <4>2, <4>3
      <4>5. n - 1 \in DOMAIN Tail(p) /\ Tail(p)[n - 1] = p[n]
        BY <1>9, <4>2, <4>4
      <4> QED
        BY <1>5, <4>1, <4>3, <4>5 DEF OnItsWay
    <3>3. (\E u \in Workers : OnItsWay(s, worker[u]))
            => (\E u \in Workers : OnItsWay(s, worker[u]))'
      BY <1>3, <1>4, <3>2, WayKept
    <3> QED
      BY <1>4, <2>1, <2>2, <2>3, <3>1, <3>3 DEF WillBeTold
  <2> QED
    BY <2>6, <2>7, <2>8
<1> QED
  BY <1>4, <1>8, <1>11, <1>12 DEF TInv

(* A publication that fails: whom the rest was for has missed its last.    *)
LEMMA ThrowsTold ==
  ASSUME IInv, TInv, NEW w \in Workers, PublishThrows(w)
  PROVE  TInv'
<1> DEFINE r == worker[w]
<1>1. /\ WorkersInv /\ r.pc = "publishing"
      /\ worker' = [worker EXCEPT ![w] = Idle] /\ answered' = answered
      /\ pool' = pool /\ hub' = hub /\ overlapped' = overlapped
      /\ stored' = stored
      /\ missed' = missed \cup
           {s \in answered : \E i \in DOMAIN r.payloads :
              IsFor(r.payloads[i], r.iri, s)}
  BY DEF IInv, PublishThrows
<1>2. \A v \in Workers : Current(v)'
  BY <1>1, CurrentKept DEF Fresh, Idle
<1>3. ASSUME NEW s \in answered PROVE Confirmed(s)' /\ WillBeTold(s)'
  <2>1. Confirmed(s) /\ WillBeTold(s) /\ Confirmed(s)'
    BY <1>1 DEF TInv, Confirmed
  <2>2. Differs(s)' = Differs(s) /\ (IsTold(s) => IsTold(s)')
    BY <1>1 DEF Differs, IsTold, Belief, Told, Now
  <2>3. CASE OnItsWay(s, r)
    BY <1>1, <2>1, <2>3 DEF OnItsWay, WillBeTold, IsTold
  <2>4. CASE ~OnItsWay(s, r)
    <3>1. (\E u \in Workers : OnItsWay(s, worker[u]))
            => (\E u \in Workers : OnItsWay(s, worker[u]))'
      BY <1>1, <2>4, WayKept
    <3> QED
      BY <1>1, <2>1, <2>2, <3>1 DEF WillBeTold, Key
  <2> QED
    BY <2>3, <2>4
<1> QED
  BY <1>1, <1>2, <1>3 DEF TInv

(* Every step keeps what will be told.                                     *)
LEMMA ToldNext == IInv /\ RInv /\ TInv /\ [Next]_vars => TInv'
<1> SUFFICES ASSUME IInv, RInv, TInv, [Next]_vars PROVE TInv'
  OBVIOUS
<1>1. /\ WorkersInv
      /\ \A w \in Workers : RequestInv(worker[w]) /\ Current(w)
  BY DEF IInv, WorkersInv, TInv
<1>2. ASSUME NEW w \in Workers, NEW iri \in Iris, NEW fields \in Selections,
             Subscribe(w, iri, fields)
      PROVE  TInv'
  <2>0. PICK q : q = [Idle EXCEPT !.pc = "normalized", !.iri = iri,
                        !.fields = fields,
                        !.result = Normalize(fields, stored[iri])]
    OBVIOUS
  <2>1. Fresh(q)
    BY <2>0 DEF Fresh, Now, Idle
  <2>2. /\ worker' = [worker EXCEPT ![w] = q] /\ worker[w].pc = "idle"
        /\ answered' = answered /\ stored' = stored /\ pool' = pool
        /\ hub' = hub /\ missed' = missed /\ overlapped \in SUBSET overlapped'
    BY <1>2, <2>0 DEF Subscribe, Start
  <2> QED
    BY <1>1, <2>1, <2>2, QuietToldNext DEF OnItsWay
<1>3. ASSUME NEW w \in Workers, SubscriptionKnown(w) PROVE TInv'
  <2>1. \A s \in answered : Differs(s)' => Differs(s)
    BY <1>3 DEF SubscriptionKnown, Differs, Now
  <2>2. Answer(w) /\ worker[w].pc = "normalized" /\ stored' = stored
        /\ hub' = hub /\ overlapped' = overlapped
    BY <1>3 DEF SubscriptionKnown
  <2> QED
    BY <2>1, <2>2, AnswerTold
<1>4. ASSUME NEW w \in Workers, SubscriptionUnknown(w) PROVE TInv'
  <2>0. PICK q : q = [worker[w] EXCEPT !.pc = "fetched",
                        !.items = pool[encodeIriToCacheKey(worker[w].iri)]]
    OBVIOUS
  <2>1. /\ worker' = [worker EXCEPT ![w] = q] /\ worker[w].pc = "normalized"
        /\ answered' = answered /\ stored' = stored /\ pool' = pool
        /\ hub' = hub /\ missed' = missed /\ overlapped' = overlapped
    BY <1>4, <2>0 DEF SubscriptionUnknown
  <2>2. Key(q) = Key(worker[w]) /\ (Fresh(worker[w]) => Fresh(q))
    BY <1>1, <2>0, <2>1 DEF Fresh, Key, RequestInv, RequestTyped
  <2> QED
    BY <1>1, <2>1, <2>2, QuietToldNext DEF OnItsWay, Current
<1>5. ASSUME NEW w \in Workers, SaveSubscription(w) PROVE TInv'
  <2> DEFINE r == worker[w]
             k == encodeIriToCacheKey(r.iri)
             e == Entry(r.fields, r.result)
  <2>1. /\ r.pc = "fetched" /\ k \in Keys
        /\ e \in Entries /\ e.fields = r.fields
        /\ k \in overlapped \/ r.items = pool[k]
        /\ r.items \in Seq(Entries)
        /\ \A i \in DOMAIN r.items : r.items[i].fields # r.fields
    BY <1>1, <1>5, KeyOfIri, EntryTyped DEF SaveSubscription, RequestInv,
       RequestTyped, FetchedDistinct, RInv, Unmoved, Key
  <2>2. /\ pool' = [pool EXCEPT ![k] = Append(r.items, e)]
        /\ Answer(w) /\ stored' = stored /\ hub' = hub
        /\ overlapped' = overlapped /\ pool \in [Keys -> Seq(Entries)]
    BY <1>5, <2>1 DEF SaveSubscription, IInv, PoolInv
  <2>3. /\ pool'[k] = Append(r.items, e)
        /\ \A l \in Keys \ {k} : pool'[l] = pool[l]
    BY <2>1, <2>2
  <2>4. ASSUME NEW s \in answered, Differs(s)', Key(s) \notin overlapped
        PROVE Differs(s)
    <3> DEFINE l == encodeIriToCacheKey(s.iri)
    <3>1. l \in Keys /\ \E i \in DOMAIN pool[l] : pool[l][i].fields = s.fields
      BY <2>4, KeyOfIri DEF RInv, Listed, Registered, Key
    <3>2. Now(s.fields, s.iri)' = Now(s.fields, s.iri)
      BY <2>2 DEF Now
    <3>3. PICK i \in DOMAIN pool'[l] :
            /\ pool'[l][i].fields = s.fields
            /\ pool'[l][i].result # Now(s.fields, s.iri)
      BY <2>4, <3>2 DEF Differs
    <3>4. l = k => r.items = pool[k]
      BY <2>1, <2>4 DEF Key
    <3> HIDE DEF e, k, l
    <3>5. i \in DOMAIN pool[l] /\ pool[l][i] = pool'[l][i]
      <4>1. CASE l # k
        BY <2>3, <3>1, <3>3, <4>1
      <4>2. CASE l = k
        <5>1. /\ DOMAIN pool'[k] = 1..(Len(pool[k]) + 1)
              /\ DOMAIN pool[k] = 1..Len(pool[k]) /\ Len(pool[k]) \in Nat
              /\ pool'[k][Len(pool[k]) + 1] = e
              /\ \A j \in 1..Len(pool[k]) : pool'[k][j] = pool[k][j]
          <6>1. pool[k] \in Seq(Entries) /\ pool'[k] = Append(pool[k], e)
            BY <2>1, <2>3, <3>4, <4>2
          <6> QED
            BY <2>1, <6>1
        <5>2. i # Len(pool[k]) + 1
          BY <2>1, <3>1, <3>3, <3>4, <4>2, <5>1
        <5> QED
          BY <3>3, <4>2, <5>1, <5>2
      <4> QED
        BY <4>1, <4>2
    <3> QED
      BY <3>3, <3>5 DEF Differs, l
  <2> QED
    BY <2>1, <2>2, <2>4, AnswerTold
<1>6. ASSUME NEW w \in Workers, NEW iri \in Iris, Load(w, iri) PROVE TInv'
  <2>0. PICK q : q = [Idle EXCEPT !.pc = "loaded", !.iri = iri,
                        !.object = stored[iri]]
    OBVIOUS
  <2>1. Fresh(q)
    BY <2>0 DEF Fresh, Idle
  <2>2. /\ worker' = [worker EXCEPT ![w] = q] /\ worker[w].pc = "idle"
        /\ answered' = answered /\ stored' = stored /\ pool' = pool
        /\ hub' = hub /\ missed' = missed /\ overlapped \in SUBSET overlapped'
    BY <1>6, <2>0 DEF Load, Start
  <2> QED
    BY <1>1, <2>1, <2>2, QuietToldNext DEF OnItsWay
<1>7. ASSUME NEW w \in Workers, NEW a \in Attrs, NEW v \in Vals,
             Flush(w, a, v)
      PROVE  TInv'
  BY <1>7, FlushTold
<1>8. ASSUME NEW w \in Workers, getPushPayloads(w) PROVE TInv'
  BY <1>8, PayloadsTold
<1>9. ASSUME NEW w \in Workers, Publish(w) PROVE TInv'
  BY <1>9, PublishTold
<1>10. ASSUME NEW w \in Workers, PublishThrows(w) PROVE TInv'
  BY <1>10, ThrowsTold
<1>11. ASSUME NEW w \in Workers, Respond(w) PROVE TInv'
  <2>1. /\ worker[w].pc = "publishing" /\ worker[w].payloads = <<>>
        /\ worker' = [worker EXCEPT ![w] = Idle]
        /\ answered' = answered /\ stored' = stored /\ pool' = pool
        /\ hub' = hub /\ missed' = missed /\ overlapped' = overlapped
    BY <1>11 DEF Respond
  <2>2. Fresh(Idle) /\ \A s \in answered : ~OnItsWay(s, worker[w])
    BY <2>1 DEF Fresh, Idle, OnItsWay
  <2> QED
    BY <1>1, <2>1, <2>2, QuietToldNext
<1>12. CASE UNCHANGED vars
  <2>1. /\ worker' = worker /\ stored' = stored /\ pool' = pool /\ hub' = hub
        /\ answered' = answered /\ missed' = missed
        /\ overlapped' = overlapped
    BY <1>12 DEF vars
  <2>2. ASSUME NEW s \in answered PROVE Confirmed(s)' /\ WillBeTold(s)'
    <3>1. Confirmed(s) /\ WillBeTold(s) /\ Confirmed(s)'
      BY <2>1 DEF TInv, Confirmed
    <3>2. Differs(s)' = Differs(s) /\ IsTold(s)' = IsTold(s)
      BY <2>1 DEF Differs, IsTold, Belief, Told, Now
    <3> QED
      BY <2>1, <3>1, <3>2 DEF WillBeTold, OnItsWay, Key
  <2>3. ASSUME NEW v \in Workers PROVE Current(v)'
    <3>1. PICK x : x = worker[v]
      OBVIOUS
    <3>2. Fresh(x) => Fresh(x)'
      BY <2>1 DEF Fresh, Now, Update
    <3> QED
      BY <1>1, <2>1, <3>1, <3>2 DEF Current, Key, Fresh
  <2> QED
    BY <2>1, <2>2, <2>3 DEF TInv
<1> QED
  BY <1>2, <1>3, <1>4, <1>5, <1>6, <1>7, <1>8, <1>9, <1>10, <1>11, <1>12
     DEF Next

(* For any number of workers, any lists and any updates, when no request   *)
(* is running: a subscriber whose data now differs from the result cached  *)
(* for its selection was told the current data, unless the publication of  *)
(* the last update meant for it failed or two requests about its list ran  *)
(* at once. The ids that several selections share, the lists that several  *)
(* resources share and the requests about other lists are included.        *)
THEOREM SubscribersAreTold == Spec => []DifferenceIsTold
<1>1. Init => RInv /\ TInv
  <2> SUFFICES ASSUME Init PROVE RInv /\ TInv
    OBVIOUS
  <2>1. RInv
    BY DEF Init, RInv, Alone, Unmoved, Idle
  <2>2. hub \in Seq({})
    BY DEF Init
  <2>3. answered = {} /\ \A w \in Workers : Current(w)
    BY DEF Init, Current, Fresh, Idle
  <2> QED
    BY <2>1, <2>2, <2>3 DEF TInv
<1>2. IInv /\ RInv /\ TInv /\ [Next]_vars => RInv' /\ TInv'
  BY RegisteredNext, ToldNext
<1>3. TInv => DifferenceIsTold
  <2> SUFFICES ASSUME TInv, Quiescent, NEW s \in answered, Differs(s)
               PROVE  \/ Belief(s) = Now(s.fields, s.iri)
                      \/ s \in missed \/ Key(s) \in overlapped
    BY DEF DifferenceIsTold, Differs, Now, Key
  <2>1. WillBeTold(s) /\ \A w \in Workers : ~OnItsWay(s, worker[w])
    BY DEF TInv, Quiescent, OnItsWay
  <2> QED
    BY <2>1 DEF WillBeTold, IsTold
<1> QED
  BY <1>1, <1>2, <1>3, AlwaysInv, PTL DEF Spec
=============================================================================
