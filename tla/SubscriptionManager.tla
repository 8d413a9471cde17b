------------------------- MODULE SubscriptionManager -------------------------
(***************************************************************************)
(* GraphQL subscriptions: the SubscriptionManager keeps, in a cache pool   *)
(* shared by all PHP workers, one item per resource IRI; the item is the   *)
(* list of [subscription id, selected fields, result sent on subscribing]. *)
(* A subscription request appends to the list with a read, then a save; a  *)
(* resource update reads the list and pushes the new data to the Mercure   *)
(* topic of every entry whose result differs.                              *)
(***************************************************************************)
EXTENDS Naturals, Sequences, SortedSets

CONSTANTS
  Workers,     \* PHP workers, each handling one request at a time
  Iris,        \* IRIs of the resources, as sequences of characters
  Attrs,       \* attributes of the resource that can be selected
  MetaAttrs,   \* mercureUrl, clientSubscriptionId: selected, never data
  Vals,        \* values of an attribute
  Selections,  \* the field selections the clients use
  MaxRequests, \* bound: requests handled in a behaviour
  NoIri        \* the IRI of an idle worker

ASSUME ConstantsAssumption ==
  /\ Selections \subseteq SUBSET (Attrs \cup MetaAttrs)
  /\ Attrs \cap MetaAttrs = {}
  /\ NoIri \notin Iris
  /\ MaxRequests \in Nat

VARIABLES
  stored,   \* the committed value of every resource
  pool,     \* the subscriptions cache: cache key -> list of entries
  worker,   \* per worker: the request it is handling
  requests, \* requests started so far
  answered, \* history: the subscriptions confirmed to a client
  hub,      \* history: the updates published on the Mercure hub, in order
  missed,   \* history: the subscriptions whose last update failed to be sent
  overlapped \* history: the keys two requests were about at the same time

vars == <<stored, pool, worker, requests, answered, hub, missed, overlapped>>

Value == [Attrs -> Vals]

encodeIriToCacheKey(iri) ==
  [i \in DOMAIN iri |-> IF iri[i] = "/" THEN "_" ELSE iri[i]]

Keys == {encodeIriToCacheKey(iri) : iri \in Iris}

(* A hash of the selection without the two Mercure fields.                 *)
generateSubscriptionIdentifier(fields) == fields \ MetaAttrs

(* The data of a subscription payload, clientSubscriptionId removed.       *)
Normalize(fields, value) == [a \in fields \cap Attrs |-> value[a]]

(* Fault: the id of all the fields, the Mercure ones included.             *)
EntryOfAllFields(fields, result) ==
  [id |-> fields, fields |-> fields, result |-> result]

Entry(fields, result) ==
  [id |-> generateSubscriptionIdentifier(fields), fields |-> fields,
   result |-> result]

Entries ==
  UNION {[id : {generateSubscriptionIdentifier(f)}, fields : {f},
          result : [f \cap Attrs -> Vals]] : f \in Selections}

Idle == [pc |-> "idle", iri |-> NoIri, fields |-> {}, result |-> <<>>,
         items |-> <<>>, object |-> <<>>, payloads |-> <<>>]

Init ==
  /\ stored \in [Iris -> {[a \in Attrs |-> v] : v \in Vals}]
  /\ pool = [k \in Keys |-> <<>>]
  /\ worker = [w \in Workers |-> Idle]
  /\ requests = 0
  /\ answered = {}
  /\ hub = <<>>
  /\ missed = {}
  /\ overlapped = {}

(* A request about the resource starts while another one is about a        *)
(* resource of the same key.                                               *)
Start(w, iri) ==
  /\ worker[w].pc = "idle"
  /\ requests < MaxRequests
  /\ requests' = requests + 1
  /\ overlapped' = overlapped \cup
       {k \in {encodeIriToCacheKey(iri)} :
          \E v \in Workers \ {w} :
            worker[v].pc # "idle" /\ encodeIriToCacheKey(worker[v].iri) = k}

-----------------------------------------------------------------------------
(* A subscription request: the item is read and normalized, then the list  *)
(* is read from the pool, then written back with one more entry.           *)

Subscribe(w, iri, fields) ==
  /\ Start(w, iri)
  /\ worker' = [worker EXCEPT ![w] =
       [Idle EXCEPT !.pc = "normalized", !.iri = iri, !.fields = fields,
                    !.result = Normalize(fields, stored[iri])]]
  /\ UNCHANGED <<stored, pool, answered, hub, missed>>

Subscription(r) ==
  [iri |-> r.iri, fields |-> r.fields, result |-> r.result,
   since |-> Len(hub)]

Answer(w) ==
  /\ answered' = answered \cup {Subscription(worker[w])}
  /\ missed' = missed \ {Subscription(worker[w])}
  /\ worker' = [worker EXCEPT ![w] = Idle]

SubscriptionKnown(w) ==
  /\ worker[w].pc = "normalized"
  /\ \E i \in DOMAIN pool[encodeIriToCacheKey(worker[w].iri)] :
       pool[encodeIriToCacheKey(worker[w].iri)][i].fields = worker[w].fields
  /\ Answer(w)
  /\ UNCHANGED <<stored, pool, requests, hub, overlapped>>

(* Fault: the list is not searched for the selection.                      *)
SubscriptionUnsearched(w) ==
  /\ worker[w].pc = "normalized"
  /\ worker' = [worker EXCEPT ![w].pc = "fetched",
       ![w].items = pool[encodeIriToCacheKey(worker[w].iri)]]
  /\ UNCHANGED <<stored, pool, requests, answered, hub, missed, overlapped>>

SubscriptionUnknown(w) ==
  LET items == pool[encodeIriToCacheKey(worker[w].iri)]
  IN  /\ worker[w].pc = "normalized"
      /\ \A i \in DOMAIN items : items[i].fields # worker[w].fields
      /\ worker' = [worker EXCEPT ![w].pc = "fetched", ![w].items = items]
      /\ UNCHANGED <<stored, pool, requests, answered, hub, missed, overlapped>>

(* Fault: the list saved is not the one read with an entry more.           *)
SaveSubscriptionAlone(w) ==
  /\ worker[w].pc = "fetched"
  /\ pool' = [pool EXCEPT ![encodeIriToCacheKey(worker[w].iri)] =
       <<Entry(worker[w].fields, worker[w].result)>>]
  /\ Answer(w)
  /\ UNCHANGED <<stored, requests, hub, overlapped>>

SaveSubscription(w) ==
  /\ worker[w].pc = "fetched"
  /\ pool' = [pool EXCEPT ![encodeIriToCacheKey(worker[w].iri)] =
       Append(worker[w].items, Entry(worker[w].fields, worker[w].result))]
  /\ Answer(w)
  /\ UNCHANGED <<stored, requests, hub, overlapped>>

-----------------------------------------------------------------------------
(* An update request: the worker loads the object, changes an attribute    *)
(* and flushes it; postFlush then asks for the push payloads of its own    *)
(* copy of the object and publishes them one after the other.              *)

Load(w, iri) ==
  /\ Start(w, iri)
  /\ worker' = [worker EXCEPT ![w] =
       [Idle EXCEPT !.pc = "loaded", !.iri = iri, !.object = stored[iri]]]
  /\ UNCHANGED <<stored, pool, answered, hub, missed>>

Flush(w, a, v) ==
  /\ worker[w].pc = "loaded"
  /\ v # worker[w].object[a]
  /\ stored' = [stored EXCEPT ![worker[w].iri][a] = v]
  /\ worker' = [worker EXCEPT ![w].pc = "flushed", ![w].object[a] = v]
  /\ UNCHANGED <<pool, requests, answered, hub, missed, overlapped>>

(* The places of the entries whose result differs from the object's data.  *)
Changed(items, object) ==
  {i \in DOMAIN items :
     Normalize(items[i].fields, object) # items[i].result}

Payload(entry, object) ==
  [id |-> entry.id, data |-> Normalize(entry.fields, object)]

(* Fault: the loop stops at the first entry that differs.                  *)
FirstPayload(items, object) ==
  LET due == Sorted(Changed(items, object))
  IN  IF due = <<>> THEN <<>> ELSE <<Payload(items[due[1]], object)>>

(* The payloads of an object against a list of entries, in list order.     *)
Payloads(items, object) ==
  LET due == Sorted(Changed(items, object))
  IN  [k \in DOMAIN due |-> Payload(items[due[k]], object)]

getPushPayloads(w) ==
  /\ worker[w].pc = "flushed"
  /\ worker' = [worker EXCEPT ![w].pc = "publishing",
       ![w].payloads = Payloads(pool[encodeIriToCacheKey(worker[w].iri)],
                                worker[w].object)]
  /\ UNCHANGED <<stored, pool, requests, answered, hub, missed, overlapped>>

(* The topic is made of the id; the resource is named by the data.         *)
IsFor(payload, iri, s) ==
  payload.id = generateSubscriptionIdentifier(s.fields) /\ iri = s.iri

Publish(w) ==
  /\ worker[w].pc = "publishing"
  /\ worker[w].payloads # <<>>
  /\ hub' = Append(hub, [id |-> Head(worker[w].payloads).id,
                         iri |-> worker[w].iri,
                         data |-> Head(worker[w].payloads).data])
  /\ missed' = {s \in missed :
                 ~IsFor(Head(worker[w].payloads), worker[w].iri, s)}
  /\ worker' = [worker EXCEPT ![w].payloads = Tail(@)]
  /\ UNCHANGED <<stored, pool, requests, answered, overlapped>>

(* The hub or the bus throws: the flush is committed, what was not sent    *)
(* yet never is, and the request is answered with an error.                *)
PublishThrows(w) ==
  /\ worker[w].pc = "publishing"
  /\ worker[w].payloads # <<>>
  /\ missed' = missed \cup
       {s \in answered : \E i \in DOMAIN worker[w].payloads :
          IsFor(worker[w].payloads[i], worker[w].iri, s)}
  /\ worker' = [worker EXCEPT ![w] = Idle]
  /\ UNCHANGED <<stored, pool, requests, answered, hub, overlapped>>

Respond(w) ==
  /\ worker[w].pc = "publishing"
  /\ worker[w].payloads = <<>>
  /\ worker' = [worker EXCEPT ![w] = Idle]
  /\ UNCHANGED <<stored, pool, requests, answered, hub, missed, overlapped>>

Next ==
  \E w \in Workers :
    \/ \E iri \in Iris, fields \in Selections : Subscribe(w, iri, fields)
    \/ SubscriptionKnown(w)
    \/ SubscriptionUnknown(w)
    \/ SaveSubscription(w)
    \/ \E iri \in Iris : Load(w, iri)
    \/ \E a \in Attrs, v \in Vals : Flush(w, a, v)
    \/ getPushPayloads(w)
    \/ Publish(w)
    \/ PublishThrows(w)
    \/ Respond(w)

Spec == Init /\ [][Next]_vars

-----------------------------------------------------------------------------
(* Properties                                                              *)

(* Types of the state: the shape of every cached entry included.           *)
TypeOK ==
  /\ stored \in [Iris -> Value]
  /\ DOMAIN pool = Keys
  /\ \A k \in Keys : \A i \in DOMAIN pool[k] : pool[k][i] \in Entries
  /\ \A w \in Workers :
       worker[w].pc \in {"idle", "normalized", "fetched", "loaded",
                         "flushed", "publishing"}
  /\ requests \in 0..MaxRequests

(* However the read and the save of concurrent subscription requests       *)
(* interleave, the list of an item never holds a selection twice: a        *)
(* subscriber is never sent the same update twice for one selection.       *)
SelectionsDistinct ==
  \A k \in Keys : \A i, j \in DOMAIN pool[k] :
    pool[k][i].fields = pool[k][j].fields => i = j

Registered(s) ==
  \E i \in DOMAIN pool[encodeIriToCacheKey(s.iri)] :
    pool[encodeIriToCacheKey(s.iri)][i].fields = s.fields

(* A client that was answered with a Mercure URL keeps an entry in the     *)
(* list of its resource, whatever the other workers do with other lists,   *)
(* as long as no two requests about the list were handled at once.         *)
AnsweredIsRegistered ==
  \A s \in answered :
    encodeIriToCacheKey(s.iri) \in overlapped \/ Registered(s)

(* "Manages all the queried subscriptions by creating their ID and saving  *)
(* to a cache the information needed to publish updated data": it is saved *)
(* for every client that was answered.                                     *)
SubscribersStayRegistered == \A s \in answered : Registered(s)

(* Positions of the hub where subscription s is told about its resource.   *)
Told(s) == {i \in (s.since + 1)..Len(hub) : IsFor(hub[i], hub[i].iri, s)}

(* What the client of s believes the selected data to be.                  *)
Belief(s) ==
  IF Told(s) = {} THEN s.result
  ELSE hub[CHOOSE i \in Told(s) : \A j \in Told(s) : j <= i].data

Quiescent == \A w \in Workers : worker[w].pc = "idle"

(* When no request is running, a subscriber whose resource differs from    *)
(* the result stored with its entry was told the current data, unless the  *)
(* last update meant for it failed to be sent or requests about the list   *)
(* overlapped: neither an id two selections share, nor a list two          *)
(* resources share, nor what other workers do keeps it from being told.    *)
DifferenceIsTold ==
  Quiescent =>
    \A s \in answered :
      LET items == pool[encodeIriToCacheKey(s.iri)]
          now == Normalize(s.fields, stored[s.iri])
      IN  (\E i \in DOMAIN items :
             items[i].fields = s.fields /\ items[i].result # now)
            => \/ Belief(s) = now
               \/ s \in missed
               \/ encodeIriToCacheKey(s.iri) \in overlapped

(* "Subscribes to the update event of a ...": when no request is running,  *)
(* a subscriber knows the current data of its resource, unless the last    *)
(* update meant for it failed to be sent.                                  *)
SubscriberUpToDate ==
  Quiescent =>
    \A s \in answered :
      Belief(s) = Normalize(s.fields, stored[s.iri]) \/ s \in missed
=============================================================================
