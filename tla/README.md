# API Platform Core in TLA+

TLA+ specifications of the parts of `api-platform/core` whose correctness depends on
the order in which things happen: the pipeline that handles a request, the
invalidation of the HTTP cache, the Mercure updates, the GraphQL subscriptions, the
walk of a client through a paginated collection and the HTTP client among the
browser assets. TLC checks them on small instances, TLAPS proves theorems about them
for every value of the constants. Paths below are relative to `src/` of the
repository (`State/…` is `src/State/…`).

## The system

API Platform runs in PHP workers. A worker handles one request at a time, with
an entity manager and service objects of its own. What workers share is outside
PHP: the database, the cache pools, the HTTP reverse proxy, the Mercure hub.
With php-fpm the process state ends with the request; under FrankenPHP, Swoole
or a Messenger consumer the services live on. There are no threads and no locks,
so all the concurrency is between workers, at every access to shared state.

| Component | State it keeps | Operations | Talks to | What makes it correct |
|---|---|---|---|---|
| State pipeline (`Symfony/Controller/MainController.php`, `State/Provider`, `State/Processor`) | the request attributes `data`, `previous_data`, `_api_operation` | negotiate, validate parameters, read, check access, deserialize, validate, write, serialize, respond | Doctrine processors, serializer, validator, access checker | nothing is written that was not validated and authorized on the data that are written; the status tells what was done |
| Doctrine state (`Doctrine/Common/State`, `Doctrine/Orm/State`) | the entity manager: managed entities and snapshots | persist (with the standard PUT), remove, find | the database | a PUT creates or replaces, a PATCH merges, a DELETE removes |
| HTTP cache (`HttpCache`, `Symfony/Doctrine/EventListener/PurgeHttpCacheListener.php`) | tags of the response being rendered; tags to purge | tag a response; collect tags on flush; purge after the flush | normalizers, Doctrine events, the proxy | each response in the proxy that a commit makes stale is purged |
| Mercure (`Symfony/Doctrine/EventListener/PublishMercureUpdatesListener.php`) | storages of created, updated and deleted objects | store on flush; publish after the flush | Doctrine events, serializer, hub or message bus, subscription manager | an update for each committed change, none for another |
| GraphQL subscriptions (`GraphQl/Subscription`) | a cache item per resource: its subscriptions | subscribe; compute the payloads of an update | cache pool, Mercure listener | a subscriber learns of each change of its selection |
| GraphQL (`GraphQl`) | the execution of a query | resolvers, providers and processors per field | state pipeline | the same as the pipeline's, per mutation |
| Pagination (`State/Pagination`, `Doctrine/Orm/Paginator.php`, `GraphQl/State/Processor/NormalizeProcessor.php`, `Hydra/Serializer/PartialCollectionViewNormalizer.php`) | none on the server: an answer carries links, cursors or page numbers, and the client brings them back | page, offset, limit, counts; links and cursors | the paginators of each store | a client that goes from page to page sees each item once |
| Parameters (`State/Provider/ParameterProvider.php`) | the operation's parameters and their values | extract values, call parameter providers | may replace the operation | the values are those of this request and this operation |
| Errors (`Symfony/EventListener/ErrorListener.php`, `ExceptionListener.php`) | the controller to call | map an exception to an error operation | state pipeline | each exception gets its own status and format |
| Symfony event listeners (`Symfony/EventListener`) | request attributes | the pipeline as kernel listeners | state pipeline | the same outcome as the controller |
| Messenger (`Symfony/Messenger`) | none | dispatch the write | a bus | each write dispatched once |
| Metadata (`Metadata`) | caches of resource and property metadata | factories decorated by factories | all | the cached metadata are those computed |
| Serializer and formats (`Serializer`, `JsonLd`, `Hydra`, `Hal`, `JsonApi`, `Problem`) | per call context | normalize, denormalize | identifiers, IRIs | round trips, tags collected |
| Documentation (`OpenApi`, `JsonSchema`, `Documentation`) | none | generate | metadata | pure |
| Fetch client (`public/fetch/fetch.js`, one copy per integration) | the fields of a stream and its buffer | request, redirect, receive, read, end, abort | node's sockets and streams, zlib | the callback is called, once, with the bytes that arrived |
| Scripts of the documentation pages (`public/init-*.js`) | none | start Swagger UI, Redoc, GraphiQL | the bundles beside them | — |
| Elasticsearch, Laravel, RamseyUuid, Validator | — | other stores, another framework, glue | pipeline | — |

### What is hard

- **Between workers.** Read then write without exclusion: the list of the
  subscriptions of a resource; the row that a PUT or a PATCH read, checked,
  validated and answers about; a response rendered while another worker
  commits and purges.
- **Between two steps of one worker.** The tags and the objects to publish are
  collected before the commit and used after it. The statement, the commit, a
  purge request and a publication can each fail in between.
- **Between two requests of one process.** Listeners keep what a failed flush
  left in them.
- **Between two requests of one client.** Each page of a collection is a request
  of its own, of up to three queries, and others insert and delete in between.
- **Between callbacks.** In the fetch client chunks, reads, errors and the end
  come in any order, and bytes wait in three places.
- **In the data.** A managed entity is modified in place before it is validated
  and authorized; only the columns that differ from the snapshot are written;
  tags are compared as strings.

The hazards, each at its line, are listed in `PROJECT.json`, with the properties
that are about them or the reason why none is.

## The modules

Each component is a module of its own, parameterised by `CONSTANTS`; `MC…` modules
give them values for TLC and `…_proofs` modules hold the theorems. An action is
named for the function it models. Operators that follow a comment `Fault:` are
not part of the specifications: they show how the definition after them could be
wrong, and are used to test the properties.

### `StatePipeline`: a request for an item, from the controller to the response

`rows` is the table. `worker[w]` is the request a worker handles: `pc` names the
next provider or processor, `op` the operation with its flags as the metadata give
them (`"default"` for null), `input` what the client sent. `data` tells which
object the chain carries: none, the managed entity (`entity`, with Doctrine's
snapshot `loaded`) or a new object (`fresh`). `previous` is the clone kept in
`previous_data`. There is one action per provider and processor, in the order in
which their work is done; each has a disjunct per early return and exception, and an
exception ends in `Answered` with the status the error listener gives. The
defaults of the flags (`canRead`, `canValidate`…) are those of
`MainController`. The write is split where other workers can come in between:
`ReadProvider` (SELECT), `PersistUpdate` or `PersistInsert` (flush), `Refresh`
(second SELECT). `Updated` writes the columns that differ from the snapshot.
`exempt`, `inserted` and `committed` are history used by the properties.

Abstracted: what a constraint or a security expression says (`ValidRows`, `Frozen`;
the other expressions may deny or not), formats (supported or not), identifiers that
are not found (a row that does not exist), representation. A body is what the client
sent of the properties it may change: those that a security expression of their own
denies are left out, or put back by the loop at the end of
`AbstractItemNormalizer::denormalize`, and `Denormalized` leaves them as they were.
A body that is an IRI and an operation with an input class are not modelled. An
exception of the serializer is a choice between the statuses it can be mapped to.

### `RestStore` and `StoreRefinement`: what a request promises

`RestStore` is the abstract specification: every request takes effect in one
step (`Create`, `Replace`, `Merge`, `Remove`), or not at all (`Refuse`), and is
answered a success only after it. `StoreRefinement` maps the state of
`StatePipeline` to it: a request is `called` until its write is flushed and
`done` from then on; its kind follows from the method and the flags (`custom`
when the flags are not the defaults: such a request only promises to touch one
row at most). `ImplementsStore` holds when requests do not overlap. With two
workers it does not, and no comment of the code claims it: see below.

### `HttpCacheInvalidation`: tags and purges

The resources are books with an author: one association, null or not. `cache` is the
proxy, `reader[r]` a response between the database read and the proxy, `worker[w]` a
flush with `tags`, the list of the `PurgeHttpCacheListener`, and `remaining`, those
the current purge has still to send. `Render` reads the database and computes what
the response shows; `Store` puts it in the cache, possibly after a commit and its
purge (it is then marked `late`). `Load`, `onFlush`, `preUpdate`, `Commit` or
`Rollback`, `postFlush`, `PurgeChunk`…, `PurgeDone` or `PurgeThrows` are the write,
in Doctrine's order of events. `PurgedBy` is the set of tags that purge a response:
it depends on how the tags were computed (path, or absolute URL in plain JSON) and
on how the proxy compares them. A ban is a regular expression anchored at the end of
a tag only: a path is found at the end of an absolute URL, and `/books` at the end
of `/authors/1/books` (`EndingTags`). A surrogate key is compared as a whole. The
constant `Associations` is the order of the mapping, which matters for the `return`
in `gatherRelationTags`.

Abstracted: lengths of headers (a chunk is any set of at most `ChunkSize`
tags), cache lifetimes, other formats, other associations.

### `MercureUpdates`: updates published after a flush

`worker[w].stored` are the three storages of the listener, `queue` the objects
`postFlush` has still to publish. `hub` and `committed` are histories of the updates
received and of the changes committed. A flush may create, update and delete any
resources. The UPDATE writes the columns that differ from what was read (`Written`),
while the update on the hub tells the whole object in memory: it is published by
`postFlush`, before `PersistProcessor` refreshes the object (l.105-107), and shows
the other columns as they were when they were read. An object without assigned
identifier gets one when it is inserted; before, it has no IRI and its publication
throws. `CommitFails` forgets the storages with the process, or keeps them when the
process is `LongRunning`. `PublishThrows` is an exception in the loops: `finally`
resets the storages and what remained is `lost`.

Abstracted: the options of the `mercure` attribute (a resource is published or
not), topics, private updates, the bus (a dispatch is a publication).

### `SubscriptionManager`: GraphQL subscriptions

`pool` maps the cache key of a resource to the list of its entries: id, selection
and the result sent on subscribing. A subscription is three steps: `Subscribe` (the
result is normalized), `SubscriptionKnown` or `SubscriptionUnknown` (the list is
read), `SaveSubscription`. An update is `Load`, `Flush`, `getPushPayloads`, then
`Publish` per payload, or `PublishThrows`: the hub or the bus refuses an update, the
payloads that remain are lost and the request is answered an error, for a change
that is committed. `answered` and `hub` are histories, as are `missed` (the
subscriptions that lost an update and were sent none since) and `overlapped` (the
lists that two requests were about at the same time). The loop of `getPushPayloads`
takes the places of the entries that differ (`Changed`) in their order (`Sorted`, of
`SortedSets`). The id is the selection without the Mercure fields, as the generator
hashes it; the cache key is the IRI with `/` replaced.

### `Pagination` and `CollectionWalk`: a client goes through a collection

`Pagination` is the arithmetic: `getPage`, `getLimit`, `getOffset` and their
exceptions, what a paginator says (`getCurrentPage`, `getLastPage`, `hasNextPage`),
the cursors of `NormalizeProcessor` (`pageInfo`) and the Hydra links.
`CollectionWalk` is a client that uses them: `walk.style` says what it follows
(links forward or backward, links without total, `paginationViaCursor`, page
numbers, cursors forward or backward, cursors of edges). A request is
`addCountToContext`, `getPagination`, then the queries `getIterator` and
`getTotalItems` in the order in which the two APIs run them: the total of a Hydra
collection and the `hasNextPage` of page numbers come before the items, which are
read when they are iterated, and the total of `pageInfo` after them. (`hasNextPage`
is a query for an item after the page when the total is not known, which finds one
when the total at that moment is beyond the page.) `Follow…` is what the client
makes of the answer. `Insert` and `Delete` come between any two steps. `seen`
collects what the client got; `steady` are the items that were there all along.

The database sorts by `Sorted` of `SortedSets`, where an element comes after those
below it.

Abstracted: items are their place in the order; filters other than the cursor's
range filter, representation, and what enables the pagination.

### `FetchStream` and `BytePipe`: the HTTP client of the assets

`request` is node's request and response, `stream` the fields of `FetchStream`
and the variables of `_runStream`, `readable` node's `Readable`, `result` what
`fetchUrl` collects. `runStream`, `dnsCallback`, `onRedirect`, `onResponse` and
`onRequestError` are the request; `receive`, `end`, `error` (zlib's) and
`onClose` the response; `read`, `onData` and `onEnd` the reader, as node's
streams call them. Bytes are numbered, so that a lost, repeated or displaced one
shows. `BytePipe` is the abstract specification: a pipe that lets at most
`limit` bytes through and announces its end when it is empty. The mapping
concatenates the three buffers.

Abstracted: headers, cookies, character sets, the URL of a redirect, timers (a
timeout is one of the ways a request fails), `destroy` called by the caller of
`FetchStream` (`fetchUrl` gives no access to it).

### Correspondences between modules

`Publish` of `SubscriptionManager` is what `publishUpdate` of `MercureUpdates` does
for an updated object after its own update, and `PublishThrows` the exception of the
same loop. `Commit` of `MercureUpdates` and of `HttpCacheInvalidation` is the flush
of `PersistUpdate`, `PersistInsert` and `Remove` in `StatePipeline`: both listeners
run inside that flush.

## What is checked

Every module has a type invariant, `TypeOK`. The instances are in the `.cfg` files.

| Run | Instance | Properties |
|---|---|---|
| `MCSubscriptionManager.cfg` | 2 workers, 3 resources of which two share a list, 2 attributes, 3 selections (two that share an id), 4 requests | `SelectionsDistinct`, `AnsweredIsRegistered`, `DifferenceIsTold` |
| `MCSubscriptionRace.cfg` | 2 workers, 1 resource, 2 selections of different ids, 2 requests | `SubscribersStayRegistered` fails |
| `MCSubscriptionStale.cfg` | 1 worker, 1 resource, 3 requests | `SubscriberUpToDate` fails |
| `MCStatePipeline.cfg` | 1 worker, 2 rows of 2 properties, 18 operations, 12 inputs, 2 requests | `RowsAreValid`, `PutReplaces`, `ImplementsStore` |
| `MCConcurrentRequests.cfg` | 2 workers, 1 row, the guarded operations, 3 requests | `PutStatusTellsCreation`, `PutKeepsItsChanges`, `PatchTouchesItsBody`, `FrozenPropertiesKept` |
| `MCHttpCacheInvalidation.cfg` | 2 workers, 1 reader, 1 book, 1 author or none, 2 titles, 2 formats, bans, every URL (the subresource collection too), chunks of 2, 2 flushes | `StaleIsOwed`, `StaleIsDropped` |
| `MCHttpCacheMapping.cfg` | 1 worker, 2 books, the association to a file first | `StaleIsOwed` fails |
| `MCHttpCacheKeys.cfg` | 1 worker, 2 books, plain JSON, surrogate keys | `StaleIsOwed` fails |
| `MCMercureUpdates.cfg` | 2 workers, 2 resources with 2 columns, 2 flushes | `PublishedWasCommitted`, `CommittedIsPublished`, `LastUpdateIsCurrent` |
| `MCMercureLongRunning.cfg` | 1 long-running worker, 1 resource, 2 flushes | `PublishedWasCommitted` fails |
| `MCCollectionWalk.cfg` | 5 items, 8 styles, pages of -1 to 3 items with a maximum of 2, first pages 0, 1, 2 and 12, integers up to 20, 2 changes | `EachItemOnce`, `LossBoundedByChanges`, `FieldWalkIsExact`, `LinksAreValid`, `WalkEnds` |
| `MCFetchStream.cfg` | bodies of 0 to 6 bytes, buffers of 2, 0 to 2 redirects, no maximum or one of 1 or 3 bytes, with and without lookups | `BodyIsWhatArrived`, `CallsBack`, `ImplementsPipe` |

What the passing runs show:

- *Subscriptions.* However requests interleave, a list never holds a selection
  twice. A list about which no two requests ran at once keeps every confirmed
  client, whatever happens to other lists at the same time; and whoever's
  data differ from the result stored there has been told the current data when no
  request is running, unless the last update meant for it failed to be sent.
- *Requests, one at a time.* Whatever the flags of the operations, a row is
  always one the validator accepts, unless the last operation that wrote it was
  configured without validation; a standard PUT leaves the representation sent.
  The dozen steps of a request implement one step of `RestStore`: an error
  other than a failure to serialize means that nothing was written.
- *Requests, interleaved.* A PUT is answered 201 exactly when it inserted the row,
  although this is decided on a read made long before. (The 200 only tells that it did
  not: a row deleted in between is not there, the UPDATE matches nothing, and
  200 is answered all the same.) A PATCH changes
  properties of its body only; a property all writers protect with
  `object.p == previous_object.p` never changes. Two PUT requests that read the
  same row may leave a mixture of both (only the columns that differ from the
  snapshot are written), so that `PutReplaces` and `ImplementsStore` are
  properties of requests that do not overlap; but what a PUT changed of the row
  it had read is in the row when it has been flushed.
- *HTTP cache.* A response that a commit makes stale is named by a purge that a
  worker has still to send, or that failed; and it is dropped in the end unless a
  purge failed. Responses stored late are excluded: nothing purges those.
- *Mercure.* What is on the hub was committed before; a change committed is
  published once, unless the publication failed; the last update tells the current
  value of each column, except where another worker wrote the column after the
  object was read and before its message (a stale object is published last: a reader
  of the hub sees the old value of a column that its author did not touch), the row
  was gone or a publication failed.
- *Collections.* While nothing changes, a client that follows what it is given,
  whatever it is, sees each item once, in order. While others insert and delete, it
  misses and repeats no more items than there were changes; with
  `paginationViaCursor` on a partial collection, none (with a total, a first answer
  of one page has no next link). It is never refused what it was given, and comes to
  an end.
- *Fetch client.* However chunks, reads, errors and the end interleave, a
  callback without an error gets the bytes that arrived, up to the maximum, once
  and in order. It may get a part of the body, without an error, when the
  connection was cut and node ended the response. It is called, unless what
  ended it all is an error that `fetchUrl` skips, or a cut of which no event tells.

What the failing runs show (the findings in `PROJECT.json`):

- Two concurrent subscriptions to a resource: the entry of one is lost, and with it
  the only one of its id (`MCSubscriptionRace`).
- A change and its reversal: the reversal is not pushed (`MCSubscriptionStale`).
- `return` instead of `continue` in `gatherRelationTags`: the cached response of an
  author goes on without a book that was inserted (`MCHttpCacheMapping`). A deletion
  is not concerned: the response carries the tag of every book it shows.
- Absolute URLs as tags, paths as surrogate keys (`MCHttpCacheKeys`).
- What was stored for a flush that was rolled back is published with the next one, by a
  long-running process (`MCMercureLongRunning`).

### Bounds

Behaviours are bounded by a number of requests (`MaxRequests`), flushes
(`MaxFlushes`) or renderings (`MaxRenders`), named in the guards. Two requests are
enough for one to act on what the other left, and for two to interleave; three let a
third act on what two interleaved ones left. Four subscription or update requests
are subscriptions by two selections, an update and its reversal, or two pairs that
overlap. Two columns tell the one a flush writes from the one its object shows as it
was read. Two books are needed only where an author shows several. Two values per
property tell changed from unchanged; two properties tell a PUT from a PATCH and
make a constraint that relates them. `ChunkSize = 2` makes purges of one full chunk
and one that is not. Five items in pages of at most two are two full pages and one
that is not (fewer items give a last page that is full); a page of three is over the
maximum, pages of 0 and of -1 items are the edges of the arguments, page 12 is over
the largest integer, 20. Two changes can fall into the three queries of one request
or between two requests. Bodies of six bytes fill the buffer of two three times; a
maximum of 1 cuts a chunk inside the buffer, one of 3 inside the next. Deadlock is
not checked: a bounded behaviour ends when no request is left.

### Fairness

`HttpCacheInvalidation` (`StaleIsDropped`): weak fairness of `postFlush`,
`PurgeChunk` and `PurgeDone`, together, for each worker: a PHP process that has
committed runs on to the end of its request. Nothing is assumed of clients, of
readers, of flushes, or of `PurgeThrows`.

`CollectionWalk` (`WalkEnds`): weak fairness of `Step`: a request is answered and
a client that has an answer goes on. Nothing is assumed of those who change the
collection. At most one step is possible at a time, the choice of the size aside.

`FetchStream` (`CallsBack`): weak fairness of `runStream` (a `nextTick`), of
`dnsCallback`, of `Network` and of `Reader`: node runs what is due, and a request
comes to something: to a response that goes on, an error, a timeout or a close.
Which of these is left open; no fairness is assumed of any one of them.

## What is proved

TLAPS checks the `…_proofs` modules. The theorems hold for every value of the
constants that satisfies the named assumption of the module.

- `SubscriptionManager_proofs`: `TypeCorrect`, `NoDuplicateSelection`,
  `RegisteredUnlessOverlapped` and `SubscribersAreTold`, all for any number of
  workers. The first invariant, `IInv`, says that the list a worker is about to
  extend is without duplicates and does not hold the worker's selection; it needs no
  exclusion between workers, because a save replaces the whole list. The others are
  about the lists that are not in `overlapped` (`MCSubscriptionRace` shows why):
  `RInv` says that two requests in progress are about different lists (`Alone`), so
  that the list about to be extended is the one in the pool (`Unmoved`), and that
  every subscription a client was told of is in its list. `TInv` follows the update
  of a resource until it is answered: what the request carries is the committed data
  (`Fresh`), and a subscriber whose data differ from the cached result believes the
  current data, or has missed its last update, or a running request is about its
  resource and has yet to compute its payloads or to publish one with its id
  (`WillBeTold`). Selections that differ only in Mercure fields share an id, and
  IRIs may share a list: `SameData` shows that the first is harmless, and for the
  second the invariant names the IRI of each request and message.
- `StatePipeline_proofs`: `TypeCorrect`; `PatchStaysInItsBody` and
  `FrozenStayUnchanged`, action properties; `CreationIsTold`. The invariant
  `IInv` says of each request, by its `pc`, what has been established: nothing is
  carried before `ReadProvider`; entity, snapshot and clone are equal just after
  it; from deserialization to the write the clone equals the snapshot, and the
  entity differs from it only inside the body and, once checked, not on the
  frozen properties; after the write of a PUT, the row was inserted exactly when
  there is no clone. It never speaks of `rows`, which other workers change, and so
  survives their steps; the change set (entity against snapshot) then bounds what an
  UPDATE changes in whatever row it finds.
  `ChangesAreKept` needs one more invariant, `KInv`: until the write, the object
  of a standard PUT is the representation sent and not the managed entity; after
  it, each property of the row is the one sent, or the one sent was that of the
  snapshot, whatever row the UPDATE found.
- `StoreRefinement_proofs`: `StoreImplemented`, `ValidWhenSerial` and
  `PutReplacesWhenSerial`, for one worker (`Workers = {w}`; the concurrent runs show
  that two break them), any table, mix of flags and input. To `IInv` the invariant
  `SInv` adds what only holds while nobody else writes: the clone is still the row
  (`Current`), the object that waits to be written is what the body makes of that
  row (`BodyIn`), it has been validated (`Validated`), and a method that
  promises an effect has had it when its answer is rendered (`Effective`). Each
  action is then shown to be one step of `RestStore` or none: the flush is
  the effect, an exception a refusal before it or a failure of the output after it.
- `HttpCacheInvalidation_proofs`: `TypeCorrect`; `NothingStaleForgotten`, that
  `StaleIsOwed` is an invariant under `Configured`: the association to the author is
  reached, and the proxy bans by regular expression, or responses are JSON-LD and
  none is that of a subresource collection. The two failing runs and the hazard on
  subresources show why each part is needed. The inductive invariant adds that the
  tags collected by a worker cover the change it is about to commit. The heart is
  `ChangeIsTagged`: a response whose view a commit changes carries one of these
  tags: the tag of the book when it showed the book, the tag of the new author or of
  the collection when it shows it from now on (a ban of the collection finds those
  of subresources too). It needs that an UPDATE only changes the columns its worker
  changed.

- `MercureUpdates_proofs`: `TypeCorrect`; `NothingUncommittedPublished` and
  `CommittedIsTold`, for any number of workers, flushes and failures. Both assume
  `~LongRunning`, and the run `MCMercureLongRunning` shows that they must. The
  invariant `MInv` follows each change from the flush to the hub. A flush has a
  number no other has, and one change per resource; the storages hold its changes to
  published resources and nothing else (this is what a storage that survives a
  failed flush breaks); what is queued was committed; a message is on the hub once
  and no longer queued; and a committed change is on the hub, in the queue of its
  worker, still stored, or lost with a publication that threw. The second part of
  the module proves `FollowerIsCurrent`, that `LastUpdateIsCurrent` is an invariant
  under `~LongRunning`. To `MInv` the invariant `OInv` adds the order: a column is
  as a commit wrote it, or as its object was read, unless a later commit wrote it
  (`Reflects`, `RowsReflect`, and `Snapshot` for what a worker has read); a worker
  reads after its own commits (`ReadFirst`); a flush commits a resource once
  (`CommitsOnce`); a worker publishes its last commits before it commits again
  (`LastOf`), so that no later commit of the same worker lies between a commit and
  its message (`HubInOrder`). What comes after the last message about a resource is
  then another worker's commit, which is `Overtaken` if it came before the message,
  or else would have a later message of its own.
- `FetchStream_proofs`: `TypeCorrect`, `BodyArrives`, and `PipeImplemented`: that
  `FetchStream` implements `BytePipe`, for bodies, chunks, buffers and maxima of
  any size. The invariant `FInv` says that chunks collected, bytes in node's
  buffer and bytes in FetchStream's, one after the other, are those that arrived up to
  the maximum (`Arrived`); that bytes wait in FetchStream only while nothing is asked
  for (`Asked`); and that the end goes through the three places after them
  (`EndsInOrder`), which makes `Pipe!Finish` possible only when all is read.
- `SortedSets_proofs`: no theorem of a run, but the lemmas the next module needs:
  how the elements of a finite set of numbers lie in their order (`SortedIs`,
  `BandIs`, `BandsMeet`), how positions move when a number is put in or taken out
  (`PutIn`, `TakenOut`), and what reading the elements between two positions adds to
  what was lost and repeated (`ReadForth`, `ReadBack`, `ReadRear`). `Sorted` gives each
  element by the number of those before it, so that none of this needs induction.
- `CollectionWalk_proofs`: every safety property of the walk, for any collection,
  limit, first page, style and number of changes. `WalkIsTyped` needs no
  hypothesis. The others assume `PagesHoldItems` (`items_per_page` is
  positive and `maximum_items_per_page` is not 0): with pages of 0 items a walk never
  gets anywhere, and the properties speak of walks that end.
  - `RequestsOfAnswersAreValid` assumes also that there are at most `PHP_INT_MAX` items,
    as `getPagination` rejects offsets beyond it. The invariant `Bounded` says
    where the cursors and pages the client was given lie.
  - `FieldWalksAreExact`: `UpToTheCursor` says that what was seen is increasing, lies
    up to the cursor, and holds each item up to it that was there all along.
    Positions do not occur in it, and so changes do not disturb it.
  - `WalksSeeEachItemOnce`: while nothing has changed, `OnCourse` says that what was
    seen is a band of the sorted collection: up to the offset on the way forth, from the
    end of the page on the way back.
  - `LossesAreBounded`: `LossIsBounded` weighs what is lost and repeated already
    with what is bound to be, given the position of the client: an item that
    was there all along, was not seen and lies before that position is lost, and one
    that was seen and lies behind it will be repeated. Each change adds at most one to
    either sum, whatever the moment between the queries of a request; no
    step of the client adds any.

Only model-checked: liveness (`StaleIsDropped`, `WalkEnds`, `CallsBack`), which is
out of reach of the prover. Every other property of a run that passes is a theorem.

## Not modelled

Generators and translations (OpenAPI, JSON Schema, hypermedia formats, Doctrine
filters, GraphQL types), configuration of the container, Elasticsearch,
Laravel and the metadata factories: the component list in `PROJECT.json`
gives a reason for each.

Most of the JavaScript of the repository is third-party bundles (Redoc, Swagger
UI, GraphQL Playground), minified, a few lines of any length each: they are not
part of this system. The scripts that start them press buttons of pages these
bundles render. `fetch.js` is the one that has a protocol of its own; of the two copies,
the one under `Symfony/Bundle/Resources/public` is modelled.

Within the modelled components are left out:

- transactions opened around a request, nested flushes, lengths of headers, the
  options of the `mercure` attribute;
- `last` greater than `maximum_items_per_page`, and the cursors of edges of a page
  asked with `before` or `last`: the arguments only work one way, and with these
  combinations a walk misses items. Neither the arguments' descriptions nor a
  test says how they combine;
- a backward cursor that deletions have left behind the end, which is answered with
  the same empty page again and again (`WalkEnds` excludes it), a collection that
  has shrunk to one page and has no links (`LossBoundedByChanges` excludes walks
  back by links), and walks with pages of 0 items, which have no end;
- the paginators of arrays and traversables.

## Plan

1. `StatePipeline`, `HttpCacheInvalidation`, `MercureUpdates`,
   `SubscriptionManager` with their runs and first theorems (done).
2. `RestStore`, an abstract store whose operations are atomic, and the refinement
   that shows `StatePipeline` for one worker to implement it, checked and proved
   (done).
3. `Pagination` and the walk through a collection (done); `FetchStream` and the
   pipe it implements, with its proofs (done); proofs of `MercureUpdates` and of
   `CollectionWalk` (done).
4. `Parameters` and error handling: the loop over the parameters with providers
   that replace the operation; the listener that handles several exceptions.
5. The chunks of the purgers, with the lengths of tags and headers.
6. The pipeline of GraphQL mutations, the kernel listeners as another
   implementation of `StatePipeline`'s steps, Messenger.
7. Proofs: `StoreRefinement`, `SubscriptionManager` for one worker and the order of
   the messages on the hub (done);
   lemmas on `Pagination` (a page is the slice between its cursors).
