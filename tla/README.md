# Verification of the Akeneo mock server

TLA+ models of `akeneo_mock_server`, a FastAPI application over PostgreSQL that mimics the
REST API and the Event Platform of the Akeneo PIM. The models are written from the Python and
SQL sources; paths below are relative to the repository, lines are those of the commit the
project was written for.

## 1. The system

One uvicorn worker runs one Python process. What makes it hard is the way handlers run:

* An `async def` handler (every POST and PATCH of entities and subscriptions) runs on the event
  loop. Its database calls are *synchronous*, and there is no `await` between the reading of the
  body and the return, so nothing else runs on the loop until it is done, not even when a
  statement waits for a row lock. The handlers of attribute options read the attribute *before*
  they wait for the body.
* A plain `def` handler (every DELETE, suspend, resume, and all GETs) runs in a worker thread.
  Its SQL statements interleave with everything else.
* `get_db` (`database.py:490`) is a generator dependency: the transaction is rolled back and the
  connection returned when its exit runs, and the *loop* has to dispatch that exit to a thread.
* PostgreSQL runs at READ COMMITTED. Locks are held until the transaction ends.
* Events are background tasks: they run on the loop after the response has left, one after the
  other per request, and live nowhere but in the process.
* An administrative request (`routers/admin.py`) is an async handler over synchronous calls: it
  keeps the loop from its first statement to its answer, while the worker threads go on.

### Components

| Component | State | Operations | Interacts with | Hard part | Right when | Model |
|---|---|---|---|---|---|---|
| Subscription endpoints, `routers/event_platform.py:129-245` | table `subscriptions` | create, PATCH (loop); DELETE, suspend, resume (threads) | read by the dispatch of events | `SELECT ... FOR UPDATE` on the loop and in threads | every request acts atomically, nobody waits for ever | `Subscriptions`, `SubscriptionRegistry`, `SubscriptionsProofs` |
| Subscriber endpoints, `:68-108` | table `subscribers` | create, PATCH, DELETE | read by the dispatch | PATCH reads without a lock | a deleted subscriber is not brought back | `EventDispatch` |
| Product endpoints, `routers/rest.py:857-1138` (products, products-uuid) | table `products`, two keys: id and uuid | POST, PATCH, batch PATCH (loop); DELETE (thread) | queue events | two unique keys, renames, batches that fail half-way, DELETE between check and write | accepted means stored, refused means unchanged, a product keeps its uuid | `ProductStore`, `ProductStoreProofs` |
| Other entities, same handlers, third branch | one table each, `data` columns | same | queue events, are referenced by products | validation per line | same, and references hold when checked | `Catalog`, `CatalogProofs`, for attributes and families; `PlainEntities`, `PlainEntitiesProofs`, for those without events; `Values` for those with values |
| Sub-entities and options, `rest.py:1141-1464` | tables keyed by id with `parent_id` | POST, PATCH, batch PATCH | queue events | the key does not contain the parent; a check before an `await` | children fit their parent when stored, batches do what they report | `Catalog`, `CatalogProofs`, for options and variants |
| Event dispatch, `events.py:467-641` | background tasks, `DELIVERY_LOGS` | look up deliveries, POST, log | reads both tables while they change; webhook targets | slow or dead targets, crashes, stale lookups | every event is tried on who wants it, in order | `EventDispatch`, `EventProofs` |
| Event contents, `events.py:119-335` | none | delta of two documents, facts for filters | called by dispatch | events overtake each other and get lost | who follows the deltas has what is stored | `Contents`, `EventProofs` |
| Filter expressions, `events.py:338-464` | none | parse, evaluate | called by dispatch | a parser that evaluates while it reads | what was accepted never raises, and means what the grammar says | `EventFilter`, `EventProofs` |
| Databases and pools, `database.py`, `routers/admin.py` | databases, `_known_databases`, `_db_pools`, `_db_pool_urls` | `get_db`; ensure, init, clear, backup, restore, destroy | every request | unlocked dictionaries, sessions terminated under others, limits of threads and connections | a known database is ready, a failed restore loses nothing | `Databases`, `DatabasesProofs` |
| Listing, `rest.py:704-838`, `pagination.py` | none (cursors are in the links) | page, search_after, search | reads tables that change | rows dropped after LIMIT, writes between pages | a full walk returns what was there throughout, nothing twice | `Listing`, `ListingProofs` |
| Search, `search_filters.py` | none | WHERE clause, match in Python | used by listing | two evaluations of one rule, LIMIT between them | equals matching everything | `SearchFilters`, `ListingProofs` |
| PATCH semantics, `common.py:54-104` | none | `apply_patch`, `merge_value_locale_scope` | used by every PATCH | recursion, nulls, duplicates | it sets what it names and leaves everything else | `Contents`, `EventProofs` |
| Validation, `rest.py:121-511` | none | rules of values, of families, of variants | reads attributes, options, families | rules change after documents were stored | what is accepted fits the rules in force | `Values`, `ValuesProofs`; references in `Catalog` |
| Application shell, `app.py`, `__main__.py` | none | exception handlers, database of a request, start | everything | restart | | the header and restart in `Databases`, error codes elsewhere |
| Media files and jobs, `rest.py:1470-1560`; Pydantic models; developer scripts | none | | | | | not modelled |

## 2. The modules

`Subscriptions` — one request at a time per connection, each with a program counter that stands
between two statements of its handler. `row` is the committed table, `holder` the row locks,
`loop` the request whose async handler occupies the event loop. A document has a status and one
other field (`config`), because a lost update needs two fields to show. `CreateSelect`,
`CreateInsert`, `PatchSelect`, ... are the statements; `DispatchExit` and `Rollback` the two
halves of the exit of `get_db`: the first needs the loop, the second happens in a thread.

`SubscriptionRegistry` — what the endpoints promise: a table on which every request acts in one
step between question and answer. `Subscriptions` implements it under the mapping that sees a
request as answered once its handler has settled on a status.

`ProductStore` — the table `products` as a function from ids to rows with a uuid and abstract
contents. `mine[r]` is what the open transaction of r has written; `View(r)` is what its
statements see, `Blocks`/`Free` whether another transaction makes them wait, on the row or on the
unique index. Contents may be refused by validation (`Invalid`) or be JSON null where an object
is (`Nulled`, which `apply_patch` rejects). An identifier or a uuid may be null as well; for a uuid this stands for
everything that `_ensure_product_uuid` takes for none. POST refuses it; PATCH and batch, whose bodies are not validated
(`rest.py:87-88`), lay it over the row's and get a new uuid (`PatchedUuids`), or fail on the NOT NULL of the
identifier (`BatchNullId`). A handler is two or three steps between its
statements: reading (`PostRead`, `PatchReadRow`, `BatchRead`, `DeleteRead`), checking the other
key, writing and committing. A batch repeats this per line in one transaction.

`Catalog` — attributes, families, options and variants in one function from keys to rows with a
parent and the one field the checks look at: the type of an attribute, the attributes of a family or
of a variant. Requests run as in `ProductStore`, one step per statement. `CheckParent` and
`BodyArrives` are the two sides of the `await` in the handlers of options: between them the loop
is free. `ReferencesHold` is what `_validate_family` and
`_validate_family_variant_attribute_sets` accept. `Found` looks a child up below its parent, but
`Upserted` writes by id alone, and so takes the child from another parent. A null for the type of an
attribute and a scalar for a list in a batch of parents are left out, as named in `IsCall`.

`Values` — one document (a product, a product model or a published product) and the rules for its
values: the types and limits of attributes, options, the attributes of a family. `Read`, `Validate` and
`Store` are the parts of a handler on the loop, between which DELETEs of attributes, families and of
the row itself come from threads; what changes rules by POST or PATCH needs the loop. `Patched` is what
the handler has read: PATCH of an entity without events reads only the columns the body names
(`rest.py:987`). `AttributeValueFits` translates `_validate_attribute_value` type by type. There is one
entry per attribute; numbers are counted in halves, dates are in one time zone, `NaN` and `Infinity`
are values of their own, and a rule has only the limits its type looks at.

`EventDispatch` — `todo` holds the events a response left behind, `roster` the subscribers
`find_deliveries` has still to visit, `plan` the deliveries found, `wire` the POSTs under way.
A scan is one step per SELECT and keeps the loop; between Post and Finish the loop is free.
Each delivery is built and, but for a legacy type, filtered when its turn comes: `raises` are the types for which
making the data of an event raises (`BuildRaises`), `passes` the types that the filter of a subscription lets through
(`Skip`). An exception ends the task and those behind it (`Abandon`).
The target takes a POST in and answers, answers with an error, not in time, or bit by bit ("trickle", until
`EndAnswer`); what was given up may still be taken in later. Subscriptions change by single steps, which is what
`Subscriptions` refines. PATCH of a subscriber reads and writes in two steps, as it takes no lock. `Crash`
forgets all that lives in the process. `stopped` and `dismissed` are history variables: how many events
there had been when a subscription last became inactive, or its subscriber was last deleted.

`PlainEntities` — the entities whose changes announce nothing, in two databases of which one may have no tables. Their
PATCH reads only the columns that the body has objects or nulls for (`Selected`), as far as `columns`, the cache
for all databases, knows them, and writes the columns that the result names. Rows have properties that are
objects (sets of keys) and others; `Documents` are the entities with one column for all of it, of which the model declares
but a few (`Modelled`). `ReadColumns`, `Select` and `Write` are the statements of a handler, `broken` the
connections that a restore has terminated. Left out: a property with the name `data`.

`EventFilter` — `_FilterParser`, which evaluates while it reads. The methods call each other on what follows, so what they
make of the tokens from a position on is a function of what they make of those from later ones: `Parses` maps each
position to the results of `parse_not` (with `parse_atom`), `parse_and` and `parse_or` from there (`ParseNot`, `ParseAnd`,
`ParseOr`), each with the position it gets to, 0 for ValueError, and the truth. `ParseLeaf` is a condition on a field,
`Strings` the list in it. The loops over "and" and "or" gather to the left; `ParseAnd` and `ParseOr` gather to the
right, which is the same as "and" and "or" are associative and both sides are read. The grammar below them has no
parser: `Readings` collects every truth that some way of reading the tokens gives.

`Contents` — one entity, the events about it and two subscribers, one of them behind a filter. JSON
is explicit, because `ApplyPatch`, `MergeValueLocaleScope` and
`ComputeDeltaChanges` are modelled in full, with the changes at the path at which the event carries
them. Objects, lists and scalars are records that their field tells apart (`IsDict`, `IsList`). `Reached` follows a path of keys
into a document; the recursion of `apply_patch` is a function of the path, `PatchedAt`, which needs itself only at longer paths.
`IsDocument` is what the parser of JSON guarantees of a body: keys are strings (`Names`), lists are sequences, and
objects are in each other at most `MaxDepth` deep. `NodesOf` are the paths of a document with what is there, an object counting
only as an object; the entries of "values" are nodes by attribute, locale and scope. `stored` holds the document there is, or nothing. `pending` are the events, each with the number of its change, the
documents before and after it. What a subscriber has is a set of cells, each a path and what is there
(`View`): it reads the entity when it is announced as created and applies the changes of delta
events otherwise (`Apply`). Deliveries come late or never; `doubtful` remembers what those were about.
A handler is one step, as its races are the subject of `ProductStore` and `EventDispatch`.

`Databases` — the names of databases with what is in each (nothing, no tables, ready), the caches
`known`, `pool` and `url`, the `ConnectionPool` objects with their idle connection, and requests
that walk through `get_db_pool` one line at a time: `Look`, `Take`, `Recheck`, `Close`, `Create`,
`Publish`, `PublishUrl`, `Connect`. A thread of the limited number is needed from `look` to `connect` and
again for the handler of a GET (`Work`), but not in between. Administrative requests are sequences of
steps that keep the loop (`admin`). `Terminate` breaks connections in pools and in the hands of
requests; PostgreSQL drops or copies only a database without sessions. `Restart` loses the process.
A pool nobody refers to any more is collected (`Swept`), which closes it. `close_db_pool` walks the dictionary and
closes one pool per step, with threads between them (`DestroyCloseAll`, `DestroyCloseNext`); when a thread has stored a
pool under a new key meanwhile, the walk raises RuntimeError and takes out nothing. `disturbed`,
`hurt`, `touched` and `stranded` are history variables; `stranded` are the databases whose pool such a walk has left
closed in the dictionary.

`SearchFilters` — the rules of a search, twice: `SqlClause` as PostgreSQL evaluates it (LIKE with its
wildcards and its escape, three-valued NULL), `MatchesFieldRule` as Python does. A pattern is a sequence of tokens that
take one letter, any number or none; `Like` asks where a match of its first tokens may end.

`Listing` — a table, and one walk by page numbers or by cursor that follows the `next` links while
rows come and go. One SELECT is one step. With a search all rows are fetched, matched and cut in
Python; `SearchProductsUuid` is the search with LIMIT. Codes are numbers in the order of the
path a walk takes, and some of them are not valid codes, which listings leave out.

Operators commented as *Variant* are deliberately wrong versions of the operator after them.
Each stands for a plausible mistake in the code (a dropped lock, a missing rollback, a retry) and
breaks a property, which shows that the property constrains the code.

### Abstractions

* A statement that waits is re-evaluated on the table as it is when the lock is granted. In
  `ProductStore` the DELETE keeps the row it had picked, as PostgreSQL does: if that row is gone it
  deletes nothing.
* UPDATE and COMMIT of a row already locked are one step, as nobody can see between them.
* Elsewhere than in `Values`, validation is reduced to a set of contents that it refuses; the text of
  errors is left out everywhere.
* Requests of listing never write and are left out of the write models.

## 3. The runs

| Run | Instance | Shows |
|---|---|---|
| `registry` | 2 requests, 1 subscription, 2 bodies, fair | a write is never computed from a stale read (`NoStaleWrite`); locks belong to live requests (`LocksAreOwned`); refinement of the registry (`RegistrySpec`); every request is answered unless the loop is stuck (`AnsweredUnlessStuck`) |
| `products` | 2 requests of 21 kinds, 2 ids, 4 uuids, 3 initial tables | `Only500s`: a violated constraint meets only one kind of batch line; `UuidKept`: a product changes its uuid only by a request that names another one for it, or one that is none; `EventsMatchRows`, `AcceptedIsStored`; `ChangesAreAnnounced`: a row changes only as a request commits that succeeds and announces it, so a refused one has left nothing at any time; `NeverStuck`: but where `LoopStuck`, a request has nothing to wait for |
| `catalog` | 2 requests of 17 kinds on 2 attributes, 2 families, 1 option, 1 variant | `ChildrenFit`: nothing but a DELETE comes between the check of a family and the commit of its variant, and an option is below an attribute that has options unless the attribute moved during the `await`; `EventsMatchRows`, `AcceptedIsStored` |
| `values` | 1 document of each entity, one attribute with 16 sets of rules and one with none, 1 family, 2 options, 18 values | `AcceptedFits`: what is stored fits the limits, the options and the family in force at that moment, stated rule by rule and not type by type |
| `dispatch` | 2 requests, 2 events, 1 subscription with 2 types, with a filter or not, or null, log of 1, 1 crash | `InactiveMissesLaterEvents`, `InOrder` |
| `dispatch_tried` | 1 request, 2 events, 2 subscriptions to 1 type, one of which may have null, no crash, fair | `EveryoneIsTried`: whatever the targets do, an event is tried on who wants it, unless an exception ends its task or a target of the same request goes on answering for ever |
| `contents` | 3 changes of an entity of each of 5 kinds, 4 payloads each, 6 filters, expressions of up to 4 parts | `ReplicaFollows`, `FilteredFollows`: a replica agrees with the entity wherever no event was late or lost; `FilterMeans`: the parser accepts and evaluates exactly the grammar; `PatchMeans`: the result of a PATCH has the nodes of the patch, and of those of the document the ones that nothing in the patch replaces, down to the value for a locale and scope |
| `plain` | 2 requests of 13 kinds, 2 databases, 1 entity of either kind, 2 properties, 1 operation or restart | `PatchMerges`: reading some columns is as good as reading all; `FailsOnlySpoiled`: an entity that was stored once is never unwritable |
| `untouched` | the same | **fails** `UntouchedProperties`: see findings |
| `databases` | 2 requests, 2 operations or restarts of 7 kinds, 2 databases, 2 threads, pools of 1 | `RegisteredIsOpen`, `QuietRequestsSucceed`, `KnownIsReady`, `RestoreKeepsData` |
| `databases_answered` | 2 requests, 1 operation, 1 thread, pools of 1, fair | `AnsweredUnlessStuck` |
| `listing` | 4 codes of which 1 is invalid, 2 kinds of entities, pages of 1 or 2, 13 searches of which 3 are walked, 3 writes | `NoRepeats`, `SearchAfterComplete`, `PageDrift`, `EndsEarlyOnlyByInvalid`; `PrefilterIsSound`, `LimitedSearchIsFull` |

`registry`, `products`, `catalog`, `dispatch`, `contents` and `plain` check a type invariant as well; those of
`Databases`, `Listing` and `Values` are proved.

**Bounds.** Two requests suffice for the subscriptions because the theorems below cover any number;
a row is touched by one key at a time and keys do not interact, so one key is enough. In
`ProductStore` the loop admits one async handler at a time, so a race is between it and a thread or
a transaction waiting for its rollback; two ids, two uuids that requests name and two that are there to be
generated let a rename or a new uuid meet a free or a taken key. In `Catalog` a second attribute makes a variant unfit and a second family takes it over.
Batches of two lines let the second see, or fail after, the first. In
`EventDispatch` two events make a batch and a race, a log of one entry overflows at once, and one
crash may come anywhere; the liveness run has none, as a crash forgets every task. In `PlainEntities` rows meet in the
cache alone, so one row of each entity is enough, and one operation is what it takes to give tables to the database that has
none. In `Databases` two threads make two pools for one database, pools of one
connection are exhausted by one request, two operations make a backup and a restore from it; the
safety part is proved for any numbers. Four pool objects are enough for two requests: each can hold
one, and the dictionary one per database. In `Listing` four codes and pages of one or two make walks
of up to four pages, of which any may be cut by the invalid code; the properties of cursors are proved
for any table. In `Contents` three changes are a creation, an update and one that overtakes it, and
every payload meets every other. `MaxDepth` is 4, one more than the objects in the payloads need; `PatchMeans` is proved
for any. In `Values` an attribute that has rules and one that has none, since rules
of attributes do not interact. `MaxEvents`, `MaxCrashes`, `MaxChanges`, `MaxWrites` and `MaxOperations`
are the only counters that are capped.

**Deadlock** is not checked for `Subscriptions`, `Catalog` and `Databases`: the server can really come to a halt, and
`AnsweredUnlessStuck` shows that `LoopStuck` describes the only ways. In `Contents` clients may have nothing more to
change. In `ProductStore` it can come to a halt too, but there the run stops (`CONSTRAINT GoesOn`) at the states where
`LoopStuck` holds and checks all others for deadlock: with two requests nothing can follow them. So `NeverStuck`, which lists what a
request may wait for (`Waits`), lists all of it. The other modules are checked for deadlock.

**Fairness** is per request and for the steps of the server. In `Subscriptions` it is strong: asyncio runs its
ready tasks in FIFO order and PostgreSQL queues waiters of a lock in order, so whoever can
repeatedly go ahead eventually does. In `EventDispatch` the write of a subscriber's PATCH is weakly
fair: it is on the loop and nothing disables it. In `Databases` strong fairness also covers the pool,
which serves waiters in order, and the thread limiter, which does too; requests that hold the only connection
while they wait for the thread of one that waits for a connection are taken apart by the timeout of the pool alone,
30 seconds by default (`ConnectTimesOut`). Clients, webhook targets and administrators have no
obligation. The timeout of a POST (`events.py:501`) is one for each connect, read and write, so a POST is over two
seconds after it last moved: `Finish` is fair and needs no answer, but is not enabled while the target goes on with an answer bit
by bit, and nothing makes a target end that (`EndAnswer` is not fair).

## 4. Findings

PATCH of an asset family, and of the deprecated assets, asset categories and asset tags, reads no more than
the id of the row (`rest.py:987-993`: their properties are no columns), and replaces the document (`:655`):
all that the body does not name is dropped, although `pim-api-docs/content/rest-api/update.md:13` says it
"will be left untouched". A batch PATCH of the same entity merges. Run `untouched`.

What follows is modelled as it is, without a run of its own: most of it contradicts no doc of the repository,
and the properties name it as the exception.

* `destroy_all_databases` (`database.py:107`) says that it drops all databases and clears internal
  state. Its rows are tuples (the connection of line 115 has no `row_factory`), `row["datname"]` at line 119
  raises TypeError, and nothing is dropped; the pools are closed and forgotten by then, and
  `_known_databases` is not (`DestroyList`). The first call in a test would show it.
* `suspend`/`resume` refuse with 409 while they hold the row lock (`event_platform.py:226`). The
  lock goes when the loop dispatches the exit of `get_db`. If the loop is by then running a PATCH of
  the same subscription, it waits for that lock (`:179`) and the server stands still. The same
  happens with products: a rename deletes the old row (`rest.py:978`) before validation may
  refuse the new one (`:979-980`), and a batch may fail after a line was written (`:1082`). TRUNCATE in
  `/_admin/clear` and `/init_db` waits on the loop for transactions of GETs whose exits the loop
  should dispatch (`database.py:480`). `LoopStuck` in each module.
* A PATCH that has read a product writes it back although a DELETE was acknowledged in between
  (`rest.py:921-970`), and announces an update (`gone` in `EventsMatchRows`).
* A batch line of products-uuid for an existing product that leaves out the identifier is written
  under the empty identifier (`rest.py:1105`) and fails with 500, with the whole batch (`Only500s`). One with a
  new uuid and the identifier of another product replaces that product's uuid (`rest.py:1097`).
* PATCH and batch lines are not validated (`rest.py:87-88`). A uuid that is null, `""` or no string in the body for an existing product
  wins over the row's and is replaced by a new one (`:938`, `:1084`, `:51-54`): the product changes
  its uuid although no other was named (`UuidKept`). A null identifier in a batch line of products-uuid for an existing
  product violates NOT NULL and fails with 500, with the whole batch (`BatchNullId`).
* A subscription with `"events": null` (allowed by `events.py:468`) ends every dispatch that scans
  it (`:541`): nobody gets the event, nor the events queued behind it. The same goes for an event whose delta cannot be made
  (`events.py:141`, at `:608`). A webhook target that answers bit by bit keeps the tasks of its request
  as long as it likes, as the timeout is not for the POST as a whole (`:501`). These are the exceptions of `EveryoneIsTried`.
* `close_db_pool` (`database.py:101-104`), which `destroy_all_databases` calls, walks `_db_pools` while worker threads go on. When
  one of them stores the first pool of a database, the walk raises RuntimeError: the pools closed by then stay in
  the dictionary with their URLs, and every later request to those databases fails until a restart, a backup or
  restore of the database, or a call that gets through (`stranded` in `RegisteredIsOpen` and `QuietRequestsSucceed`).
* The type of an attribute is checked before the body of an option's request is awaited
  (`rest.py:1264`, `:1292`, `:1371`); if a PATCH changes it meanwhile, the option is stored below
  an attribute that has none (`moved` in `ChildrenFit`). Creating a child with the id of one below another
  parent moves it, and is announced as a creation. A variant without sets is accepted below a family
  that does not exist (`rest.py:459`).
* A POST to a webhook may leave after its subscription was suspended, as deliveries are looked up once
  per event; `InactiveMissesLaterEvents` is what remains true.
* A restore closes the pool of the current database only. When a request has named the backup
  since the start, its pool has a session on it: the current database is dropped, then the copy fails
  (`routers/admin.py:127-128`; `touched` in `RestoreKeepsData`). With the default database lost in this way the
  server cannot start again. A database that a failed restore dropped stays in `_known_databases`, so that
  `/ensure_db` does nothing about it (`hurt` in `KnownIsReady`).
* The first pool of a database stored by two threads at once is lost to the dictionary and closed when its request ends,
  and a request may be given a pool that another is closing (`disturbed` in `QuietRequestsSucceed`).
* A listing takes rows with an invalid code off a page after LIMIT, and ends its links when the
  page is short (`EndsEarlyOnlyByInvalid`). The WHERE clause of a search loses JSON nulls under a negation,
  texts with a backslash, which LIKE takes for its escape, booleans that a negation compares with a string, and an
  attribute that has the code of a column that is NULL (`MayLose` in `PrefilterIsSound`); fields without a column and
  literals of a wrong type end in a 500. `/products-uuid/search` applies LIMIT before it matches
  (`LimitedSearchIsFull`). GET of a sub-entity with an invalid code answers null.
* `apply_patch` merges an object called "values" at any depth as if it held the values of attributes (`common.py:90-99`). Where an
  association type has this code, a patch of its targets loses those that the entity had and its own: the lists have no objects in
  them, so the merge leaves nothing (`MergesFurtherDown` in `PatchMeans`).
* A value whose locale or scope is a list is stored by POST but dropped by the next merge, and until then every
  delta event of the entity raises (`events.py:141`, `ReplicaFollows`).
* A number or date that does not parse, and NaN, pass every limit; a `date_min` that is no date switches
  `date_max` off (`rest.py:222`); a select attribute without options takes any. A batch of products validates
  nothing, and a PATCH of a published product not the values it does not name. A product with a
  value that stricter rules forbid cannot be patched any more until that value is replaced, and a
  family that names a deleted attribute not until its attributes are.
* The columns of a table are remembered for all databases and for ever (`rest.py:591-609`): a PATCH that meets a
  database without tables remembers none, and later INSERTs fail until a restart (`spoiled` in `FailsOnlySpoiled`).

## 5. Proofs

`SubscriptionsProofs` proves, for any set of requests, subscriptions and bodies that satisfy the
assumptions of `Subscriptions` (null is no request, row or call; bodies are documents):

* `TypeCorrect`, `NoLostUpdate`, `LocksReleased`: the three invariants of the run `registry`;
* `Refinement`: `Spec => RegistrySpec`, the endpoints implement the atomic registry.

None of the invariants is inductive alone. `IInv` adds: a request past idle has a call and its
program counter fits its operation (`CallsFit`); the loop is held by exactly the request whose
async handler is running (`LoopFits`), hence at most one can be about to insert; whoever has read
a row FOR UPDATE holds its lock until it commits (`LocksAreHeld`), and a locked row exists
(`LockedRowsExist`); a transition about to write has read a status it may leave (`TransitionFits`). `InvStep`
has one step per action; `RefStep` maps each action to the registry's action or a stutter: the
registry acts where the handler commits or raises.

`ListingProofs` proves, for any finite set of codes, any entities, searches, page sizes and writes:

* `ListingTypeCorrect`, `NothingTwice` (`NoRepeats`) and `NothingMissed` (`SearchAfterComplete`);
* `EarlyEnds`: the action property `EndsEarlyOnlyByInvalid`;
* `PagesDriftByWrites` (`PageDrift`) and `LimitedSearches` (`LimitedSearchIsFull`);
* `PrefilterSound` (`PrefilterIsSound`).

`LInv` strengthens `TypeOK` and `SearchAfterComplete` by what a cursor means (`CursorFits`): everything shown lies at or
before it, and every code listed all along has been shown or lies behind it and is still listed; and by the
shape of a walk (`WalkFits`). The heart of it is `AnswerStep`: a page is the first of what lies behind the cursor, and when there is no
next one nothing lies behind the page but what an invalid code has displaced. That uses
cardinalities of finite sets, from `FiniteSetTheorems`. For pages with numbers `PageFits` says what the pages so far
are now: the first `(page - 1) * limit` rows of the list as it is, give or take (`Drifted`) what has been shown and lies behind them
again, at most as many rows as have come, and what lies among them and has not been shown, at most as many as have
left. A write shifts the first rows by one (`FirstAfterInsert`, `FirstAfterRemove`, `DriftWrite`); a page gives again only what had
been pushed behind the pages before (`DriftAnswer`).

`PrefilterSound` rests on `EntitiesAssumption` and `SearchAssumption`: the cells of a row are of the type of their column or
null, a string is made of letters, TRUE is 1. `ClauseIsSound` goes through the operators: where Python finds a match, so does
PostgreSQL, but for `MayLose`. For = and IN this is `EqualsAgree`. For LIKE, Python says how many letters come before what it
has found (`PrefixMeans`, `SuffixMeans`, `InfixMeans`), and `LikeWhenDealt` says that a pattern matches once its tokens can be dealt
the letters of the text one after the other. Its matches are defined by recursion over the tokens; that this function exists, and
reaches what is dealt, is shown by looking at the first token where it would not.

`DatabasesProofs` proves, for any numbers of requests, databases, pools, threads, connections and operations:

* `PoolsTypeCorrect`: `TypeOK`. It is inductive with `RequestsFit` (who is in a stage that holds a pool has one) and
  `ReferencedIsAlive` (no pool is collected that a dictionary or a request refers to), together `TInv`; one lemma
  for each operator that makes new pools from old (`SweptKeeps`, `ClosedKeeps`, `TerminatedKeeps`, ...).
* `RegisteredStaysOpen`: `RegisteredIsOpen`. `PInv` adds that a pool about to be stored is open and nobody else's
  (`NewIsOpen`) and that no pool is stored for two databases (`OnePlace`): else closing the pool of one database
  would close that of another. A closed pool that an operation has still to take out is in `Leaving`; when the walk of
  `close_db_pool` fails, what it had closed passes from there to `stranded` (`WalkStep`, `WalkKeeps`).
* `KnownStaysReady`: `KnownIsReady`, by `BareIsHurt`: a database without tables, or known and gone, has
  been hurt.
* `RestoresKeepData`: the action property `RestoreKeepsData`, by `RInv`: a pool exists only for a database that was
  named (`UseIsTouched`), a connection only for a request that has one (`ConnectionsFit`), and a restore that has dropped has a
  source that existed when it began (`RestoreFits`).

Last, `QuietStays`: `QuietRequestsSucceed`. `QInv` adds to `PInv` why a
request that nothing disturbed always finds what it needs (`QuietHas`: a pool in the dictionary, open, with a good
connection). Who makes a pool disturbs all others on its database (`MakersDisturb`), hence no other can replace the
pool of a quiet request; operations disturb everybody before they take pools away (`ForgetDisturbs`,
`TerminateDisturbs`); and a connection that a `terminate` has broken in a pool of quiet times is out of reach of
quiet requests (`BrokenIsOld`), because that pool had been closed and left the dictionary first. A request whose database is
stranded is excepted, and a database is so from the moment a walk leaves its pool closed to the moment another pool takes its place or it
is taken out (`StrandedChange`). The lemma `PoolsChange`
collects what a step can do to a pool.

`ValuesProofs` proves, for any attributes, rules, options, families and bodies that satisfy the assumptions of `Values`
(an attribute has only limits that its type looks at; `null`, absent, NaN and infinity are different things):

* `ValuesTypeCorrect`: `TypeOK`;
* `AcceptedStaysFit`: the action property `AcceptedFits`.

First, about one value: what passes `_validate_attribute_value` keeps each limit on its own (`FitsKeepsLimits`) and its
options are the attribute's (`FitsKeepsOptions`). Then about time: while a handler has the loop only
DELETEs go on, and a document fits what they leave (`FitsLess`), so `ValidatedFits` is kept until the document is
stored; and `DocCovers`: what is stored is what was validated, because the patched document names all that the row has.

`CatalogProofs` proves, for any codes, contents, calls, numbers of requests and lines, and rows at the start, that satisfy
the assumptions of `Catalog` (a code is of one kind; the calls are well formed):

* `CatalogTypeCorrect`: `TypeOK`;
* `ChildrenStayFit`, `AcceptedRowsAreStored` and `EventsTellTruth`: the action properties `ChildrenFit`,
  `AcceptedIsStored` and `EventsMatchRows`, that is, all that the run `catalog` checks.

`Base` adds to the types where each verb can be (`StageFits`) and what a request has written before its commit
(`MineFits`): rows of its kind below its parent, or for a DELETE the one row it takes away. The argument is `LoopAlone`:
while a handler has the loop, only DELETEs of parents commit. Hence `ReferencesFit`, from its check to its commit: a variant
fits its family or the family is gone, an option's attribute takes options or the request is in `moved`. And hence
`EventsFit`: what a handler found about a row stays true of the table until its commit; with `TasksFit`, that a batch has
announced exactly what it has written. `RowChange` and `CommitIs` say which rows a step changes, and who commits.

`EventProofs` proves of `EventDispatch`, for any numbers of requests, subscribers, subscriptions, events and crashes, the three
invariants of the run `dispatch`: `DispatchTypeCorrect` (`TypeOK`), `SentInOrder` (`InOrder`) and `InactiveAreSpared`
(`InactiveMissesLaterEvents`). `EInv` adds to them: who scans, sends or has found a subscriber to patch has the loop
(`LoopFits`); a request's events are queued in the order of their commits and its planned deliveries are of the first of
them (`TodoFits`, `PlanFits`, `QueuesFit`); nothing is sent that has not happened (`SentFits`, `DeliveriesAreMade`); and a
subscriber that a scan has still to visit was there when the scan began (`RosterFits`), for a scan reads the subscribers once and the
subscriptions of each later, while worker threads delete both. A subscription becomes inactive at an event count
that no delivery still under way exceeds (`SubscriptionStep`, `SubscriberStep`). That the sets of subscribers and
subscriptions are finite is assumed, so that a scan has an order.

`EventProofs` also proves `FiltersMean` (`FilterMeans`), by `ParseMeans`: for every sequence of tokens and all facts
`Parse` finds the set of `Readings`, which is empty or has one member. tlapm has no induction here: its induction theorems take an operator.
So induction is the argument that a set of numbers that is not empty has a least one (`LeastNumber`, from the well-founded order of finite sets), and
is used on sets (`AllNumbers`, `CountDown`).

* The recursive functions exist (`ParsesAre`, `ReadingsAre`, `StringsAre`): defined up to some position or length, they can be
  defined one further. What is defined by CHOOSE is then known at every position (`ParsesUnfold`, `ReadingsUnfold`).
* What the grammar reads the parser finds (`Found`, `AllFound`), by the length of what is read: if the tokens from i to j have the
  reading v and what follows cannot go on with them (`Ends`), the parser gets behind j with v. As the parser gathers to the right what the
  grammar may split anywhere, the statement is about what the parser does from i on when it would go on behind j (`GoesOnAnd`, `GoesOnOr`).
* What the parser finds the grammar reads (`Right`, `AllRight`), from the end of the tokens to the front, with `Joined`: readings on
  both sides of an "and" or an "or" give one of the whole.
* Where the parser gets to does not depend on the facts (`SamePlaces`), so a filter accepted without facts never fails (`SameAccepted`).

It proves of `Contents`, for any kinds, bodies of requests, expressions, filters, depths and number of changes that satisfy
`ContentsAssumption` (bodies are JSON documents, filters are tokens): `ContentsTypeCorrect` (`ContentsTypeOK`), `ReplicasFollow`
(`ReplicaFollows`), `FilteredFollow` (`FilteredFollows`) and `PatchesMean` (`PatchMeans`).

* What the delta of two documents says is where their views differ, and what is there in the second (`DeltaTells`, part by part: scalars,
  lists, associations, labels, values), so applying it does right at every path (`ApplyAt`).
* `Follows` is the invariant, for each path that is not in doubt (`Doubted`): if no event on its way is about it, the replica has
  what is stored there (`Arrived`), and otherwise the last such event tells what is stored (`LastTells`). A handler's event becomes
  the last (`AnnounceFollows`); a delivery out of order leaves in doubt what it shares with earlier ones (`OverlapDoubts`, `DeliverDoubts`),
  and what arrives last for a path is right (`FollowArrives`).
* `FilteredArrived` is the same for the second subscriber and the paths its filter asks for. The new fact is `WantedAllowed`: an event about such
  a path passes the filter. Its facts include those of that path alone, and without "not" more facts make no leaf and no
  expression false (`LeafGrows`, `TruthGrows`).

That what `ApplyPatch` makes is right does not enter there: a replica follows whatever is stored. That is `PatchesMean`. Its inductive
invariant, `DocumentsStored`, says that whatever is stored is a document, as deep at most as bodies are: paths of a patched document come of the two
(`Arises`, `PatchedDocument`), and `Stored` only takes keys away (`StoredDocument`). The rest is about any document and any patch:

* What a path reaches and which paths there are is defined by recursion over the path (`ReachedNext`, `PathNext`); what holds of the
  empty path, and of a path with one more key if of that path, holds of all (`PathInduction`, on sets). `PatchedIs`: the
  recursion of `apply_patch` ends, because a patch has no objects deeper than `MaxDepth`.
* Outside of "values" (`Near`), by these inductions: all that the patch has is in the result, where two objects meet as an object (`AllNamed`);
  all that the document has, is not in the patch, and has only objects of the patch above it (`Open`) is in the result
  (`AllKept`); and the result has nothing else (`NoOtherPaths`).
* Of a list of values, the merge has just one entry for each key that either side has, the last one (`MergedKeyed`, `MergedLast`): its n-th entry
  is found by its rank among the first entries of all keys (`Ranked`). With `ListedPatched`, which follows the branches of
  `apply_patch` below "values", this gives the values of the result (`ValuesPatched`).
* `OrdinaryStays` and `ValueStays` say what it means for a node that nothing in the patch takes its place, by which paths begin
  which. `PatchSets` puts these together.

`ProductStoreProofs` proves, for any products, calls, numbers of requests and lines, and tables at the start, that satisfy
the assumptions of `ProductStore` (ids and uuids are different things; the calls are well formed, a batch has a line), all
that the run `products` checks: `StoreTypeCorrect` (`TypeOK`), `OnlyMixedLines500` (`Only500s`),
`UuidsAreKept` (`UuidKept`), `EventsTellTheRows` (`EventsMatchRows`), `AnnouncedIsStored` (`AcceptedIsStored`),
`OnlyCommitsChange` (`ChangesAreAnnounced`) and `SomeoneGoesOn` (`NeverStuck`). The invariant `SInv` says

* of every request, where each verb can be (`StageFits`), and what it has written and not committed (`MineFits`): the
  rows of a batch, or the one row that a rename or a DELETE takes away; nobody else has written them (`LocksDiffer`);
* of the handler that has the loop, that no two rows it sees have one uuid, and what it knows of its document before it checks it
  (`CheckFits`), before it deletes the row of the old identifier (`RenameFits`) and before it writes (`WriteFits`):
  whose the uuid is, whether there is a row, whether there was one;
* of a request other than a batch, that the row it takes away has the id or the uuid of its document, which it announces (`OwnRow`);
* of a batch, that it has announced what it has written and has written what it has announced (`BatchFits`).

What a handler knows it has read before, in an earlier statement. That it stays true is `LoopAlone`: while a handler
has the loop, only DELETEs commit, so rows vanish and none comes. Hence a uuid found free stays free, and a product that was
found is there or in `gone`. `ChecksPass` is the step from `CheckFits` to `WriteFits`, one case for each verb and entity; `LineIsWritten` and
`RowIsRenamed` are the steps that change what the handler itself sees.

`SomeoneGoesOn` adds `LoopWorks`: the loop is taken by a handler that has yet to settle on its answer. Who has written a row can end
its transaction, unless it has raised and waits for the loop or is the handler that has it (`HoldersGoOn`). If everyone waits
(`AllWait`), the loop is taken, by one who waits for a row; the transaction that has written it must then be one that has
raised, which is `LoopStuck`. That `Waits` leaves out no reason to wait is what the run checks by deadlock.

`PlainEntitiesProofs` proves, for any entities, properties, databases, calls, numbers of requests and operations, that satisfy the
assumptions of `PlainEntities` (objects, scalars, nulls and absent properties are different things): `PlainTypeCorrect`
(`TypeOK`), `FailuresAreSpoiled` (`FailsOnlySpoiled`) and `MergesStay` (`PatchMerges`), all that the run `plain` checks. `PInv` says of the
cache that what is remembered of a table is all its columns, or none because a PATCH spoiled it, and that a stored entity is
remembered (`CacheFits`); of a handler, that it has the loop from its first statement, on a database with tables once its
SELECT has worked (`LoopFits`), and has asked for the columns it compares (`ColumnsKnown`); and that what it is about to
merge is the row as it is, in the columns it has selected, unless a DELETE has come between (`OldFits`). `MergeIs` says what is then written.

Model-checked only:

* liveness, which is out of the prover's reach: `AnsweredUnlessStuck` and `EveryoneIsTried`;
* `UntouchedProperties`, which does not hold (section 4).

## 6. Not modelled

* Signatures, envelopes, identifiers and value types of events, and the legacy payload: formatting of what
  `Contents` computes.
* The options of the attributes of reference entities and asset families (`rest.py:1405-1464`): one upsert under a
  key put together from two codes, without checks or events.
* The projection of the values of what a search found, the JSON text of a search, the tokens of a
  filter's text: conversions without state. Cells of tables are taken to be of the type of their column, or null.
* Pydantic's checks of field types in the bodies of POST and in whole patched documents: a set of contents that are refused
  (the bodies of PATCH and batch have no such check, which is modelled where it matters, for uuids and identifiers); failures of the
  database during a background task, which end it like the exceptions that are modelled; constant answers (OAuth token, root
  page, media files, jobs); `seed_data.py`, `patch_schema.py`, `get_pr_build.py`, which run outside the server.

## 7. Plan

All that was planned is modelled. Each hazard listed has a property that holds but for the exceptions it names, which
section 4 lists; every invariant that a run checks is proved; what is not proved is liveness. Worth modelling next would be the options of reference entities and asset families, if they gain checks.
