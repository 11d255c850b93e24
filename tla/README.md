# apso-packages: specifications, model checking and proofs

TLA+ models of the apso-packages monorepo, the TLC instances that check them
and the TLAPS proofs about them. Paths below are relative to the repository
(`src/`); TS, PY and GO abbreviate

    TS = typescript/packages/domain-events/src
    PY = python/packages/domain-events/src/apso_domain_events
    GO = go/domainevents
    SDK = typescript/packages/sdk/src
    CRUD = typescript/packages/crud-typeorm/src
    NQ = typescript/packages/crud-request/src
    PQ = typescript/packages/postgrest-request/src

## 1. Inventory

| component | state | operations | interacts with | what is hard |
|---|---|---|---|---|
| domain-events relay, TS (`TS/domain-event.relay.ts`) | timer, `draining`, entities of the batch; the `events` table | `onApplicationBootstrap`, `onModuleDestroy`, `tick`, `processPending`, `publish` | table (find/save), adapters, Nest life cycle | parallel sends, saves inside and outside the try, replicas without locks, crash between send and save |
| domain-events relay, PY (`PY/relay.py`) | task, stop flag, one session per drain | `start`, `stop`, `_run_loop`, `process_pending` | table (one commit per batch), adapters | rollback of delivered events, lazy destinations, start/stop races |
| domain-events relay, GO (`GO/relay.go`) | context, goroutine, structs of the batch | `start`, `stop`, `ProcessPending`, `deliver`, `mark*` | table (one UPDATE per event), adapters | dropped UPDATE errors, cancellation in mid-drain |
| capture (`TS/domain-event.subscriber.ts`, `PY/capture.py`, `GO/capture.go`) | listener registrations | subscriber callbacks, `before_flush`, GORM callbacks | the application's transaction, the table | same-transaction insertion, double registration |
| delivery adapters (`TS/destinations`, `PY/delivery.py`, `GO/{webhook,kafka,sqs,eventbridge}.go`) | lazily built client | `send` / `deliver` / `Send` | external sinks | refusals that do not raise, acceptances that do |
| SDK (`SDK/apsoClient.ts`, `SDK/EntityClient.ts`, `SDK/postgrest.ts`) | GET cache, params of the query under construction, URL of the PostgREST builder | `get`, `post`, `put`, `delete`, `clearCache`, `request`, chained builders, `findMany`, `findOne`, `single`, `maybeSingle` | HTTP API | retry after a timeout whatever the method, a timer that ends before the body, answers in flight while the cache is cleared, params shared by later queries |
| crud-typeorm (`CRUD/typeorm-crud.service.ts`) | none of its own (the tables) | `getMany`, `getOne`, `createOne`, `createMany`, `updateOne`, `replaceOne`, `deleteOne`, `recoverOne` | TypeORM, parsed request | find, then a save in two statements, without a transaction; pagination arithmetic, nested joins |
| crud-request (`NQ/request-parser.ts`), postgrest-request (`PQ/postgrest-parser.ts`) | the parsed request | `parse` | interceptor, service | two grammars for one service; auth around user conditions |
| crud (`typescript/packages/crud/src`) | decorator metadata | route generation, interceptor, dialect detection | parsers, service | precedence of options, mixed dialects |
| schema-tools (`typescript/packages/schema-tools/src`) | the schema document | 10 tools that edit and 3 that read, `lintSchema`, `fixSchema` | callers only | fixes that re-enable one another, rejected edits |
| release automation (`.github/scripts/auto-release.sh`) | tags, registry versions, env file | `prepare`, `finalize` | npm, PyPI, GitHub | partial failure and re-run |
| crud-core, parity harnesses, scripts | types, tests, plumbing | | | nothing stateful |

What makes each component correct:

* **Relays.** An event marked published was accepted by every destination; an
  event is given up only after `MAX_ATTEMPTS` attempts; every captured event is
  eventually one or the other; duplicates are bounded by attempts and faults;
  all of it across crashes, shutdowns, lost replies and, for the safety part,
  several replicas on one table.
* **Capture.** An event row exists exactly when its state change committed.
* **SDK.** A call makes at most `attempts` requests and ends as long as a timer
  runs; a write is carried out twice only when the client could not know of the
  first time; a get answers with a row of its own question, from the server or
  from the cache; what comes back for the calls on a builder is what the calls
  mean.
* **CRUD service and parsers.** No query widens the auth filter or the join
  allowlist; both dialects denote the same rows; pages partition them; a write
  changes only the row it had found, whatever its body claims.
* **schema-tools.** An accepted edit adds no lint error; `fixSchema` reaches a
  fixpoint and fixes never undo one another.
* **Release.** A version is published and tagged at most once, and a failed run
  is completed by the next.

## 2. Modules and plan

| module | models | extends |
|---|---|---|
| `EventTable` | the `events` table: rows, the pending query with its order, ties and limit, the outcome of an attempt on a copy | |
| `OutboxContract` | abstract specification: what one relay promises per event | |
| `TsRelay` | `DomainEventRelay` | `EventTable`, instantiates `OutboxContract` |
| `PyRelay` | `relay.py` | `EventTable`, instantiates `OutboxContract` |
| `GoRelay` | `relay.go` | `EventTable`, instantiates `OutboxContract` |
| `Positions` | members of a sequence at given positions (JavaScript's `filter`) | |
| `SchemaNaming` | the names a `.apsorc` schema generates (`naming.ts`) | `Positions` |
| `SchemaRules` | the lint rules and their fixes (`rules.ts`, `lint.ts`) | `SchemaNaming` |
| `SchemaTools` | edit tools, `commit()`, `fixSchema` (`tools.ts`, `lint.ts`) | `SchemaRules` |
| `SearchTree` | conditions and search trees, and what `buildSearch` makes of them on a row | |
| `NestjsxQuery` | the nestjsx grammar: what the client's query builder writes, what `CrudRequestParser` reads | `SearchTree` |
| `PostgrestQuery` | the PostgREST grammar: `PostgrestFilterBuilder` and `PostgrestRequestParser` | `NestjsxQuery`, `Positions` |
| `CrudService` | dialect detection, interceptor, joins, WHERE, ORDER BY, pagination, `getMany`, `getOne` | `PostgrestQuery` |
| `QueryPipeline` | composition: programs call both builders of the SDK, the server answers, pages are turned; requests of other clients | `CrudService` |
| `RecordService` | which routes exist, what each writing method saves, the table under TypeORM's `save` | |
| `SdkRequests` | composition: the request loop and cache of `ApsoClient` against the writing methods, with gateways between | `RecordService` |
| `EventTableProofs` | lemmas about batches, rows and outcomes | `EventTable`, `TLAPS` |
| `TsRelayProofs`, `PyRelayProofs`, `GoRelayProofs` | theorems about the relays, the refinement of `OutboxContract` included | the relay, `EventTableProofs` |
| `SdkRequestsProofs` | theorems about requests | `SdkRequests`, `TLAPS` |
| `QueryPipelineProofs` | types, the auth filter and the join allowlist on every answer; what comes back is what the calls on a builder mean | `QueryPipeline`, `TLAPS` |
| `SchemaToolsProofs` | edits and fixes keep a schema a schema; what no fix removes; lint is exact but for three faults; a renaming takes references along | `SchemaTools`, `TLAPS` |
| `SchemaFixProofs` | fixing takes errors away, and ends | `SchemaToolsProofs` |
| `MC*` | small instances | the composed module |

The order was: relays and their contract, schema tools, the read path of the
CRUD server from builder to rows, the write path from retry to table. What a
next step would add is named under "Not modelled": the transaction that
captures an event, the asyncio poller's start and stop, the release workflow.

## 3. How the relay models correspond to the code

**The table** (`EventTable`). A row keeps `status`, `attempts` and whether
`published_at` is set; `CreatedAt` gives the order, with ties. `Batches(table)`
is the set of answers the pending query may give: at most `Limit` distinct
pending rows, oldest first, leaving out only newer or equally old ones. Id, type
and payload do not influence delivery.

**TypeScript** (`TsRelay`). One drain per relay (`draining`); each stretch of
code between two `await`s is one action:

| action | code |
|---|---|
| `Bootstrap`, `Destroy` | `onApplicationBootstrap` 79-88, `onModuleDestroy` 93-98 |
| `Exit`, `Crash` | end of the process, with requests possibly still on the wire (`late`) |
| `Tick` | `tick` 104-108; a tick during a drain returns at once and is no step |
| `Find`, `FindFails` | `events.find` 125-129 |
| `NextEvent` | `publish` 163-172: with destinations `StartSends` (165, every `send` is started), without `NoDestination` (168 throws, the catch block 139-147 follows) |
| `SendResolves`, `SendRejects` | the settling of `Promise.all` 165; last resolution runs 135-136, first rejection 139-147 while the other sends stay in flight |
| `LateSendLands` | a send nobody awaits reaches its sink |
| `SaveReads`, `Save`, `SaveFails` | `events.save` 138 (inside the try: failure runs the catch block) and 149, in two statements |
| `RecoveryFails` | 149 rejects: the error leaves `processPending`, `tick` swallows it |
| `DrainDone` | end of the loop, `draining = false` |

`save(entity)` first SELECTs the row (`SaveReads`, which keeps it in `seen`) and
then UPDATEs the columns in which the entity differs from what it read
(`Merged`), whatever the row says by then. A single relay thereby makes the row
its entity; the saves of two replicas mix, and a row may say failed with one
attempt, or published with as many as there may be. Dates are one bit each, so of
two that are set the model lets the UPDATE write either. With `LostReplies` a
rejected save may have been applied.

**Python** (`PyRelay`). A drain is one session: `Load` (65-73), `DeliverOk` and
`DeliverRaises` (75-90, destinations one after the other, the first exception
ends the attempt), `Commit` (91) writes the changed columns of all loaded
events, `CommitFails` (92-94) forgets every outcome. `Stop` sets the flag;
`Stopped` is the loop's end after the drain under way.

**Go** (`GoRelay`). `Load` (34-50), `SendOk`/`SendFails` (64-71), `Mark`
(74-97, an UPDATE by id), `MarkLost` (its error is dropped), `MarkCancelled`
(the context was cancelled by `stop` 130-133, no statement reaches the
database), `DrainDone`.

**Adapters.** A call ends in one of four ways: accepted and reported, refused
and reported, accepted but reported as an error, refused but not noticed. The
last exists only for destinations in `Unchecked`: the TS EventBridge adapter
ignores `FailedEntryCount` (`TS/destinations/eventbridge.destination.ts:46`) and
the PY Kafka adapter ignores delivery reports (`PY/delivery.py:164-165`).

**Faults.** `disruptions` counts failed queries and saves, crashes and
shutdowns up to `MaxDisruptions`. `received`, `sent` are history variables;
no guard reads them.

**Schema tools** (`SchemaNaming`, `SchemaRules`, `SchemaTools`). A schema is a
record of entities and relationships in declaration order, as in the JSON. A
name is a sequence of tokens, so that `contact`, `Contact`, `contactId` and
`contacts` are related as in the code while spelling is left out. The tokens
(`Token`) are all strings in the instance and any set with the few fixed tokens
in the proofs; `Numeral` lists the tokens of 2, 3, 4, ... with which `freeName`
numbers a name, and bounds how often it may have to. An entity has the
timestamps it sets (`created_at`, `updated_at`), a field says whether it is the
primary key and an enum with values. Each rule is
an operator that yields a sequence of findings in the order of the code, a
fixable one with the schema its fix produces; `Findings` concatenates them in
rule order.

| action | code |
|---|---|
| `AddEntity` ... `AddIndex` | the `run` functions `tools.ts` 283-504: early returns are guards, the edited clone is proposed |
| `Commit`, `Reject` | `commit` 114-123, which compares the error keys before and after |
| `StartFix`, `FixPass`, `FixDone` | `fixSchema` `lint.ts` 33-45: the first fixable finding is fixed, one per pass |

Left out: rules about characters, length and style, malformed relationships,
warnings without a fix, settings no rule reads; `uniques` behave like `indexes`.

**Reads** (`SearchTree`, `NestjsxQuery`, `PostgrestQuery`, `CrudService`,
`QueryPipeline`). A field is a path of relations and a column; a condition is
field, operator and arguments; a tree is a sequence of entries, one per key of
the JavaScript object, nested to the depth the parsers produce and `s=` is used
with. `CondHolds` is the clause `buildCondition` writes, read with SQL's NULL.
A query is a record with one entry per query-string key of either dialect.

| action | code |
|---|---|
| `AskWhere`, `AskOr`, `AskSelect`, `AskJoin`, `AskSort`, `AskLimit`, `AskPages` | one call on each builder: `QueryBuilder` (`SDK/EntityClient.ts` 25-80) and the `PostgrestFilterBuilder` method for the same purpose (`SDK/postgrest.ts` 72-129, 198-202) |
| `FindMany`, `FindOne` | `buildQueryParams` (`SDK/apsoClient.ts` 351-414) and the request; `findOne` turns an id into the route or sets limit 1 |
| `Execute` | awaiting the PostgREST builder, `single` and `maybeSingle` included |
| `SendRaw` | a request no builder of the SDK writes: `s=` trees, `and=`, mixed dialects, page 0, `GET /:id` |
| `TurnPage` | the next page number, offset or range on both builders |
| `NewQuery` | a new `EntityClient` and builder |

Inside a request, `Served` is the interceptor (`DetectDialect`, the parser, auth),
then `applyJoins`, `applyWhere`, `applySort` and the window of `getMany` or the
row of `getOne`. A join is modelled by the environments it gives each root row
(one related row per joined path, or none); the answer keeps, per root row, the
related rows the joins leave. The database may return tied rows in the order of
any scan in `Scan`.

**Writes** (`RecordService`, `SdkRequests`). A call of a program goes through
`ApsoClient.request`; each of its attempts is a request of its own that the
server may handle after the client has given it up.

| action | code |
|---|---|
| `Hit`, `Start` | `get` `SDK/apsoClient.ts` 304-314: a fresh entry, or the first attempt. Whether to use the cache, and for how long, is said by each call |
| `Receive` | the headers (fetch) or the answer of the current attempt: read on, return, retry or throw (`request` 142-189) |
| `ReadBody` | `response.json()` 159, with no timer running; it throws on the empty body of a deletion |
| `Return` | the end of a call, which puts the result of a cached get into the cache (314-320) |
| `Timeout`, `Resend` | the abort or `ECONNABORTED` while the timer is set, and the sleep before the next attempt |
| `NetworkError` | thrown, never retried |
| `ClearCache`, `Tick` | `clearCache`, time (only the cache reads it) |
| `GetOne`, `CreateOne`, `CreateMany`, `RecoverOne` | one statement each |
| `FindRow` | `updateOne`, `replaceOne`, `deleteOne` find the row by `applyWhere`: the auth filter and the route's id, which in the PostgREST dialect counts only without an auth filter (`ByRoute`, `Targets`) |
| `SaveReads`, `StoreRow` | `repository.save` of an update, a replacement or a create with a key: it reads the row of that key and in a later statement inserts it, or updates what differs; a key inserted in between is a 500 |
| `RemoveRow` | `repository.remove` of the row found |
| `NotFound` | no such route |
| `QueryFails` | a statement rejects, nothing is written: a 500 |
| `GatewayFails`, `Lost` | a gateway answers 503 while the handler goes on; the request, or the process handling it, is lost. A lost answer is a `Timeout` before `Receive` |

`made` and `blind` are history variables; no guard reads them.

## 4. Properties and runs

| property | says |
|---|---|
| `PublishedMeansDelivered` | a published row was accepted by every destination whose adapter reports refusals |
| `FailedMeansRetriedEverywhere` | a failed row has exactly `MaxAttempts` attempts and every destination was called at least that often (one TS relay); false of PY |
| `GivenUpMeansTried` | no row is failed before every destination was called `MaxAttempts` times, also when replicas lose each other's counts |
| `PendingWithoutDestination` | without destinations events stay pending: false |
| `SendsWithinBudget` | calls <= counted attempts + 1 + disruptions: duplicates beyond the retry budget need a fault (one relay) |
| `ImplementsContract` | the relay refines `OutboxContract`: settled rows are final, attempts grow by one, publication follows delivery (one relay) |
| `EventuallySettled` | every pending event is published or failed in the end |
| `SettledIsFinal` | a settled row keeps its status: false with two TS replicas |
| `IInv` | the inductive invariant of the proofs |
| `TypeOK` | every variable has its type; in `SchemaTools` also: between calls there is one schema |
| `LintIsExact` | a schema compiles exactly when lint reports no error and none of three faults is there that no rule looks for (`Unseen`, section 5). `Compiles` is stated without the rules: unique members, existing ends, existing columns, an order in which rows can be inserted |
| `FixReachesFixpoint` | `fixSchema` ends for want of fixes, not at its cap |
| `FixCleans` | if every error has a fix, then once nothing is left to fix no error is left but clashes of relationship properties, and none at all where entities and relationships compile and no ManyToMany is redundant (unless a reserved entity name and a misspelt end come together) |
| `FixKeepsEntities` | a fix removes no entity, cuts no relationship off its entities, and removes no relationship but a ManyToMany between two parents of a third (whichever end declares them) |
| `RenameFollowsReferences` | on a schema without errors, `rename_entity` to a fresh name adds none (indexes on fields and foreign keys, neither the name nor its foreign key used for something else) |
| `EditAddsNoError` | no accepted edit raises the number of errors: false |
| `AuthFilterHolds` | however a query is written, no answer holds a row outside the auth filter |
| `JoinsStayAllowed` | an answer selects only relations of the allowlist, a nested one only below selected ones |
| `AnswersWhatWasAsked` | the rows are meant by the calls, none twice, as many as there is room for, in the order asked for; what the calls mean is said without parsers, trees and joins (`Meant`) |
| `DialectsAgree` | both builders, asked for the same, bring the same rows, columns and related rows, where the two grammars can say the same (`Comparable`) |
| `PagesPartition` | pages turned in the order of the key bring every row once, in order and without gaps |
| `PageCountIsExact` | the last page the envelope names is the one after which every row has been seen |
| `RouteNamesTheRow` | `GET /:id` answers with that row: false |
| `DuplicatesNeedALostAnswer` | a request is carried out twice only after an attempt whose outcome the client did not learn; what the client was told is done was done |
| `AnswersAreOwn` | a get answers, from the server or the cache, with one row that the auth filter admits, and with the row of its route where the WHERE names it |
| `OnlyTheTarget` | a row changes or goes only by a write that had found it, admitted by the auth filter and named by the route where the WHERE names it, or by a create naming its key; whatever key the body claims, and with the values the auth layer pins |
| `CallsSettle` | every call that waits under a timer ends, even if the server never answers, or has its headers |

| run | instance | shows |
|---|---|---|
| `ts_relay` | 2 events, 2 destinations, 1 relay, limit 2, 2 attempts, 2 disruptions | safety, refinement and liveness of one TS relay |
| `ts_replicas` | 1 event, 2 destinations, one of them unchecked, 2 relays, lost replies | safety with replicas whose saves mix, and that `IInv` holds |
| `ts_no_destination` | 3 events, no destination, limit 2 | violation: events are given up that should stay pending |
| `ts_stale_replica` | 1 event, 1 destination, 2 relays | violation: a stale save moves a settled row |
| `py_relay` | 2 events, 2 destinations (first unchecked), limit 2, lost replies | safety, refinement and liveness of one PY poller |
| `py_starved` | 1 event, 2 destinations | violation: destinations behind a failing one are never called |
| `go_relay` | 2 events of equal age, 2 destinations, limit 1 | safety, refinement and liveness of one GO poller with a backlog |
| `schema_tools` | 2 or 3 entities, at most 2 relationships of 11 (all pairs with colliding fields), 1 edit, then fixes up to 12 passes | lint is exact, but for the three faults, on every schema met; fixes end, clean up and keep what they must |
| `schema_repeat` | 1 entity with a bad index | violation: a second error with the same key is accepted |
| `query_pipeline` | 4 rows with a relation and one below it, 3 server settings, up to 3 builder calls of 20, 2 page turns, 19 raw requests | answers, dialects, pages, auth and joins as above |
| `query_route` | the same, one call | violation: `GET /3` with a filter answers with row 1 |
| `requests` | 2 calls (13 pairs of 16 kinds), 2 attempts, 3 rows, 2 faults, clock to 2 | duplicates, answers, targets and termination as above |

**Bounds.** Two events give batches of two, ties and backlogs; two destinations
give partial fan-out; two attempts separate "retry" from "give up" (the code's 5
adds only more retries); two disruptions let a fault hit the recovery from a
fault. Replicas interact only through single rows, so one event suffices for
them. The theorems remove these bounds for type correctness and
`PublishedMeansDelivered` of every relay, for `GivenUpMeansTried` (TS), and,
with one relay, for `FailedMeansRetriedEverywhere` (TS), the budget and the
refinement. For schemas, clashes, duplicates and cycles each need two
relationships or fields; the start schemas already hold every kind of defect, so
one edit suffices to reach the interesting successors. The cap of 12 passes
stands for the code's 200: no schema of the instance needs more than 10, which
is what `FixReachesFixpoint` checks; that there is such a number for every
schema, though none for all of them, is `FixingEnds`. For queries, three calls
let a condition, a group of alternatives and a join, or a sort and a page size,
meet; four rows hold a NULL, a tie and letters that differ in case; two scan
orders make ties visible; page sizes 1 to 3 against maxima 1 to 3 give short,
exact and cut pages, and two turns reach the page after the last. The theorems
remove these bounds from every property of the queries that holds, under the
hypotheses named there, and from those of the schema tools but
`FixReachesFixpoint`. There are as many numerals as the hypotheses of the
theorems about fixing ask for (`EnoughNumerals`); the fixes of the instance use
the first few. For requests, a hazard needs one call's two attempts or two calls
on one row: the pairs in `Plan` are those that meet on a row, in the cache or in
the key sequence. Two faults let the second attempt fail like the first; the
clock needs to pass one duration once.

**Fairness.** Weak fairness of each relay's own steps: the timer or ticker keeps
firing while the process is up (`setInterval`, `asyncio` loop, `time.Ticker`),
the process is restarted, and each query, send and save settles one way or the
other. No fairness is assumed of captures, faults or of which way a call
settles. In `SdkRequests` only the client's event loop is fair: a timer that is
set fires or the answer is taken (`Receive \/ Timeout`), and a sleep ends
(`Resend`). Nothing is assumed of the server, nor of a body once its headers are
there, since fetch's timer is cleared by then; so `CallsSettle` rests on the
timeout alone and ends with the headers. That every send of a relay settles is
an assumption about the sinks: the TS adapters set no timeout, and a send that
never settles leaves `draining` true for good.

## 5. Where the code departs from its documentation

* Stale replica (`ts_stale_replica`, `TS/domain-event.relay.ts:149`): "pending
  -> published, or failed after max attempts" (`TS/domain-event.entity.ts:36`)
  does not hold with two replicas.
* Starved destination (`py_starved`, `PY/relay.py:76-80`; Go
  `GO/relay.go:64-71` has the same structure): "re-sends to ALL destinations on
  retry" (`PY/delivery.py:10-11`, `GO/relay.go:32`).
* No destination (`ts_no_destination`, `TS/domain-event.relay.ts:168`): "an empty
  EVENTS_DESTINATION means nothing is delivered (events stay `pending`)"
  (`TS/destinations/index.ts:31-32`), but `publish` throws, each poll counts an
  attempt, and after five of them the event is failed.
* Repeated error (`schema_repeat`, `tools.ts:115-118`): "A write that would add
  a lint ERROR is rejected" (`tools.ts:8-9`) fails when the new error has rule,
  entity, field and relationship in common with an old one, as a second index
  on the same unknown field does.
* Route without its id (`query_route`, `PQ/postgrest-parser.ts:469`): the tree
  of the PostgREST parser lacks the route params, and `applyWhere` falls back to
  them only when the tree is empty, so with a filter or an auth filter `/:id`
  works on whichever row that filter finds; `CRUD/typeorm-crud.service.ts:398-404`
  says "getOne/update/delete always target by id". The run shows it for GET.
  PATCH, PUT and DELETE use the same `applyWhere`, and `RecordService` models it
  (`Targets`): with an auth filter and the PostgREST header they change or remove
  whichever admitted row is found. `OnlyTheTarget` and `AnswersAreOwn` say what is
  left of the promise, and `ByRoute` where it holds.

Other lines of the documentation the models depart from, as the code does,
without a run of their own:

* PUT is a "full replacement" (`crud/src/crud.decorator.ts:227`,
  `crud-core/src/interfaces/crud-service.interface.ts:47`,
  `crud/src/crud-controller.base.ts:73`): `replaceOne` saves the body under the key
  of the row found, and `save` leaves every column alone that the body does not
  name (`Changes`, `Saved`), so a PUT is a partial update, and the SDK's `update`,
  which sends one, is too.
* The two queries of "one query, both dialects" (`crud/docs/DIALECTS.md:74-105`)
  do not return the same rows. The nestjsx filter on `posts.status` keeps the
  authors that have a published post; the PostgREST filter on an embed shapes
  what is embedded and keeps the author (`Meant`, with a case for each dialect).
  And `limit` and `page` do not "mean the same thing in both dialects"
  (`DIALECTS.md:46`): `limit=0` falls back to the controller's limit in nestjsx and
  to the service's in PostgREST, where `page` is a column condition and refused.
  `DialectsAgree` is about the queries for which the claim is true; `Comparable`
  leaves conditions on relations out, and `PlainPrograms` a limit of zero.
* `SDK/postgrest.ts` offers `update()` and `delete()`, which send PATCH and DELETE
  to `/table`; the server has these routes with an id only, so the answer is a 404.

The conditions of three properties mark limits of the schema tools.
`LintIsExact` names three faults of the generated classes that no rule sees. An
index on `created_at` or `updated_at` is taken for known on an entity that does
not set them (`rules.ts:371-375`, while `rules.ts:583-591` knows that it may
not). A relationship whose `to_name` makes a member called `id`, or like a
timestamp, clashes with nothing. And of two clashing sides that belong to one
relationship nothing is said (`rules.ts:348`), as when `Notes` has OneToMany to
itself as `note`. `lint.ts:20` promises only that errors mean code that does not
compile, so these gaps break no promise; the start schemas hold each of them.
`RenameFollowsReferences`: an ordinary field called `contactId` has its index
renamed away by `rename_entity` of Contact, which is then rejected, and dropped
without a word by `remove_entity`; the foreign key of a relationship with that
`to_name` likewise; and where a relationship has the entity's own name as its
`to_name`, it has one key with a plain one to that entity and generates nothing,
until a renaming tells them apart and it claims a name that may be taken
(`naming.ts:98` compares the reference as it is spelt). The start schemas hold a
case of each, and without any one of the conditions in `NamesOnlyEntity` TLC
finds the property violated. `FixCleans`: a fix can make an error that has none,
in three ways. A reserved entity is renamed along with the ends spelt exactly
like it (`rules.ts:106-113`), so an end in other case, which had a fix before,
dangles for good. A new `to_name` can tell apart two sides that were duplicates,
of which the generator passed one over, and so bring a clash back; a dropped
ManyToMany can uncover a side in the same way. And while an end or a type of a
relationship is wrong its properties are not generated, so their clashes are not
seen. The start schemas hold cases (`Beyond`); the property says what remains
true. Further: the fix of `RESERVED_ENTITY_NAME` does not rename the foreign key
in indexes, so a later pass shortens or drops them (`rules.ts:106-113`,
`lint.ts:28` lists neither); `remove_field` shortens an index on several
columns, a unique one included, where its description says dropped
(`tools.ts:419`; the test `tools.spec.ts:136` expects the shortening); a fix
drops a relationship, although `types.ts:72-73` says a fixable issue is resolved
without doing so.

Read off the models without a run of their own: a TS save that fails after a
successful delivery is counted as a failed delivery (`relay.ts:138`), and the
row can end up failed with `publishedAt` set; the unchecked adapters above
contradict "MUST throw on failure" (`TS/destinations/delivery-destination.ts:16`)
and "raises on failure" (`PY/delivery.py:8`); the PY relay builds its
destinations on the first poll (`PY/relay.py:50`), so an unknown name is not
the startup error `CONTRACT.md:56` calls it.

What the models of reads and writes show besides, where no document promises
otherwise:

* `?page=0` is a negative OFFSET and a 500;
* when a controller's `maxLimit` is above the service's, the parser counts pages
  by the first and SQL cuts by the second, so rows between are skipped
  (`Turnable` excludes it);
* `findOne` leaves `limit=1` on the params the `EntityClient` shares with later
  queries; with an id and an `or()` it asks the route and the alternatives
  together;
* a second `or()` on the PostgREST builder replaces the first, a second `where()`
  on one field replaces the condition;
* `and=` as the only key is taken for nestjsx and ignored;
* `not.like` is mapped to an operator that wraps the pattern in wildcards again;
* several keys in one node under `$or` are alternatives, as `buildSearch` joins
  them with the mode of the group;
* when the columns asked of a relation and the allowed ones have none in common,
  the whole relation is selected (`JoinColumns`);
* a PATCH writes the whole row it had found back where it differs from what its
  save reads, and so undoes what others have changed in between; a save that
  races a delete inserts the row again; `createOne` with an existing key
  overwrites that row;
* fetch's timer is cleared when the headers are there (`SDK/apsoClient.ts:149`),
  before the body is read (159): a body that stalls keeps its call for good, and a
  `delete` through fetch, answered with 200 and no body, throws although the row
  is gone; axios and the PostgREST transport time the whole answer;
* the cache keeps what was in flight when it was cleared, and an entry lasts as
  long as the get that stored it asked, whatever a later get asks.

## 6. Proofs

`TsRelayProofs` proves, for every set of events, destinations and relays, every
limit and attempt bound, from the assumptions `EventTableAssumption` and
`TsRelayAssumption` alone:

* `TypeCorrect`: `Spec => []TypeOK`
* `InvAlways`: `Spec => []IInv`, the invariant below
* `PublishedDelivered`: `Spec => []PublishedMeansDelivered`
* `GivenUpTried`: `Spec => []GivenUpMeansTried`

and for one relay (`OneRelay`) whose database does not apply what it reports as
failed (`~LostReplies`):

* `FailedRetriedEverywhere`: `Spec => []FailedMeansRetriedEverywhere`
* `SoloImplementsContract`: `Spec => ImplementsContract`, false with two replicas
  (`ts_stale_replica`)
* `SoloSendsWithinBudget`: `Spec => []SendsWithinBudget`

`PublishedMeansDelivered` and `GivenUpMeansTried` are not inductive: a save
writes columns of a copy that was read earlier, so the claims must hold of every
copy too. `IInv` therefore says that every row *and every entity object* is
honest: `Backed` (published only if delivered), `Tried` (failed only if every
destination was called so often) and `Accounted` (attempts never exceed the
calls made). Each speaks of one column alone, because the save of a replica may
put its status next to an attempt count of another: what relates the two
columns, that a failed row is exactly at the cap, is true of a single relay only
(`WithinCap` in `SoloInv`, from which `FailedRetriedEverywhere` follows).
`BatchInv` and `PublishInv` tie the copies to the stage of the drain: the events
still to do are distinct and pending, the destinations no longer awaited have
the event, and the calls of the attempt under way come on top of the counted
ones, which is what makes counting it honest. Honesty of a copy survives the
steps of others because `received` and `sent` only grow (`MonotoneStep`,
`HonestStays`). There is one lemma per action, combined in `InvAlways`.

`GoRelayProofs` and `PyRelayProofs` prove `TypeCorrect` and `PublishedDelivered`
for any number of pollers on one table. Their `IInv` has the same idea in fewer
parts: `StageOK` (only the delivering stage moves along `Order`, and it does so
for a current event), `Progress` (while an event is being delivered, the trusted
destinations before the next one in `Order` hold it), `RowsBacked` and
`CopiesBacked` (a row *or copy* that says published is backed by deliveries to
every trusted destination). Without the second half the commit of a stale copy
could not be shown harmless. The lemmas about the table that all three share are
in `EventTableProofs`.

Both modules also prove, for a single poller
(`OnePoller`) and any lost replies, that it implements the contract
(`SoloImplementsContract`), and, if no destination is configured twice
(`DistinctOrder`), that it keeps to its delivery budget
(`SoloSendsWithinBudget`); `TsRelayProofs` ends with the same two for TypeScript.
The argument is one for all three languages. While nobody else writes the
table, what a drain holds is one outcome away from it: `SoloInv` says that an
event still to do is pending and its copy is its row, and that the copy of an
event whose attempt has ended is `Succeeded` or `CountFailure` of its row, or for
TypeScript, where the save of a success is itself caught, both; and what a save
has read is still the row when it writes (`SoloSeen`, `SoloWrite`). So a save is a
step of the contract (`TableStep`); with `DeliveryStep` (copies are never taken
back, only captured events are sent, late sends included) `ContractStep` follows.
The refinement is step by step, with no stuttering to justify and no history
variable beyond `received`.

The budget needs to know which calls the table has not counted yet:
`Uncounted`, the attempt under way (TS), up to the destination reached (GO),
together with every event done in the session (PY, where a rollback forgets the
whole batch). `BudgetOK` then says: an event with no uncounted call was sent
`attempts + disruptions` times at most, any event once more. Two languages need
a clause for shutdowns. Go goes on sending under a cancelled context and loses
every outcome, TypeScript may be cut off at any point after the timer is
cleared, and neither loss is a disruption when it happens: it was counted when
the shutdown began, and `BudgetOK` says that until then one call was in reserve.
`DistinctOrder` is a real condition: two entries for one destination in
`EVENTS_DESTINATION` mean two calls per attempt (`PY/delivery.py:285-299` and
`GO/delivery.go:42` keep both).

`SdkRequestsProofs` proves all safety properties of `SdkRequests`, for any
calls, attempts, faults, bodies and tables:

* `TypeCorrect`: `Spec => []TypeOK`
* `DuplicatesExplained`: `Spec => []DuplicatesNeedALostAnswer`
* `AnswersOwn`: `Spec => []AnswersAreOwn`
* `TargetOnly`: `Spec => OnlyTheTarget`

The invariant for the first three is `Inv`: an attempt after the current one is
unsent, every attempt before it is one whose outcome the client did not learn,
and a reply 200 to a write exists only for an attempt the server has carried
out. For `AnswersOwn` it also says of every reply to a get and of every entry of the
cache that it is a row which any get that may take it can be answered with.
`TableInv` says that rows have one key each and the sequence is past all of them,
`LegsInv` that the row a handler has found, and the row its save has read, are
what the route and the auth filter let it find; and that a save which leaves out
a pinned column, because what it read has the pinned value, finds it still pinned
when it writes, since nobody ever writes another. They rest on three named
assumptions about the environment: `TableAssumption` (the sequence starts past the
rows that exist), `CacheAssumption` (the calls that share a cache speak one
dialect: it belongs to one client, with one set of headers) and `PlanAssumption`
(a program that brings its own
key to `createOne` brings one the sequence has passed, and none in a bulk
create; PostgreSQL would otherwise refuse an INSERT later, which is not
modelled).

`QueryPipelineProofs` proves `TypeCorrect` (`Spec => []TypeOK`),
`AuthFilterAlways` (`Spec => []AuthFilterHolds`) and
`JoinsAllowedAlways` (`Spec => []JoinsStayAllowed`) for every table, setting, set
of conditions, groups, sorts and sizes, raw request and number of calls. The
argument follows a request: `WithAuthHolds` (a tree with the auth filter as the
first node of its `$and` keeps only rows that satisfy it, whatever the user's
nodes are), `NestjsxParsed` and `PostgrestParsed` (both parsers hand over such a
tree, and numbers where the window expects numbers), `KeptAllowed` (WHERE is
evaluated on the row itself, joined or not), `WindowType` and `OrderingType`
(sorting and cutting add no row), `JoinedAllowed`, `ServedAllowed`. The invariant
of the state says what each builder holds is such a query (`BuildersInv`, with
`PagingInv`: who turns pages has a first page) and that every answer is one that
may be given. Assumed: `SettingAssumption` (limits are numbers, the auth filter is
a node of conditions on columns of the root entity, a path is a sequence) and
`RawRequestAssumption` (numbers where numbers belong); that `Null` is no number
(`QueryPipelineAssumption`) and no related row (`CrudServiceAssumption`).

It also proves the four properties that compare an answer with what
was asked, for every table, every scan order, any number of calls and pages:

* `MeansWhatWasAsked`: `Spec => []AnswersWhatWasAsked`
* `DialectsMeanTheSame`: `Spec => []DialectsAgree`
* `PagesMeanAll`: `Spec => []PagesPartition`
* `PageCountMeansAll`: `Spec => []PageCountIsExact`

Their hypotheses are two statements about constants, `PlainPrograms` and
`PlainSettings` (`QueryPipeline`), which draw the line outside of which the two
dialects, or a client and the server, read one query differently: a list with a
comma in a value, the text `null`, a group of alternatives on a relation, a limit
of zero; a required join other than the one conditions speak of; an unpinned
controller with a filter of its own, where a PostgREST query that says nothing is
taken for nestjsx. `MCQueryPipeline` assumes both of its constants, so TLC
evaluates them on the instance whose runs check the same properties.

`Meant` says what a program means by set comprehension over rows, and the server
answers from parsed strings, trees, joins and windows, so the proof goes through
both parsers:

1. *Trees.* The truth of a tree on a row, level by level, and of the trees the
   client and both parsers build (`FlatTruth`, `WithAuthTruth`,
   `QuerySearchTruth`); which conditions a tree holds decides whether SQL can be
   built.
2. *Round trips.* A condition written in either grammar and read back is the
   condition (`ReadBack`, `RereadSame`); a select list, embeds, filters on them,
   an `or` group and an order come back as what was asked (`SelectList`,
   `EmbedsRead`, `RootFiltersRead`, `LogicalRead`, `SortsRead`).
3. *Rows.* The rows of the joined table that belong to one root row
   (`MatchingIs`, `EnvironmentExists`), and so the rows kept in each dialect are
   `Meant` of that dialect (`NestjsxKept`, `PostgrestKept`).
4. *Windows.* Orderings of a finite set, what LIMIT and OFFSET cut from one, that
   adjacent windows join (`WindowsJoin`), that a sort by the key leaves one
   ordering (`OneOrdering`).
5. *Answers.* `Told`: an answer is a window of an ordering of the meant rows, at
   the offset of the page, with the columns and related rows asked for. From
   `Told` alone the four properties follow (`ToldFirstPage`, `DialectsTold`,
   `PagesArePartition`, `PageCountBound`).

The invariant of the state is `MeaningInv`. `ProgramInv` ties the three records a
program keeps together: what was asked, the params of the `EntityClient` and the
URL of the PostgREST builder say the same after every call, and their numbers
belong to the page under way; a call that replaces a condition on a field does so
in both. `OneInv` says that `findOne`, which leaves its limit on the params, is
the last call the properties are about. `LaneInv` says of each dialect that an
answer is `Told`, and that the pages seen so far are the first `turns` pages of
every ordering the database may choose. The last clause has to hold when the
answer is *not* there yet, and it can only if a page that has been answered once
is answered again: so `LaneInv` also carries that a request is refused on every
page or on none (`RefusedAlike`), which is why a failed page in the middle cannot
leave a gap.

Working out the proofs corrected the models: the PostgREST grammar lets the last
of `asc` and `desc`, and of `nullsfirst` and `nullslast`, count (`Counts`,
`PQ/postgrest-parser.ts:287-297`); and in the meaning of a PostgREST query a
condition that shapes an embedded relation has to be met by the row that a
required join asks for.

`SchemaToolsProofs` proves, for every schema, every vocabulary of names and any
number of edits and passes:

* `TypeCorrect`: `Spec => []TypeOK`
* `FixesKeepEntities`: `Spec => FixKeepsEntities`
* `LintExact`: `Spec => []LintIsExact`
* `RenamingFollowsReferences`: `Spec => []RenameFollowsReferences`

The assumptions are `NamingAssumption` (a capitalised word is none of the words,
capitalising tells words apart, and so do numerals), `RulesAssumption` (the
spellings the rules write are tokens; a reserved name is not empty, and does not
become another by appending `Record`, nor `Record` and a numeral) and
`ToolsAssumption` (start schemas and arguments have their types).

A pass runs all rules, takes the first finding that has a fix and puts what it
makes of the schema in its place, so the first two rest on one statement about
every rule. `Keeps(s, t)` says of a fix from `s` to `t` what the property says
of a step, and that `t` is a schema; `Sound(s, found)` says that every fix of
the findings `found` is one. There is a lemma `...Sound` for each of the
fourteen rules, over the lemmas about what a rule may do to a schema
(`EntityKept`, `RelKept`, `RenamedEntityKept`, `RenamedFieldKept`,
`WithoutFieldKept`, `RelDropped`); `FindingsSound` joins them, `FixPassKeeps`
takes the first. Three of them are the substance. `ReservedEntityNamesSound`: a
renaming carries every relationship along, two ends or none, even when several
entities have the old name. `MissingEntitiesSound`: what a dangling end is
repaired to is an entity. `RedundantManyToManySound`: the third entity that
justifies the removal is found through relationships that are not removed. Each
edit has a lemma `...Type` that what it proposes is a schema, from what its
guards let through. `SchemaInv` adds to the types that only an edit under way
waits to be committed: it has a free place in the count of edits and no pass
behind it.

Working this out corrected the property: it used to ask that the two parents be
the targets of two ManyToOne, while `rules.ts:563-568` also counts a parent that
declares a OneToMany, so the property was false on schemas the instance did not
hold. It now says `HasParent` either way round, the instance has such a schema,
and the property was extended to the ends of relationships.

`LintExact` is about single schemas: `TypeCorrect` gives that each is one, and the
rest is a comparison of the rules, which walk over lists in the order of the
document, with `Compiles`, which quantifies over sets.

1. *Lists.* What `FlattenSeq`, `AtPositions` and a walk over the fields of all
   entities contain, whatever the order (`FlattenRange`, `NestedRange`,
   `AtPositionsRange`), so that "no finding" is "no such element".
2. *Rules.* `Detects(found, good)`: there is a finding exactly when `good` fails,
   and it is an error. A lemma `...Exact` per error rule shows that it detects its
   part (`FieldsCompile`, `RelationshipsApart`, `IndexesKnown`,
   `EntitiesCompile`, `Insertable`); the others only warn (`WarningsOnly`).
   Rules that skip a case another rule reports detect their part only where that
   other part holds, as in `RelationshipPropertyClashesExact`. What the rules
   detect together is `RulesHold`, with `RelationshipsApart` and `IndexesKnown` for
   the two parts in which they see less than `Compiles` asks. `CompilesIs` then
   says that a schema compiles exactly when the rules hold and nothing is
   `Unseen` (`SidesApart`, `IndexesThere`).
3. *Clashes.* `SidesSorted` and `GeneratedIs`: the sides the generator sees, in
   order and with the second end of a pair passed over, have distinct keys exactly
   when no two members of `GivenMembers` meet.
4. *Cycles.* `Compiles` asks for a rank under which each required parent comes
   first; the rule walks up from each entity. `ReachFollows` and `ReachIs`: the walk
   reaches what a path reaches. With a rank no path comes back. Without a path
   that comes back, every set of entities has a member without a required parent
   in it (`WalksComeRound`, the pigeonhole principle on a walk longer than the
   set; `NoCycleDown`), so a rank is built by adding one at a time (`CanRank`).

Two ends of a relationship of an entity to itself that have one key generate
once, from the declaring end (`GeneratingSides`; `Hierarchy` in the instance);
two with different keys generate twice, and may clash unseen. `Reach` models the
code's own walk, where the closure operator of the community modules stood
before.

`RenamingFollowsReferences` is proved through `ErrorsExact`: it is enough that
the rules hold after the renaming where they held before (`RenamedHolds`), part by
part.
`Renamed(s, t, old, to)` says that `t` is `s` with the name replaced at the
entities and at the ends of relationships. Then every side of `t` is a side of
`s` with the name replaced at its entity, its other end and its reference
(`SidesFollow`, the declaration in the other direction included,
`InverseFollows`), the same sides are passed over (`GeneratingFollows`), and each
generates what it did or, for a reference to the renamed entity, names of the new
one (`GivenNamesFollow`). Two of the latter never meet on one class, since they
have one key (`ClashesFollow`); index columns that are the foreign key follow
(`IndexesFollow`); a rank of the entities carries over (`OrderFollows`). The
attempt showed that the property lacked a condition, on a relationship whose
`to_name` is the entity's name (section 5), and it now speaks of every fresh name
an agent may choose instead of one.

`SchemaFixProofs` proves what is left of `fixSchema`, again for every schema and
vocabulary:

* `FixingCleans`: `Spec => [](Len(schema.entities) <= Len(Numeral) => FixCleans)`
* `FixingEnds`: from every schema there is a number of passes it does not have,
  if `Named` (no entity and no end of a relationship has an empty name) and
  `EnoughNumerals`

The hypotheses on numerals are about the model, not the code: `freeName`
(`rules.ts:116-120`) counts without end, and `Numeral` is a list. They say that
the list is longer than the set of names a new name has to differ from, which is
what `FreeNameFresh` needs. `Named` is about the code: a clash is resolved by
appending the name of an end, which makes nothing longer if that name is empty.
`FixReachesFixpoint` itself is only model-checked: the number of passes grows with
the document, so no cap suffices for every schema, and no theorem says that 200
does for those of practical size.

The proof first finds out what a pass does. `Mends(s, t)` lists the twelve forms
of a fix (`FreesName`, `DropsFields`, `RenamesField`, `NamesRel`, ...,
`DropsRel`), each with what later arguments use of it; a lemma `...Mended` per
rule shows which form its fixes have and that a fix makes exactly one schema,
and `PassMends` takes the first finding with a fix.

*Cleaning.* A schema without findings to fix may still have errors without a
fix, so the invariant has to exclude those in what is still to come. `Mendable`
says that no error without a fix can arise other than a clash: entities are
distinct, every wrong type of a field or relationship is an alias of a right
one, every end is an entity or one in other case, and no end would be lost by a
renaming. It holds of a schema whose errors all have a fix (`GivenMendable`),
every form of fix preserves it (`MendableStays`), and with nothing left to fix
it leaves only clashes (`OnlyClashesLeft`). `Settled` says in addition that
entities and relationships compile and no ManyToMany is redundant; fixes to
fields and indexes keep it, and making a relationship optional does
(`SettledStays`), no other fix of a relationship applies, and then there are no
clashes (`NoClashLeft`). `FixInv` says both of the working copy.

*Termination.* Passes that go on for ever would go through a set of schemas each
of which has a successor in it (`Endless`). A number that no pass raises is
constant on some endless subset (`Settles`), so one number after the other may
be taken to be constant, and each leaves fewer forms of fix:

1. `Parts`, the reserved names, relationships, fields and indexes: all fixes
   that remove one are out (`MendsParts`).
2. `Todo`, the columns of indexes, wrong types of fields and what is wrong,
   required or two-way about each relationship: what remains renames a field or
   names a relationship (`MendsInPlaceTodo`).
3. `RoomOf`, one number per relationship. A relationship is named by the *later*
   side of a clash, so the name does not disturb sides declared before
   (`RowKept`, `SidesBeforeKept`), and it is longer than the reference it
   replaces, so the relationship has fewer lengths in common with them
   (`RoomShrinks`). The number of the first relationship settles first, then no
   pass names it any more, and so on to the last (`NamesLater`,
   `EndlessRenames`).
4. `Colliding`, the fields a relationship generates too: a new name is free of
   both, so it gets smaller with every pass (`CollidingShrinks`), and an endless
   set cannot exist (`NoEndless`).

Working this out corrected `FixCleans`: it used to promise that no error is left
where no type is misspelt, which the schemas of section 5 refute.

Two constants are there for the provers: that a string literal is a string
cannot be shown, so `Token` is a constant, and a number cannot be turned into a
token, so the numerals are listed.

Only model-checked: `EventuallySettled` of the relays and `CallsSettle`, which
rest on fairness, and `FixReachesFixpoint`, which is about a number.

## 7. Mutants

Each property of a passing run comes with a mutant: an operator, marked
`Mutant:` and placed before the definition it stands in for, that changes that
definition the way a plausible bug would; with it TLC finds the property
violated under the same configuration.

## 8. Not modelled

Signing, serialisation and header layout of the adapters; SQL and ORM internals
beyond what a statement does to a row; `crud-core` (types), the parity harnesses
and build scripts (no behaviour of their own).

Of the relays: the transaction an event is captured in and repeated registration
of the hooks, the asyncio task of the Python poller (its `start` during a `stop`
that waits), the order inside Go's `Register`. Of the SDK: the client registry,
headers, embed aliases, several operators on one field. Of the server: sorting
by columns of relations, renamed output fields, empty nodes in `s=`, keys in bulk
creates, the hooks of the controller base class, Swagger metadata. Strings are
not taken to pieces: where the code splits at a comma or `||`, the model's text
is a sequence already, and `Pieces` says what a value that holds a comma becomes.
The release workflow (`.github/scripts/auto-release.sh`) drives git, npm, PyPI and
the GitHub API and is left out.
