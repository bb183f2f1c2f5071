# A TLA+ model of itemservicecentral

itemservicecentral serves JSON items over HTTP from PostgreSQL tables that a
YAML configuration describes. These modules model its concurrent core (single
item operations, paged listings, schema migrations, the key cache, servers that
come and go) and what it computes on the way: documents, schemas,
configurations, routes and the OpenAPI documents. TLC checks them on small
instances; TLAPS proves the main results for every instance.

## The system

| part | state | operations | hard because |
|---|---|---|---|
| Item handlers and their statements (`internal/handler/item.go`, `internal/database/store.go`, `internal/model`, `internal/validate`) | the rows of a table: key, document without its keys, `updated_at` | GET, PUT, PATCH, DELETE | every request is a goroutine, and there may be several servers; PATCH reads, merges outside the database and writes under a condition on `updated_at` |
| Listings (`internal/handler/list.go`, `queryItems`) | none; the page token is the client's | partition query, table scan, index query, index scan, index get | pages are separate statements, and rows come and go between them; the cursor compares columns, the listing is ordered by columns |
| Migration (`internal/database/migrate.go`, `config_hash.go`, `config/minimal_structure.go`) | tables, indexes, the rows of `_meta` and the hash in it | `migrate` with `-cleanup` and `-dry-run`; startup check of `api` | one transaction that can be cut off anywhere, several at a time, what is found in place is trusted by name |
| JWT middleware (`internal/middleware/jwt.go`) | key cache with a time to live | look up a key, refresh | lookups and refreshes run concurrently, the provider rotates its keys |
| Schema checks (`internal/schema`), configuration (`internal/config`) | none | check a definition, compile, validate | recursion over nested schemas; what is accepted here is what everything else relies on |
| Routes (`internal/handler/handler.go`, `swagger.go`) | the mux | register, dispatch, exempt pages from JWTs | names of tables, indexes and keys may read like a literal of another route; conflicting routes panic |
| OpenAPI documents (`internal/swagger`) | cache of generated documents | generate, serve | a second description of the API, generated by code of its own |
| Server lifecycle (`main.go`) | listener, running requests | start, check the hash, signal, shutdown | shutdown races running requests; migrations go on beside a server that has checked once |

The handlers share nothing but the database: requests interact through rows
only. The migration and the servers interact through the catalog and the hash
in `_meta`: `api` compares it once, when it starts.

What makes each part correct:

- items: operations are atomic; a PATCH loses no other write and is refused
  only when there was one; what is stored is valid under the schema; every
  request is answered;
- listings: a walk over all pages returns everything that was there throughout,
  nothing twice, and ends;
- key cache: a withdrawn key stops being accepted; overlapping refreshes do not
  turn a good token down; every request is answered;
- documents, configuration, routes: what validate accepts can be served; every
  documented operation reaches its handler; stored documents have only legal
  and declared names; requests and answers are what the OpenAPI document says;
- servers: what the hash check found stays true while the server runs; only a
  process that serves or drains has open requests; a signal ends the process;
- migration: a hash that matches means that the database has all the
  configuration asks for; `_meta` tells which tables there are; cleanup leaves
  only what is configured; a dry run changes nothing.

## Modules

| module | contents |
|---|---|
| `ItemModel` | documents, the functions on them, requests and what the handlers refuse at once |
| `AtomicItems` | what the item API promises: one atomic step per operation |
| `ItemStore` | the handlers and their SQL statements, step by step |
| `ItemStoreProofs` | theorems about `ItemStore` |
| `Paging` | a client that walks through the pages of a listing, and the writers beside it |
| `PagingProofs` | theorems about `Paging` |
| `Migration` | runs of the `migrate` command and the startup check |
| `MigrationProofs` | theorems about `Migration`: types, dry runs, `_meta` tells which tables there are |
| `MigrationHashProofs` | theorems about `Migration`: a hash that matches tells that everything is there, a cleanup leaves nothing but its configuration |
| `JwksCache` | the JWT middleware: requests, the key cache, a provider that rotates its keys |
| `JwksCacheProofs` | theorems about `JwksCache` |
| `Documents` | JSON values, merge patches, property names, schema definitions and what they accept, one level of a document at a time |
| `Configuration` | the checks of a configuration, its routes, the mux, the exemption from JWTs; extends `Documents` |
| `OpenApi` | paths, schemas and status codes of a table's OpenAPI document; extends `Configuration` |
| `Service` | the api command from its configuration to its answers, one request at a time; extends `OpenApi` |
| `Nesting` | the recursive functions that `Documents` has the levels of; extends `Service` |
| `RoutesProofs` | theorems about `OpenApi`: routes, paths, what the mux makes of them |
| `ServiceProofs` | theorems about `Service` |
| `Deployment` | servers and their requests beside migrations; extends `Migration` |
| `DeploymentProofs` | theorems about `Deployment` |
| `MCItemStore`, `MCPaging`, `MCMigration`, `MCJwksCache`, `MCService`, `MCDeployment` | instances for TLC |

`ItemStore` composes with `AtomicItems` by refinement, and both extend
`ItemModel`. `Deployment` composes servers with `Migration`: its steps are
those of `Migration`, in which servers do nothing, and those of servers. The
item handlers are modelled twice, from two sides: `ItemStore` interleaves the
statements of overlapping requests on opaque values, `Service` runs one
request after the other on documents of full depth, with every route, and
compares them with what is documented.

A definition whose comment begins with "Mutant" changes the definition below
it the way a slip in the code would. It is used nowhere: put in that
definition's place it makes TLC report the property it is paired with, which
shows that the property says something about that code.

### ItemStore

`rows` is the table. A call of `Calls` is one request: `pc` says where it
stands, `req`, `snap` and `stamp` are its local variables, `due` is the
response its handler has arrived at and `answer` the one its client got.

| code | action |
|---|---|
| a handler up to its first statement; its returns with 400 | `Receive`; `Reject` |
| `GetItem` and the rest of GET | `GetItem` |
| `GetItemForUpdate`, merge, validation of PATCH | `GetItemForUpdate` |
| a write statement starts: its `now()` | `StartStatement` |
| it takes effect | `PutItem`, `PutItemIfUnchanged`, `DeleteItem` |
| the response is written | `Respond` |
| an error, a lost connection or client | `Fail` |

Each statement runs in a transaction of its own, at READ COMMITTED, the default
`database/sql` and PostgreSQL give. `now()` is the time the transaction started,
which is not the time its write takes effect: statements that wait for a row's
lock take effect in another order than they started in, so `updated_at` of a
row may go back. The model has that. The WHERE clause of a conditional UPDATE
is evaluated on the row as it is once its lock is held. `Fail` answers 500; a
write statement that was sent may still run afterwards.

A document is a function from field names to opaque values: the merge of PATCH
is modelled for the first level here, at full depth in `Documents`. The regular
expressions of keys and the JSON schema are the sets of what they accept.

`AtomicItems` has one action per operation. `ItemStore` implements it with
`items` mapped to the documents of the rows and `asked` to `req`: a PUT happens
when its statement takes effect, a PATCH when its conditional UPDATE does, and
the reading half of a PATCH is a stutter.

### Paging

One listing of one table, both chosen from `Walks`, and one request at a time. `Matching` is the
WHERE clause, cursor included; `SortsBefore` is ORDER BY, and rows it does not
tell apart come in any order. `LastPage` and `FullPage` are the two ends of
`queryItems`; `FailPage` is a LIMIT that PostgreSQL refuses. A request that fails
otherwise changes nothing and the client repeats it. `Write` is any other
client's insert, update or delete, at any point between two pages.
`seen` and `always` are history: what was returned and what was to be listed
from the first request on. Text is a number in the order of the database's
collation; `rkBeginsWith` is the set of values it matches. `Listed` is what the
API's documentation promises of each listing.

### Migration

`db` is what is committed, an object (a relation or a row of `_meta`) mapped to
its definition; `delta` is what each open transaction has made of it. A
statement sees the committed state under its own changes and waits for another
transaction that has touched what it writes. An action is one statement, or
several where nobody can tell (`ReconcileTable`: whatever another transaction
does between its CREATE and its INSERT makes the INSERT fail or changes nothing;
`DropTables` and `DropStaleIndexes`, which drop what an earlier query listed).
Runs are numbered in the order they begin. `raced` is history: a run with
`-cleanup` overlapped with another. `Fail` can end a run at any point; it is also what becomes of a statement that
PostgreSQL refuses. `Commit` may be reported lost. `Minimal` is the structure
the hash is computed from; two structures do not share a hash here. Indexes
that belong to primary keys are left out. `ValidateTablesConfigHash` is the
startup check.

### JwksCache

`keys` and `last` are the fetcher's fields; `pc`, `req` and `refresh` are a
request's local state. A request that needs a refresh goes through three steps:
`ProviderAnswers` (the provider fixes the key set it sends), `StoreKeys` (the
answer is parsed and replaces the cache under the lock) and `LookUp` (the second
read, under another lock). `Receive` is everything up to the first unlock,
`FailRefresh` any error of the fetch. `Tick` is time, which no refresh outlasts:
the HTTP client gives up after ten seconds, and what its goroutine does besides
is counted into `Latency`. That is an assumption about the scheduler; the code
has no deadline of its own there. A kid stands for one key throughout. Token
parsing, signatures and claims are what `valid` says.

### Documents, Configuration, OpenApi

Operators without state. A JSON value is a record with its type, an object
holds a function from its property names, and a schema is a value too, so the
schemas of the OpenAPI document are computed from the configured one as the
code does and then compared with documents by the same `Accepts`. Names and
patterns are opaque strings, and `Matches` says which strings a pattern
matches; a pattern not in it does not compile. A definition may hold every keyword that
`allowedKeywords` lists (`AllowedKeywords`) and no other. Those that bound a string, a
number or an array (`ValueKeywords`) mean what the constant `Satisfies` says, and
`Arguments` what they and `$schema` may be given; `format` bounds nothing, as in the
dialect of a schema that names none. `Accepts`, `Compiles` (the JSON
Schema library), `Dispatch`, `Conflict` (`http.ServeMux`) and `Rfc7396` stand for
code that is not in the repository.

Most of these functions recurse in the code. Here each is a level: `MergeLevel`
is the body of `model.MergePatch` with the recursive call as its parameter, and
`MergePatch` is that level with the constant `MergeBelow` for the call; so are
`LegalLevel` (`ValidateJSONKeys`), `ValidLevel` (`validateSchemaNode`) and
`AcceptsLevel` (the library). `Nesting` ties the knot: `NestedMerge` is `MergeLevel` of
`NestedMerge`. TLC gives the constants these values, and then `MergePatch` and
`NestedMerge` are one function. The proofs leave the constants open, because a module
that recurses is beyond the prover.

### Service

`config` is the file, `rows` the table of the first of its tables, `exchange` the
last request and its answer. `Start` is everything up to listening. `Serve` takes
a route, fills its wildcards from the URL and answers: `Unauthorized` is the
middleware, `BadKey` the checks all handlers begin with, `Reads`, `Put`, `Patch`
and `Delete` the handlers, `Fails` a statement that fails. `Unread` are the bodies that
`ReadAll` fails on: those of more than 1 MB, and those that break off. A listing returns
all it selects (pages are `Paging`'s). `TextIs` is `data->>'field'`: null and
missing are NULL, a boolean reads as its JSON text.

### Deployment

A server is `checked` (its hash check is passed or skipped), `serving`,
`draining`, and then `stopped` (it has said so) or `failed`; it may be launched
again, with another configuration. A request is one statement on one table:
`handling` until PostgreSQL has executed it, `executed` until its client has got
the answer, `orphan` when its process is gone and the statement is still to
come. A statement waits for a transaction that has created, dropped or indexed
its table. `ShutdownTimeout` is the end of the ten seconds with requests still
open. `vouched` is history: this server's check was made and no migration with
`-cleanup` has committed another structure since.

## What is checked

| run | instance | shows |
|---|---|---|
| `MCItemStore.cfg` | 3 calls, one key, two fields beside it, symmetric calls | types, `NoLostUpdate`, `ConflictMeansRaced`, `StoredValid`, `ImplementsAtomic`, the inductive invariant |
| `MCItemStoreKeys.cfg` | 2 calls, a range key, two rows, every way of being refused, projections, fair | `ImplementsAtomic`, `EveryCallAnswered` |
| `MCPaging.cfg` | 2 x 3 keys with a range key, 3 without; pages of 1 to 3 items, the default and a limit that overflows, all filters; listings of an index in one page; fair | types, `Complete`, `PagesAscend`, `WalkEnds`, the inductive invariant |
| `MCMigration.cfg` | 3 runs, two at a time, 4 configurations, one of which changes a table's key | types, `HashTellsUnlessRaced`, `MetaTellsTables`, `CleanupLeavesConfigured`, `DryRunKeeps` |
| `MCJwksCache.cfg` | 2 requests, a usable and an unusable kid, `TTL` 2, `Latency` 1, fair | types, `WithdrawnKeysExpire`, `RefreshFindsKey`, `EveryRequestAnswered`, the inductive invariant |
| `MCService.cfg` | 19 files, 6 of them served: a nested object, an enumerated member and key, a constant one, bounds of every kind, a node without a type, schemas that enumerate, fix or bound the size of whole documents, indexes with every kind of projection, range keys, JWTs on and off; 9 key values that read like parts of a route; 11 bodies of PUT, 15 of PATCH, one of each that is too long | the eleven properties of `Service`, the inductive invariant, and what `ServiceProofs` supposes of nested documents |
| `MCDeployment.cfg` | a server, a request, 2 migrations that may overlap, 2 configurations: a rollout and the way back; fair | `ServersOK`, `RunningServersConform`, `ShutdownEnds` |

Each property is stated with the code it is about in the comment above it. Those
of `Service` in short: `ValidatedStarts` (no accepted file makes `api` panic on its
routes), `DocumentsReachHandlers` and `OnlyPagesArePublic` (for every table, index
and key value, also one that reads `_item` or `_swagger`), `StoredNamesLegal` and
`StoredDeclared` (after any sequence of PUTs and nested PATCHes),
`PatchDiffersByNulls` (where the merge is RFC 7396 and where it is not),
`DocumentedRequestsAnswered`, `AppliedRequestsDocumented`, `ResponsesDocumented`
(handlers against OpenAPI document, with the differences that exist as named
exceptions) and `ProjectionsKeep` (what a read returns, exactly: every row that it
selects, and of each the members that are documented).

Why these bounds are enough: a lost update needs a PATCH, a write it does not
see and one that made the row; three calls are these, and four is what a delete
followed by a new PUT would take beside it, which the proof covers. Walks of
one item a page take as many pages as there are rows, and a filter, an order
and a cursor on two columns differ from one column from two values of each on.
Three migrations make a table, change it and clean it up; a race needs two and
one that comes before. One refresh can be overtaken by one other, and a
withdrawn key is accepted at the very last instant within three ticks: the bound
`TTL + Latency` of `WithdrawnKeysExpire` is reached, one less is refuted.
Documents of two levels under the root reach every case of the recursion, and a
row that two PATCHes may follow every way a nested value comes about; the
properties of `Service` relate one request to the rows, so one table and one
request at a time show them. Servers read the database and otherwise share
nothing, so one stands for all of them; it needs the migration that its check
passed on and one that goes on beside it.
`Calls`, `Runs` and `MaxTime` bound the behaviours: each call and each run
happens once.

These runs may stop: all calls answered, walk over, migrations done. So they do
not check deadlock; the liveness runs check that nothing stops early. The
exception is `MCJwksCache.cfg`, where the provider may always rotate. No run waits
for another one in the code: what migrations wait for are PostgreSQL's locks, and
it ends a deadlock of two by failing one of them, which `Fail` allows.

Fairness: `MCItemStoreKeys.cfg` has weak fairness of each call's own steps (a
goroutine that can run is scheduled, the database executes what it accepted:
nothing in the handlers waits for another request, and row locks last one
statement), none of `Fail`. `MCPaging.cfg` has weak fairness of the client
that asks for the next page and of the server that answers, none of the
writers, which may write between any two pages for ever. A walk ends all the
same: its cursor only moves forward. `MCJwksCache.cfg` has weak fairness of a
goroutine's next step or the failure of its fetch, since the HTTP client has a
timeout; the provider need never answer. `MCDeployment.cfg` has weak fairness of
the two ends of `Shutdown` only: it polls for idle connections and its context
has a deadline. Clients, signals, statements and migrations may take for ever.

### Where code and documents part

Each of these runs ends in a counterexample.

| run | counterexample |
|---|---|
| `MCPagingScanIndex.cfg` | the second page of an index scan skips an item: ordered by index key, cursor on pk |
| `MCPagingQueryEnds.cfg` | an index query with a range key repeats its first page for ever: the cursor compares the index's range key with the token's range key of the base table |
| `MCMigrationRace.cfg` | a cleanup drops a table that another migration has found in place and does not look at again; the hash of the latter is stored |
| `MCMigrationMoved.cfg` | an index whose field changes in the configuration keeps its old definition, under the new hash |
| `MCServicePatch.cfg` | a patch `{"n": {"q": null}}` of a document without an object `n` stores the null that RFC 7396, which openapi.go:422 promises, would leave out |

Further disagreements are in the modules but have no run of their own. An index
query without a range key skips items too: the rows of one index key come in any
order. An index scan leaves out items that lack the index's range key (`Where`
and `Listed` differ). `limit + 1` overflows (`FetchLimit`). Names of indexes may
coincide (`idx_a_b_c`) or be cut to 63 bytes (`IndexName` and `Ident`); the
instances take names that are distinct and short. A token with a good kid may be
refused when an older answer of the provider is stored between its refresh and
its lookup: this is the exception in `RefreshFindsKey`, without which TLC refutes
it. When the clock does not advance between two write statements, a PATCH does
not notice a write between its read and its own and answers 200, where
API.md:108 promises 409: with `ClockAdvances = {0, 1}` TLC refutes
`NoLostUpdate`.

Between the OpenAPI document and the handlers, each of these is an exception
that `Service` names in a property: an enumerated key is documented without the
pattern that the handler applies as well (`EnumeratedKey`); an index without a
pattern is documented with that of the schema's property, which the handler does
not apply; a patch may hold nested objects without their
required members, and null for what is enumerated or constant, which its schema refuses
(`Describable`). What the table's schema says of whole documents (`enum`, `const`,
`minProperties`, `maxProperties`: `WholeKeywords`) is taken over into the schema of
answers, which have a `_type` besides, and of patches, which are no whole
documents: an item of the table with `maxProperties` members has one too many
as an answer, and a patch may have fewer members than `minProperties`, or more
than `maxProperties` with nulls among them. `ResponsesDocumented` and
`AppliedRequestsDocumented` leave these four keywords of the root out, and only these.
A PUT that leaves out the keys stores a row whose keys the schema
may refuse when they come back (`ResponsesDocumented`). An error is documented
with a required member `error`, and has `_error`; the items of a list are
documented to have `_type`, and have none. A missing jwksUrl is found by `api`,
not by `validate` (`ValidatedStarts`). CONFIG.md:83 speaks of closed objects at every
level: nodes without a type, and arrays without `items`, accept any
(`EveryNodeTyped`).

API.md:228 says that an index that INCLUDEs attributes returns the table's keys and
those attributes; `applyIndexProjection` returns the keys of the index as well
(`IndexFields`). CONFIG.md:85 wants names to begin with a letter; `jsonKeyRegexp`,
which API.md:253 quotes, also lets digits come first (`JsonKeys` is what that
expression matches). The limit of 1 MB on bodies, 400 beyond it, is in no document
(`Unread` in `DocumentedRequestsAnswered`).

## What is proved

`ItemStoreProofs`, for any calls, fields, values, schema and bodies:

- `Invariance`: `IInv` is an invariant. `TypeCorrect`, `LostUpdatesExcluded` and
  `ConflictsJustified` follow.
- `StoredAlwaysValid`: `StoredValid`.
- `Implementation`: `ItemStore` implements `AtomicItems`.

Their hypothesis is `FineClock`: the database's clock advances between the
starts of two write statements. It is needed (see above) and the
code relies on it: `now()` has microseconds. It also excludes a clock that is
set back. `StoredAlwaysValid` also needs `SchemaAcceptsKeys`: the schema accepts a
document it accepts when the values of the path are put in for its keys. The
configuration check does not ensure this: it asks for a pattern of each key
property in the schema, not for the one the path is checked with.

`NoLostUpdate` is not inductive: nothing in it says why the time of a
snapshot cannot come back. `IInv` adds that no row, snapshot or other statement
carries the time of a statement under way (`StampsFresh`), which the clock is
never behind (`StampsPast`), and that a snapshot equals the row until another
call writes and differs from it in time from then on (`SnapshotsTell`). The
refinement needs `SnapshotsTell` at one place: when a conditional UPDATE hits,
the document it was computed from is the one in the row.

`PagingProofs`, for any keys, limits, filters and writers:

- `TypeCorrect`: `TypeOK`.
- `Invariance`: `BaseInv`, `IInv` for every walk over a base table, is an
  invariant; `NothingMissed` is `Complete`, `NothingRepeated` is `PagesAscend`.

The hypothesis of the last two is `OnlyBase`: the listings are those of the base
table. The counterexamples above are what happens on an index. The invariant is
`CursorSplits`: what was returned lies up to the cursor, and what is still owed
behind it. It holds because order and cursor compare the same columns
(`SortIsKeyOrder`, `CursorIsKeyOrder`).

`JwksCacheProofs`, for any number of requests, any key sets and any times with
`Latency < TTL`:

- `Invariance`: `IInv` is an invariant; `TypeCorrect` and `RefreshesFind`
  (`RefreshFindsKey`) follow.
- `WithdrawnKeysGone`: `WithdrawnKeysExpire`.

A key lets a request through from the cache, at most `TTL` after it was stored,
or from a refresh, at most two fetches after. `IInv` says how old what is stored
was when it was stored (`KeySetsRecent`), that a call in its second lookup has
stored something since it began (`RefreshesLast`), and which answers on the way
hold the kid of a refresh (`AnswersHaveKid`).

`MigrationProofs`, for any runs at any number at a time, any accepted
configurations and any names:

- `TypeCorrect`: `TypeOK`. It has two parts that need each other: what is
  committed or about to be is a definition some configuration asks for, and a run
  stands at a table and an index of its own configuration (`PlaceOK`), from which
  it takes that definition.
- `DryRunsKeep`: `DryRunKeeps`. Only a commit changes `db`, and the run that
  moves in that step is the one that commits.

Two premises tell what the next theorems ask of the configurations, that is, of all
that are ever migrated on one database. `config.Validate` ensures neither.
`NamesApart`: table names are not longer than the 63 bytes PostgreSQL keeps, and no
index gets the name of a table or of `_meta`. `IndexesKeepFields`: index
names are not cut off either, those of two tables differ, and an index has the
same fields in all configurations in which its table has the same key; without it
`MCMigrationMoved.cfg` ends in its counterexample. `MCMigration.cfg` satisfies both.

Further in `MigrationProofs`:

- `MetaInvariance`: `MetaInv` is an invariant. `MetaTells`: `MetaTellsTables`, under
  `NamesApart`.

`MetaTellsTables` speaks of what is committed, and what is committed next is what
one transaction sees, after any number of commits of others. So `MetaInv` says the
same of what each transaction has made of a table and its row (`PairsOK`), that
no two transactions have touched one object (`LocksOK`), that an index that is
added is on a table its transaction sees (`AddedOK`), and that nobody has or adds
an index on a table while another transaction is dropping it (`DroppedOK`), which
is where the lock matters that `DROP TABLE` and `CREATE INDEX` both take.

`MigrationHashProofs`:

- `HashInvariance`: `HashInv` is an invariant. `HashTellsProved`:
  `HashTellsUnlessRaced`, under both premises.

A run writes the hash because it has been through its configuration. So `HashInv`
says that a run sees all it is past (`PreparedOK`). It keeps seeing it, since
others add and never replace (`OnlyAdds`, `RowsOK`) unless they clean up, and then
they are alone (`RunsApart`). A run finds an index in place by its name, table and
nothing else; that its fields are right as well is `IndexesDefined` and
`AddedDefined`: each index is one that some configuration has for a table with
the key this table has now.

Further in `MigrationHashProofs`:

- `CleanInvariance`: `CleanInv` is an invariant. `CleanupLeaves`:
  `CleanupLeavesConfigured`, under `NamesApart`.

A cleanup only drops what it has listed, in an earlier statement. So `CleanInv` says
that a run that cleans up sees no index but the desired ones on each table it is
past, that between listing and dropping all other things it sees are among those
listed, and that no other run beside it commits (`RunsApart`), so that what it sees
stays. That an index left over is on a table of the configuration is `MetaInv`
again.

`DeploymentProofs`, for any servers, requests, migrations and configurations:

- `ServersCorrect`: `ServersOK`, which is inductive: a request is opened only at a
  process that serves, a process that ends otherwise than cleanly gives up its
  requests, and one that ends cleanly has none.
- `ServersConform`: `RunningServersConform`, under both premises. Every behaviour of
  a deployment is one of `Migration` (`DeploymentMigrates`), so the invariants above
  hold; what a check found is kept by commits that only add, and by a cleanup
  of the same structure.

`RoutesProofs`, for any tables and indexes with any names:

- `ValidatedRegisters`: the routes of a configuration that `validate` accepts never
  conflict in the mux: no two of one method overlap. That needs distinct names of
  tables and indexes, and nothing else about names; a table may be called `data`.

`ServiceProofs`, for any configuration files, key values, bodies and values of
`?fields=`, and whatever the constants `...Below` and `Satisfies` do:

- `Invariance`: `IInv` is an invariant.
- `TypeCorrect`: `TypeOK`. `ServesWhatValidates`: `ValidatedStarts`. `DocumentsRouted`:
  `DocumentsReachHandlers`. `DataProtected`: `OnlyPagesArePublic`. `ReadsProject`:
  `ProjectionsKeep`. `AppliedAreDocumented`: `AppliedRequestsDocumented`.
- `AnswersDocumented`: `ResponsesDocumented`. Like `AppliedAreDocumented` it is for
  schemas with any of the keywords that the check allows, whatever `Satisfies` and
  `Arguments` are.
- `DocumentedAreAnswered`: `DocumentedRequestsAnswered`, and `NamesStayLegal`:
  `StoredNamesLegal`, both under `NamesAgreeBelow`.
- `DeclaredStored`: `StoredDeclared`, under `NothingUnsaidBelow`.
- `PatchesByTheStandard`: `PatchDiffersByNulls`, under `MergesAgreeBelow`.

`IInv` is `TypeOK` with `Started` (a server that is up has accepted its
configuration) and `RowsSound`. None of the properties about answers is
inductive: a PUT may leave out the keys, the validator sees the body without them, and
an answer has them put back. So `RowsSound` says of each row only what survives
that: its members but for the keys are declared and accepted by their own schemas,
and with the keys all required ones are there. From it an answer is what its
schema says, unless the schema refuses the keys, which is the exception in
`ResponsesDocumented`; and nothing undeclared is stored.

What is the same at every depth cannot be proved by induction here, but its step can.
`NamesAgreeBelow` says of the functions below the outermost level that a value is
legal exactly if its names are, and that a merge brings in no names; `NamesHandOn`
proves that then this is so with the outermost level added. `UnsaidHandOn` does
that for `NothingUnsaidBelow` (a value that a valid, typed schema node accepts has
nothing in it that the node leaves undeclared), and `MergesHandOn` for
`MergesAgreeBelow` (a merge is RFC 7396's unless a null meets no object). All three
hold of functions that look at nothing (every value legal and nameless, no
schema valid, every merge with a null that meets no object). So by the lemmas they hold of
those with any number of levels put on top, which agree with `Nesting`'s on documents
of as many levels. That last step, over the number of levels, is outside the prover;
the assumptions of `MCService` have TLC evaluate the three for `Nesting`'s functions on
every part of its bodies and schemas.

The assumptions of `Service`: `_type` is no field of a key (`keyFieldRegexp` wants a letter
first); a file's tables, indexes and required members are lists, and an index has
a primary key, which is no pointer; a body of a PATCH was read from JSON, so an object
is its members and nothing else.

Liveness (`EveryCallAnswered`, `WalkEnds`, `EveryRequestAnswered`, `ShutdownEnds`) is
beyond the prover and only checked by TLC. Every other property of a passing run is
a theorem.

## What is not modelled, and the plan

Not modelled on purpose: SQL text, JSON encoding, logging, flags, the
connection pool, the libraries, the wording of errors, descriptions and the YAML
of the OpenAPI document and its cache (which holds what would be generated
again). JSON numbers pass through `float64` and lose digits beyond 2^53; the
values here are opaque. What a keyword that bounds a string, a number or an array means is
a parameter. A schema that names another dialect with `$schema` than the library's
default may be read differently; that is not modelled. `rkBeginsWith` is a set of values; as a LIKE pattern it
also matches on `_` and `%`. Rows written under another schema than the one a
server has are outside.

Left for later: the query parameters of the OpenAPI document against those the
listings take.
