# A TLA+ verification of pREST

pREST is an HTTP server in Go that puts a REST interface in front of PostgreSQL databases. This
fork adds multi-tenant workspaces, account closure and row ownership. The directory holds TLA+
modules translated from the Go source, TLC configurations that check them on small instances, and
TLAPS proofs of every safety property the passing runs check, for instances of every size.

`PROJECT.json` lists components, runs, mutants, the source lines each definition stands for,
findings, hazards and theorems. This file explains them.

## 1. Inventory of the system

| component | state it keeps | operations | hard behaviour |
|---|---|---|---|
| connection pool and routing (`adapters/postgres/internal/connection/conn.go`, `cmd/prestd/main.go`, `connection.go`) | package variables `pool`, `currDatabase`; a pool's `DB` map (DSN keys and name keys) and `RealName` map; open `*sql.DB` handles | start-up registration of `pg.urls` (`AddURI`, `SetRealName`), `Load`, `GetPool`, `Get`, `GetFromPool`, `AddDatabaseToPool`, `ResolveDBName`, `SetDatabase` | dials happen outside the mutex and race; two package variables have no lock; which of two keys leads to a connection depends on history |
| prepared-statement cache (`postgres.go`, `queries.go`) | package variable `stmts`; a map from SQL text to `*sql.Stmt` | `GetStmt`, `Stmt.Prepare`, and every adapter method that executes | unlocked allocation, look-up and store around an unlocked `Prepare`, one cache for all databases, transactions |
| SQL builder (`postgres.go`, `userfilter.go`, `workspacefilter.go`) | the text, placeholder counter and values of one request | `WhereByRequest`, `SetByRequest`, `ParseInsertRequest`, `ParseBatchInsertRequest`, COPY | maps are ranged over in random order while placeholders are numbered; two builders share one numbering; ownership filter and forced columns must survive client input |
| workspaces, members, invites (`controllers/workspaces.go`, `workspace_middleware.go`) | tables `tenants`, `tenant_members`, `tenant_invites` | create, rename, delete, invite, accept, change role, remove | every handler checks in one statement and writes in another; cascades; invites carry a role from one request to another |
| account (`controllers/account.go`) | the same tables, the Kratos identity and its metadata | closure (purge transaction, Talos, Kratos), set active workspace | three stores, failures in between, retries |
| controllers (`tables.go`, `databases.go`, `schemas.go`, `sql.go`, `healthcheck.go`) | none of their own | one handler per route | glue between the three adapter parts |
| response cache (`cache/`, `middlewares/cache.go`) | one buntdb file per slug of a URL; entries with a time to live | looked up by a middleware in the application stack and again in the chain of the table routes, written by `SelectFromTables`, `ExecuteFromScripts` and `HandlerPlugin` | nothing invalidates an entry; it is stored long after its query ran; files are opened anew by every request and outlive the process and its configuration; the key is the URL alone |
| schedules (`scheduled_runs.go`) | table `scheduled_runs` | create, delete, list; account closure purges a user's rows | the owner is checked in one statement and the row deleted by id in another; no foreign key to workspaces |
| permissions, exposure, JWT, authz (`middlewares/`, `authz.go`, `TablePermissions`, `FieldsPermissions`) | the configuration, read at start-up | decide | decisions are cached with the answer and outlive the configuration that made them |
| plugins, profile ingestion, configuration, scanner and formatters, migration commands, mocks | see `PROJECT.json` | | |

A request passes the middleware chain (the cache, exposure; for tables also identity and tenant,
which go into the context, and the cache once more), reaches a controller, which asks the SQL
builder for text and values; the builder asks the pool for the real name of the database. The
controller then calls the adapter, which asks the pool for a handle, the statement cache for a
statement on it, and executes. Workspace and account handlers bypass the builder and talk to the
`kawai` database through their own statements. Handlers of tables, scripts and plugins store their
answer in the cache before they send it. The pool, the current database, the statement cache, a
plugin's variables and the cache files are shared by all request goroutines; the rest is per request
or in the database.

What makes each part correct:

* pool: a request uses an open connection, to the server configured for the name it asked for;
  no connection is lost; a name never changes its connection; requests without a database in their
  path reach the default one;
* statement cache: what is executed is open, has the request's text, is not in a foreign
  transaction, and runs on the request's database (which a text that names none, or a wrong one, does
  not ensure); the server does not accumulate statements;
* SQL builder: text and values agree; the ownership filter confines reads and writes; the row
  of a single insert belongs to the caller; rows of a batch are not shifted;
* workspaces: roles come from owners; a workspace keeps an owner; nobody is put out by a stranger;
* account: the identity is deleted last; shared workspaces survive a closure;
* schedules: a schedule goes only when its owner deletes it or closes the account;
* response cache: a hit answers the request that was made; writes bypass it; it hides neither committed
  writes nor a new configuration for ever; and it answers a caller with that caller's rows (which it
  does not).

## 2. Modules

| module | models | state ↔ code |
|---|---|---|
| `ConnPool` | pool and routing | `byDSN`, `byName`: `Pool.DB` split by kind of key; `realName`: `Pool.RealName`; `pool`, `curr`: the package variables; `conns`, `live`: handles opened and not closed; `pc`, `gp`, `p`, `arg`, `qual`, `kind`, `hnd`: a goroutine's place and locals |
| `Directory` | what the pool promises | abstract: where each name leads (`to`), the one connection of each destination (`bound`), who uses which (`using`); no keys, locks, dials or races. `ConnPool` instantiates it |
| `StmtCache` | statement cache | `stmts`: the global; `caches`: every `Stmt` ever allocated; `prepared`: server-side statements; `realName`: `Pool.RealName` and the fallback, from which the qualifier of a table query comes; `s`, `statement`: locals |
| `QueryBuilder` | SQL builder | the request (`query`, `body`, `records`, `rules`, `uid`, `ws`) and the builder's locals: counter, fields, clauses, values |
| `Workspaces` | workspaces, account and schedules | one variable per table or external store, `pc`/`req` per handler, the handlers clients call and the path variables of the routes in this behaviour (one of `Setups`), and two history variables (`approved`, `held`) that only properties read |
| `ResponseCache` | cache, application stack, chain of the table routes, field permissions, exposure | `conf`: the configuration since the last start; `store`, `broken`: entries and damaged files; `past`: a file as a goroutine opened it, when others have written to it since; `version`: the database as the number of committed writes; `plugged`: a plugin's shared variables; `pc`, `req`, `ans`: a goroutine's place, request and answer; `reply`: the reply the last step sent, which only properties read |
| `MC…` | the instances TLC checks | constants only |
| `…Proofs` | theorems about the module of that name; `RoutingProofs` goes on from `ConnPoolProofs`, `StmtBoundProofs` from `StmtCacheProofs` | inductive invariants and proofs |
| `NumberLemmas` | facts about numbers the proofs share | the least-number principle, `Min` and `Max` |

**Atomicity.** In `ConnPool` and `StmtCache` a step is one critical section, one dial or prepare, or
one access to an unlocked package variable. `GetPool` and `GetStmt` are therefore a test, an
assignment and a read in separate steps. A data race on a pointer-sized variable is modelled as
reading the old or the new value, whichever the interleaving gives. In `Workspaces` a step is one SQL
statement, one call of Kratos or Talos, or one transaction that only writes; the closure's transaction
is one step per statement that decides on rows other requests write (`AccountPurgeSelect`, `Invites`,
`Members`, `Commit`), and other requests run in between: what they insert after the statement survives
it. `Free`, `FreeInvite`, `FreeMember` and `FreeRows` are the row locks PostgreSQL holds until the
commit: a statement that writes a row an uncommitted purge deleted waits. In `QueryBuilder` requests share nothing, so one request at a time is
modelled, and the steps are the iterations of the `range` loops: any remaining entry may be next,
which is what Go promises about maps. In `ResponseCache` a look-up is one step; the handler's query, the
opening of the file and the write with the close are three, since other goroutines open the same file
in between; a plugin's variables are written in one step and read in the next.

**Failure.** A dial, a prepare, a start-up connection, a parse of a script or a part of the SQL
builder may fail wherever the code has an error path (`OpenFails`, `PrepareFails`, `LoadFails`,
`ScriptFails`, `BuildFails`, `AddURIFails`, `CondInvalid`, `FieldInvalid`, `BodyEmpty`). A workspace
or account handler may stop between any two steps (`Abort`): an error of the database, of Talos or of
Kratos, a cancelled context or a crash of the server. A closure may be started again afterwards, as
often as the client likes. In `ResponseCache` any handler may fail (`HandlerFails`), a file may fail to
open at any time (a look-up may miss an entry that is there, a store may be skipped), a writer that
opened a file before another wrote to it loses the other's entries, brings earlier ones back or damages
the file for good (`past`, `Stored`, `broken`), and the server may stop at any moment and start with another configuration (`Restart`): goroutines and plugin variables go, the
database and the files stay.

**Abstractions.** A DSN is an opaque value with a database name; `Derived` is what `GetURI` builds
from a name. A SQL text is, for the cache, the database it names or the value `Unnamed`; a table query
names what `ResolveDBName` gives, which need not be the database it runs on, and a script runs on the
default database, since its route has no `{database}`. For the
builder a text is its clauses with their placeholders, and a value is a token saying where the
client put it, so that a value bound to the wrong column shows. The WHERE clause as SQL reads it is
`whereSyntax`: a set of alternatives, each a set of conditions. Users and their lower-cased emails
are the same thing. A role in a request is any name, of which `validRole` knows three. A schedule is its user and workspace. An answer of the cache model says for
which URL, method and identity it was computed, from which version of the database and with which
columns; method `POST` stands for all that write. Where the two sides of the cache parse a URL
differently (`r.URL.Path` for the look-up rule, the escaped text before `?` for the store rule) the
model keeps both. `FieldsPermissions` is called with an empty user name everywhere, so the per-user
entries are left out; so is the order of the columns it returns, which no property tells apart. A
`_count` replaces the permitted columns by the COUNT and `_select` as the client wrote it, and the model
does so (`SelectColumns`). What is permitted is what the code permits: a table without an entry for
reading is readable, although the sample configuration (`testdata/prest.toml:18`) and a middleware test
(`middlewares/config_test.go:111-121`) expect a refusal; the middleware that refused is disabled. So no
property says who may read what. `Endpoint.Enabled` is a setting that nothing reads, here as in the
code: an endpoint with `enabled = false` is cached. `TestEndpointRulesDisable` (`cache/cache_test.go:48-57`)
does not show it because the path it asks for is misspelt. COPY gets the column names joined and split at commas; a name with a comma (`Commas`) makes
`copyRows` return an error. JSON
shapes, wording of errors, logging and status codes are left out.

**External code**, modelled from its use and marked in the map: PostgreSQL's row locks and the cascades
from `tenants` (the repository has comments on them and no table definitions, so no property says that
they work; `MembersKept` says who may set them off),
Kratos, Talos, buntdb's files and expiry, the passing of time for invites and cache entries, and the
edge proxy that authenticates callers and injects the active workspace.

## 3. Runs

### Passing

`connpool` (302 000 states). Two concurrent requests of every kind on a server that is
single- or multi-database and has no URL, one alias, or two aliases of one database.
* `TypeOK`: besides types, no request works on a nil pool or handle (`NoNilUse`).
* `HandleInUseIsOpen`: losers of the dial race close handles while others pick theirs up; nobody
  uses a closed one.
* `NoOrphan`: with a pool made at start-up, an open handle is in the pool or in the hands of the
  goroutine that dialled it.
* `RoutedAsConfigured`: a request for a registered alias runs on its URL, not on the default host.
* `ImplementsDirectory` (refinement): every behaviour is one of `Directory`: after start-up a name leads
  to one destination for the life of the process, a destination has one connection, made no later than
  its first use and kept for good, two destinations never share one, and a request gets the connection
  its name leads to. `Leads` says which of the two keys counts: the DSN derived from the name, if it
  is bound, before the alias.
* `PathlessOnDefault`: scripts and listings, whose routes name no database, run on the default one,
  although they get it through the global `currDatabase`, which is written while others read it. It
  holds because `SetDatabase` is only ever called with the default name, and assumes that no alias has
  that name.
Both routing properties assume `Unambiguous` URLs (distinct names and DSNs, no alias for the default
name): `AddURI` returns the existing handle for a second alias of a DSN without registering the alias,
and no document says what should happen then. The refinement also assumes a pool made at start-up
(`EagerPool`); its mapping makes the directory stand still in the other configurations (`Routed`), which
the run includes for all other properties.

`stmtcache` (6.3 million states, symmetry). Two requests on the default database and one that `pg.urls`
adds, under an alias or without a name of its own, with and without `pg.cache`, in and out of
transactions.
* `UsableStatement`: what is executed is open, has the request's text and is no foreign
  transaction's.
* `NamedIsolation`: a query on a table runs on the pool of the database it was sent to, although the
  cache does not know about databases, provided `ResolveDBName` gives no other database the same
  qualifier (`Distinguished`). Two databases of one real name, and an unnamed `pg.urls` entry that falls
  back to the default name (`connpool_qualifier`), are not distinguished, and there it fails.
* `PreparedBounded`: with the cache, the statements left on the server per text are bounded by the
  number of concurrent requests. The exact bound accounts for the `Stmt`s the unlocked allocation
  can create.

`workspaces` (4.5 million states, symmetry). Two users and two concurrent handlers that may fail at
any point, closures and retries included. A behaviour's clients use one of two sets of handlers: all
of workspaces and account, or schedules with those that create, join, activate and close. The
members handlers read a path variable the mounted routes lack (see the findings), so the run
considers both the routes as mounted and the routes the comments of the handlers document; under the
former alone the handlers' bodies would be dead code.
* `TypeOK`: in particular members and invites have one of the three known roles, although requests
  carry others.
* `RolesTraceable`: whoever has a role created the workspace, or had that role chosen by somebody
  who was an owner when the handler looked.
* `MembersKept` (action property): a membership goes only when the user leaves, when somebody who has
  been an owner of the workspace removes the user or deletes the workspace, or when an account that has
  been a member of it is closed (closure deletes shared workspaces, see the findings). Checks and
  DELETEs are separate statements.
* `IdentityLast`: an identity is deleted only after its purge committed.
* `ActiveWasMember`: the workspace the edge injects is one the user has been a member of. It is not
  "is a member": membership may end at any time; `RequireWorkspaceMembership` checks it again on
  every request.
* `SchedulesKept` (action property): a schedule changes only by going, in a deletion or a closure that
  its own user asked for. The row may go between the check and the DELETE by id; that no other row
  is hit rests on ids not being reused.

`querybuilder` (1.6 million states). Every request of the five table handlers with up to two
conditions under each of two keys (one of them `_or`), five shapes of condition, five bodies,
batches of up to two records, and every combination of filter rules, identity and active tenant.
* `PlaceholdersBound`, `EveryValueUsed`: placeholders and values agree in both directions.
* `Confined`: the ownership filter is in every alternative of the WHERE clause, whatever the client
  adds, `_or` included.
* `SingleInsertOwned`: the row of a single insert has the caller as its owner and the active tenant or
  NULL, and in every other column what the client sent. A batch is another matter:
  `ParseBatchInsertRequest` forces nothing, and `etc/queries/lobehub/README.md:87-88` says that
  `user_id` is not injected for mutations.
* `RowsAligned`: in a batch, by VALUES or COPY, every column of every row gets its record's value, unless
  a name with a comma makes COPY fail.

`responsecache` (`FairSpec`, 361 000 states). Two concurrent requests. A behaviour has one of four sets
of URLs, with the configurations that matter to it, in any of which the server starts and restarts any
number of times: two URLs of one table that share a file (one counts, one does not); a script; a plugin;
a listing and a table whose path looks like one. The configurations: everything cached; columns
restricted, rows filtered and times of their own for two paths; a whitelist and a hidden listing; no
cache and an invalid expression in the whitelist; `/tables` hidden in the chain of the table routes only.
* `HitIsSameRead`: a hit on a table or script was computed by a GET of that URL.
* `WritesCommit`: an acknowledged write reached the database after it was asked for.
* `HiddenListings`: an unexposed listing is never given out, although the cache is asked before the
  exposure middleware: it holds because listings are never stored. It speaks of the three prefixes the
  middleware knows; `/{database}/{schema}` has none of them.
* `CacheCatchesUp` (liveness): from some time after a write on, no entry is older than it, although slow
  handlers store old answers over newer ones and racing writers bring old entries back.
* `PolicyCatchesUp` (liveness): when the configuration stays, every entry of a table ends up being what
  the handler would answer under it: same columns, same filter, and none where it refuses. It compares
  the cache with the code and does not say what a permission should allow.

Each property of these runs has a mutant of the code in the module (a definition whose comment says
`Mutant of …`) that breaks it.

### Violations (findings)

| run | property | what the code does |
|---|---|---|
| `connpool_lazy` | `DuplicatesClosed` | in multi-database mode without URLs the pool is created by the first requests, unlocked: two are created and a connection dialled for the first is in no pool and never closed |
| `connpool_qualifier` | `QualifiedByBoundDatabase` | an unnamed `pg.urls` entry gets no `RealName`, so its SQL is qualified with the default database |
| `stmtcache_multi` | `DatabaseIsolation` | a text that names no database (a listing) executes the statement another database's request prepared, on that database |
| `workspaces_owner` | `LastOwnerKept` | accepting an invite overwrites the role of an existing member: the only owner may be demoted |
| `workspaces_shared` | `SharedWorkspaceSurvives` | closure counts only the caller's own membership rows, so it deletes shared workspaces too |
| `workspaces_members` | `MembershipIdAccepted` | the handlers read path variable `id`, which the mounted routes do not have: every membership id is refused |
| `responsecache_identity` | `AnswersForCaller` | entries are keyed by the URL alone: a read of a table with a user filter is answered with the rows computed for another identity while the entry lives |

`PROJECT.json` quotes the comment of the repository each of them contradicts.

### Bounds

* `ConnPool`: two goroutines, enough for every race between two accesses of the shared state; three
  actors would add nothing to the pairwise checks except a third creation of the pool.
  `MaxDials = 2` handles opened by requests on top of start-up's (3 in the violation runs): one race
  for one name plus no more; a second race on another name is independent because keys are.
  A name is the default database or an alias, and the alias lives on another host.
* `StmtCache`: two goroutines, two databases, two named texts and the unnamed one, every `RealName` the
  registration can leave; `MaxPrep` is 4 with
  the cache, above the bound of three per text that `PreparedBounded` states, and 2 without, where
  the count is unbounded by design.
* `Workspaces`: two users, one workspace id, one invite id, one schedule id, two handlers. Ids are
  never reused, so a second workspace would behave like the first. Two roles, as the code only tells
  owners from others, and one it does not know.
* `QueryBuilder`: two keys and two conditions each let a list, an array and a value-less condition
  precede any other; two records let the second lack, or have in excess, columns of the first.
* `ResponseCache`: two goroutines, so that a slow one stores after another; `MaxVersion = 1` write,
  before and after which answers are computed; times to live of 1 and 2 units (`MaxTime = 2`), so
  that entries of one configuration outlive those of another. Configurations and URLs that do not meet
  in a definition are not combined.

`CHECK_DEADLOCK FALSE` is set for `ConnPool` (the process exits when `Load` cannot connect) and for
`Workspaces` (a handler that is refused stops in `rejected`, and a state where all ids are used and
all identities are gone has no step). The other three must never get stuck, and do not.

Symmetry permutes requests and users, or requests and databases together with their names; no run
with symmetry checks liveness.

### Fairness

Only `ResponseCache` has liveness properties. Its `FairSpec` assumes weak fairness of `Tick`: time
passes. It assumes nothing of requests, so both properties hold even if handlers hang (most statements
have no deadline), files do not open, or the server never stops restarting.

## 4. Proofs

Every invariant and action property of a passing run, and the refinement, is a theorem:
`Spec => []P`, `Spec => [][A]_vars` (`OwnersDelete`, `NotByStrangers`), or `Spec` implies the abstract specification
(`Refinement`), for every set of requests, users, names, URLs and columns, every bound and every
configuration the assumptions allow. What the assumptions say:

* nil values are not ordinary values (`NilAssumption`: `NoHandle` is neither a handle nor what the
  refinement maps one to), functions and configuration entries have their types, bounds are numbers;
* requests in flight (`ProcAssumption`) and columns are finite, and the two ownership columns are
  valid and different;
* two names have different derived DSNs (`DerivedAssumption`): `GetURI` escapes the name into the path
  of an otherwise fixed URL. The one exception in the code, a name that starts with the slash
  `u.String()` would add, is excluded by it.

| module | theorems | inductive invariant and why it is needed |
|---|---|---|
| `ConnPoolProofs` | `TypeCorrect`, `HandlesOpen`, `PathlessDefault` | `PoolInv`. A goroutine that has passed `GetPool` has a pool, which follows the global through the unlocked test, assignment and read (`NoNilUse`). That a used handle is open needs that pools hold only open handles (`PooledOpen`), and closing the loser's handle preserves that only because a freshly dialled handle is in no pool and in nobody else's hands (`DialledPrivate`). It holds even where `GetPool` races. `PathInv` follows the default name through `currDatabase` and the locals of scripts and listings. |
| `RoutingProofs` | `RouteInvariance`, `NoOrphans`, `RoutedRight`, `Refinement` | `PoolInv` and `RouteInv`. With a pool made at start-up there is no other (`OnePool`, which needs that requests wait for start-up, `Quiet`), and each open handle is in it or about to be stored (`Stocked`). A request is routed by whichever of two keys it meets first, so both must agree: DSN keys hold connections to their DSN (`Keyed`), name keys are those of the registered URLs and hold the URL's connection (`Aliases`), nothing under a derived DSN hides an alias (`NotHidden`), and that stays so because no request ever dials for an alias (`NoAliasDial`; during registration `OnlyURLs`). |
| `StmtCacheProofs` | `TypeCorrect`, `StatementsUsable`, `NamesIsolate` | `CacheInv`. A hit returns what an earlier request stored: entries are open statements of their key's text and of no transaction (`EntriesUsable`), transactions never look up or store (`OnlyCached`), nobody else holds a transaction's statement (`TxPrivate`), and a request's text, and a statement's, is what `ResolveDBName` gives for the pool it runs on (`RequestsNamed`, `StatementsNamed`); a hit from another pool then means that two databases have one qualifier. |
| `StmtBoundProofs` | `PreparedStatementsBounded` | `BoundInv`: `CacheInv`, `Allocations` and `Counted`. The bound on what was prepared does not carry itself; what may still be prepared has to be counted with it: the requests that have missed an entry that exists by now or a replaced `Stmt` (`Late`) and those that may still miss the current one (`Fresh`). Preparing moves a request from one of these sets into the count; storing turns fresh requests into late ones; a new `Stmt` makes all requests fresh except those that will allocate, which is what the term `k * Cardinality(Creating)` pays for in advance. |
| `WorkspacesProofs` | `TypeCorrect`, `Traceable`, `NotByStrangers`, `IdentityIsLast`, `ActiveMember`, `OwnersDelete` | `AccessInv`. It follows what was checked through invites (`InvitesApproved`) and through handlers between their check and their write (`CheckedRole`, `CheckedActive`, `Purging`). `NotByStrangers` adds `CheckedOwner`: a handler about to remove a member or delete a workspace has seen its caller as an owner, or its caller is the member, and a purge has only touched workspaces its user was in. `OwnersDelete` adds `AgendaInv`: a row that a handler is about to delete by id is the caller's own or gone already, which stays true because every id in a table or a request was generated and none is generated twice. |
| `QueryBuilderProofs` | `TypeCorrect`, `Bound`, `Used`, `FilterHolds`, `Forced`, `RowsCorrect` | `BuildInv`. The counter is one ahead of the values collected (`Numbered`), clauses and fields point at their own values (`ClausesBound`, `FieldsBound`), every value so far has a place (`ValuesUsed`), the filter is among the conditions that must all hold (`FilterThere`), and the columns of an INSERT go with their values (`RowBuilt`) and with what the client sent (`ClientBody`). `RowsCorrect` adds `RowsBuilt`: with `m` columns, column `j` of row `i` is value `(i - 1) * m + j`; `PlaceRange` and `WholeRows` are the arithmetic by which COPY finds the rows again. |
| `ResponseCacheProofs` | `CacheInvariance`, `CacheTyped`, `HitsAreReads`, `WritesReachDatabase`, `ListingsHidden` | `CacheInv`. What a hit gives out was put there by some request of some configuration, so entries (`EntriesRead`), entries a racing writer may bring back (`PastRead`) and answers on their way into a file (`AnswersRead`) are never listings and, on tables and scripts, answers to a GET of their own URL; the database is not behind what a request saw (`SeenBehind`), a plugin is called with some request's variables (`PluginReady`), and no request for a hidden listing is past the middleware (`ListingExposed`). |

Each proof has one lemma per group of actions and one step per conjunct the action can disturb;
`QuietInv`, `CheckInv`, `NoneJoins` and the like treat the actions that leave most of the state alone.
`NumberLemmas` derives the least-number principle from the library's well-foundedness of `<`; it gives
`Min` and `Max`, by which the first matching cache rule and the last matching permission are chosen. The
inductive invariants were checked with TLC on the runs' instances before they were proved.

Only model-checked: liveness under fairness (`CacheCatchesUp`, `PolicyCatchesUp`),
which is out of the prover's reach, as is `ENABLED` (and with it the absence of deadlock). The
violations are counterexamples and need no proof.

## 5. Not modelled

* Renaming a workspace and all read-only handlers: no property reads a display name. `CheckDBHealth`
  with named URLs only reads the pool.
* Script files and templates, JSON decoding, formatters, CORS: text processing or a library's work.
  `TablePermissions` is never called, and the JWT, auth and access-control middlewares are disabled.
* The authorisation endpoint: one SELECT and a comparison, no state.
* What a plugin does, how it is loaded, and plugin middlewares (foreign code); profile ingestion
  (best-effort writes nobody reads); migration commands; mocks.
* The program that runs schedules and writes their executions.
* The connections inside a `*sql.DB`, cancellation of statements and memory exhaustion.

Hazards without a property carry a note in `PROJECT.json`.

## 6. Plan

Done: inventory; `ConnPool` with its abstract specification `Directory`, `StmtCache`, `QueryBuilder`,
`Workspaces` with schedules, `ResponseCache`; their runs; proofs of all their safety properties and of
the refinement. Next, in this order:

1. What the findings leave: `DatabaseIsolation` for texts that name a database in single-database mode
   or with `pg.cache` off, `LastOwnerKept` when no member is invited again, as theorems with exactly the
   hypothesis the code is missing.
2. Action properties of the pool and the cache: a name never changes its connection, an entry is only
   replaced by an answer to the same URL.
3. A composition of `ConnPool` and `StmtCache`: the statement a request executes belongs to a handle
   that the pool gave some request for that database.
