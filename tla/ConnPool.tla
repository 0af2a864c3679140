------------------------------ MODULE ConnPool ------------------------------
(***************************************************************************)
(* The connection pool of the postgres adapter (package connection) as the *)
(* server drives it: main registers the configured URLs, Load opens the    *)
(* default connection in single-database mode, and from then on request    *)
(* goroutines look names up and dial what is missing.  The mutex protects  *)
(* each look-up and each store, never the dial between them, and the       *)
(* package variables `pool` and `currDatabase` are read and written with   *)
(* no lock at all; every access to them is a step of its own.              *)
(*                                                                         *)
(* A *sql.DB handle is its position in `conns`, the log of sql.Open calls; *)
(* `live` holds the handles not yet closed.  A handle whose Ping fails is  *)
(* closed before openAndPing returns and never enters the log.             *)
(***************************************************************************)
EXTENDS Integers, Sequences, FiniteSets

CONSTANTS
    Proc,         \* request goroutines
    Main,         \* the start-up goroutine
    Name,         \* database names: path segments, aliases, real names
    Empty,        \* the empty string
    PGDatabase,   \* pg.database
    DSN,          \* connection strings
    Derived,      \* GetURI: the DSN made of PGHost/PGUser/... and a name
    RealDB,       \* the database a DSN is bound to (its path)
    Settings,     \* the configurations considered: see SettingsAssumption
    MaxDials,     \* bound: how many handles requests may open
    NoPool,       \* the nil *Pool
    NoHandle      \* the nil *sql.DB

PoolId == Proc \cup {Main}   \* a pool is named after the goroutine that made it
NameOrEmpty == Name \cup {Empty}

ASSUME NamesAssumption ==
    /\ Empty \notin Name
    /\ PGDatabase \in NameOrEmpty
    /\ Derived \in [NameOrEmpty -> DSN]
    /\ RealDB \in [DSN -> NameOrEmpty]
\* GetURI escapes the name into the path of a URL that is otherwise fixed; no
\* name starts with the slash that u.String() puts before a path without one.
ASSUME DerivedAssumption ==
    \A m, n \in NameOrEmpty : Derived[m] = Derived[n] => m = n
\* pg.single; pg.urls in order, with the empty URLs left out; whether pg.urls
\* is a plain list of strings (legacy) and so gives no names.
ASSUME SettingsAssumption ==
    Settings \subseteq [single : BOOLEAN,
                        urls : Seq([name : Name, dsn : DSN]),
                        legacy : BOOLEAN]
ASSUME NilAssumption ==
    /\ Main \notin Proc
    /\ NoPool \notin PoolId
    /\ NoHandle \notin Nat \cup (Nat \X DSN)
ASSUME BoundAssumption == MaxDials \in Nat

VARIABLES
    conf,        \* the configuration, fixed when it is read
    phase,       \* where main is
    nextURL,     \* the pg.urls entry registerExtraURLs is at
    registered,  \* the entries for which AddURI returned no error
    pool,        \* package variable pool
    byDSN,       \* Pool.DB restricted to poolKey keys, per pool
    byName,      \* Pool.DB restricted to nameKey keys, per pool
    realName,    \* Pool.RealName, per pool (Empty: no entry)
    curr,        \* package variable currDatabase
    conns,       \* the DSN of every handle opened so far
    live,        \* the handles that are not closed
    pc,          \* per goroutine: where its request is
    gp,          \* per goroutine: where its call of GetPool is
    p,           \* per goroutine: the *Pool its current call works on
    arg,         \* per goroutine: the database name it works with
    qual,        \* per goroutine: the name its SQL is qualified with (Empty: none)
    kind,        \* per goroutine: name from the path, name read by a script, or Get()
    hnd          \* per goroutine: the handle it holds

start == <<conf, phase, nextURL, registered>>
pools == <<pool, byDSN, byName, realName>>
handles == <<conns, live>>
request == <<pc, gp, p, arg, qual, kind, hnd>>
vars == <<conf, phase, nextURL, registered, pool, byDSN, byName, realName,
          curr, conns, live, pc, gp, p, arg, qual, kind, hnd>>

Handle == 1 .. Len(conns)
URLs == conf.urls
URLIndex == 1 .. Len(URLs)

GetURI(n) == Derived[IF n = Empty THEN PGDatabase ELSE n]

\* Mutant of Find: the name key is not tried.
FindByDSNOnly(q, n) == byDSN[q][GetURI(n)]

\* getDatabaseFromPool: the DSN key first, then the name key.
Find(q, n) ==
    IF byDSN[q][GetURI(n)] # NoHandle THEN byDSN[q][GetURI(n)]
    ELSE IF n = Empty THEN NoHandle ELSE byName[q][n]

ResolveDBName(q, n) ==
    IF realName[q][n] # Empty THEN realName[q][n]
    ELSE IF PGDatabase # Empty THEN PGDatabase ELSE n

EmptyPool(q) ==
    /\ byDSN' = [byDSN EXCEPT ![q] = [d \in DSN |-> NoHandle]]
    /\ byName' = [byName EXCEPT ![q] = [n \in Name |-> NoHandle]]
    /\ realName' = [realName EXCEPT ![q] = [n \in Name |-> Empty]]

Init ==
    /\ conf \in Settings
    /\ phase = "register"
    /\ nextURL = 1
    /\ registered = {}
    /\ pool = NoPool
    /\ byDSN = [q \in PoolId |-> [d \in DSN |-> NoHandle]]
    /\ byName = [q \in PoolId |-> [n \in Name |-> NoHandle]]
    /\ realName = [q \in PoolId |-> [n \in Name |-> Empty]]
    /\ curr = Empty
    /\ conns = << >>
    /\ live = {}
    /\ pc = [s \in Proc |-> "idle"]
    /\ gp = [s \in Proc |-> "test"]
    /\ p = [s \in Proc |-> NoPool]
    /\ arg = [s \in Proc |-> Empty]
    /\ qual = [s \in Proc |-> Empty]
    /\ kind = [s \in Proc |-> "none"]
    /\ hnd = [s \in Proc |-> NoHandle]

-----------------------------------------------------------------------------
(***************************************************************************)
(* Start-up.  Nothing else runs, so a call of AddURI is one step and       *)
(* GetPool finds or makes main's own pool.                                 *)
(***************************************************************************)

Open(d) ==
    /\ conns' = Append(conns, d)
    /\ live' = live \cup {Len(conns) + 1}

\* SetRealName, called by registerExtraURLs for named entries only and only
\* when the alias differs from the name in the URL.
SetRealName(u) ==
    IF ~conf.legacy /\ RealDB[u.dsn] # Empty /\ u.name # RealDB[u.dsn]
    THEN realName' = [realName EXCEPT ![Main][u.name] = RealDB[u.dsn]]
    ELSE UNCHANGED realName

\* AddURI returns a handle the pool already has.
AddURIExisting(u) ==
    /\ byDSN[Main][u.dsn] # NoHandle \/ byName[Main][u.name] # NoHandle
    /\ UNCHANGED <<byDSN, byName, conns, live>>

\* AddURI dials and stores the handle under the DSN and under the name.
AddURINew(u) ==
    /\ byDSN[Main][u.dsn] = NoHandle /\ byName[Main][u.name] = NoHandle
    /\ Open(u.dsn)
    /\ byDSN' = [byDSN EXCEPT ![Main][u.dsn] = Len(conns) + 1]
    /\ byName' = [byName EXCEPT ![Main][u.name] = Len(conns) + 1]

AddURIDone(u) ==
    /\ AddURIExisting(u) \/ AddURINew(u)
    /\ SetRealName(u)
    /\ registered' = registered \cup {nextURL}

\* The dial fails: the error is logged and the entry skipped for good.
AddURIFails(u) ==
    /\ byDSN[Main][u.dsn] = NoHandle /\ byName[Main][u.name] = NoHandle
    /\ UNCHANGED <<byDSN, byName, realName, conns, live, registered>>

RegisterURL ==
    /\ phase = "register" /\ nextURL \in URLIndex
    /\ AddURIDone(URLs[nextURL]) \/ AddURIFails(URLs[nextURL])
    /\ pool' = Main
    /\ nextURL' = nextURL + 1
    /\ UNCHANGED <<conf, phase, curr, request>>

RegistrationDone ==
    /\ phase = "register" /\ nextURL \notin URLIndex
    /\ phase' = "load"
    /\ UNCHANGED <<conf, nextURL, registered, pools, curr, handles, request>>

\* Load in single-database mode: SetDatabase, Get, Ping.
LoadSingle ==
    /\ phase = "load" /\ conf.single
    /\ curr' = PGDatabase
    /\ pool' = Main
    /\ \/ /\ Find(Main, PGDatabase) # NoHandle
          /\ UNCHANGED <<byDSN, conns, live>>
       \/ /\ Find(Main, PGDatabase) = NoHandle
          /\ Open(GetURI(PGDatabase))
          /\ byDSN' = [byDSN EXCEPT ![Main][GetURI(PGDatabase)] = Len(conns) + 1]
    /\ phase' = "serve"
    /\ UNCHANGED <<conf, nextURL, registered, byName, realName, request>>

\* Load cannot connect: os.Exit(1).
LoadFails ==
    /\ phase = "load" /\ conf.single
    /\ phase' = "exited"
    /\ UNCHANGED <<conf, nextURL, registered, pools, curr, handles, request>>

LoadMulti ==
    /\ phase = "load" /\ ~conf.single
    /\ phase' = "serve"
    /\ UNCHANGED <<conf, nextURL, registered, pools, curr, handles, request>>

-----------------------------------------------------------------------------
(***************************************************************************)
(* Requests.                                                               *)
(***************************************************************************)
Goto(s, label) == pc' = [pc EXCEPT ![s] = label]

\* The next call of GetPool starts afresh.
CallGetPool(s) ==
    /\ gp' = [gp EXCEPT ![s] = "test"]
    /\ p' = [p EXCEPT ![s] = NoPool]

Begin(s, k, n, label) ==
    /\ phase = "serve" /\ pc[s] = "idle"
    /\ Goto(s, label)
    /\ kind' = [kind EXCEPT ![s] = k]
    /\ arg' = [arg EXCEPT ![s] = n]
    /\ UNCHANGED <<start, pools, curr, handles, gp, p, qual, hnd>>

\* The response is written; nothing of the request survives.
Finish(s) ==
    /\ Goto(s, "idle")
    /\ CallGetPool(s)
    /\ arg' = [arg EXCEPT ![s] = Empty]
    /\ qual' = [qual EXCEPT ![s] = Empty]
    /\ kind' = [kind EXCEPT ![s] = "none"]
    /\ hnd' = [hnd EXCEPT ![s] = NoHandle]

\* validateTableParams: in single-database mode only the current name passes.
Valid(n) == conf.single => curr = n

\* Mutant of TableRequest: the handler makes its database the current one.
TableRequestSetsDatabase(s, n) ==
    /\ Valid(n)
    /\ phase = "serve" /\ pc[s] = "idle"
    /\ curr' = n
    /\ Goto(s, "resolve")
    /\ kind' = [kind EXCEPT ![s] = "ctx"]
    /\ arg' = [arg EXCEPT ![s] = n]
    /\ UNCHANGED <<start, pools, handles, gp, p, qual, hnd>>

\* A request on a table: the SQL builder runs first.
TableRequest(s, n) == Valid(n) /\ Begin(s, "ctx", n, "resolve")

\* A request whose SQL names no database.
PlainRequest(s, n) == Valid(n) /\ Begin(s, "ctx", n, "lookup")

\* A request that has no database name in its context: Get() on the current one.
CurrentRequest(s) == Begin(s, "catalog", curr, "lookup")

SelectFromTables(s, n) == TableRequest(s, n)
InsertInTables(s, n) == TableRequest(s, n)
DeleteFromTable(s, n) == TableRequest(s, n)
UpdateTable(s, n) == TableRequest(s, n)
\* Prest-Batch-Method: COPY sends no SQL text.
BatchInsertInTables(s, n) == TableRequest(s, n) \/ PlainRequest(s, n)
GetTablesByDatabaseAndSchema(s, n) == PlainRequest(s, n)
ShowTable(s, n) == PlainRequest(s, n)

GetDatabases(s) == CurrentRequest(s)
GetSchemas(s) == CurrentRequest(s)
GetTables(s) == CurrentRequest(s)
\* With named URLs in multi-database mode it only reads the pool (left out).
CheckDBHealth(s) ==
    /\ conf.single \/ conf.legacy \/ URLs = << >>
    /\ CurrentRequest(s)

\* /_QUERIES: the name is read from the global before SetDatabase writes it.
ExecuteFromScripts(s) == Begin(s, "script", curr, "setdb")

SetDatabase(s) ==
    /\ pc[s] = "setdb"
    /\ curr' = PGDatabase
    /\ Goto(s, "lookup")
    /\ UNCHANGED <<start, pools, handles, gp, p, arg, qual, kind, hnd>>

\* GetScript or ParseScript fails after SetDatabase.
ScriptFails(s) ==
    /\ pc[s] = "setdb"
    /\ curr' = PGDatabase
    /\ Finish(s)
    /\ UNCHANGED <<start, pools, handles>>

CallsGetPool == {"resolve", "lookup", "add"}

\* GetPool tests the package variable and returns it if it is set.
PoolTest(s) ==
    /\ pc[s] \in CallsGetPool /\ gp[s] = "test"
    /\ IF pool # NoPool
       THEN gp' = [gp EXCEPT ![s] = "got"] /\ p' = [p EXCEPT ![s] = pool]
       ELSE gp' = [gp EXCEPT ![s] = "create"] /\ UNCHANGED p
    /\ UNCHANGED <<start, pools, curr, handles, pc, arg, qual, kind, hnd>>

\* GetPool saw nil: it assigns a new pool and reads the variable again.
PoolCreate(s) ==
    /\ pc[s] \in CallsGetPool /\ gp[s] = "create"
    /\ pool' = s
    /\ EmptyPool(s)
    /\ gp' = [gp EXCEPT ![s] = "test"]
    /\ UNCHANGED <<start, curr, handles, pc, p, arg, qual, kind, hnd>>

Resolve(s) ==
    /\ pc[s] = "resolve" /\ gp[s] = "got"
    /\ qual' = [qual EXCEPT ![s] = ResolveDBName(p[s], arg[s])]
    /\ Goto(s, "lookup")
    /\ CallGetPool(s)
    /\ UNCHANGED <<start, pools, curr, handles, arg, kind, hnd>>

\* The rest of the SQL builder (where, order, page, returning) refuses the request.
BuildFails(s) ==
    /\ pc[s] = "lookup" /\ qual[s] # Empty /\ gp[s] = "test"
    /\ Finish(s)
    /\ UNCHANGED <<start, pools, curr, handles>>

\* GetFromPool (context requests) or the first half of Get.
LookupHit(s) ==
    /\ pc[s] = "lookup" /\ gp[s] = "got"
    /\ Find(p[s], arg[s]) # NoHandle
    /\ hnd' = [hnd EXCEPT ![s] = Find(p[s], arg[s])]
    /\ Goto(s, "use")
    /\ CallGetPool(s)
    /\ UNCHANGED <<start, pools, curr, handles, arg, qual, kind>>

LookupMiss(s) ==
    /\ pc[s] = "lookup" /\ gp[s] = "got"
    /\ Find(p[s], arg[s]) = NoHandle
    /\ Goto(s, IF kind[s] = "catalog" THEN "reread" ELSE "add")
    /\ CallGetPool(s)
    /\ UNCHANGED <<start, pools, curr, handles, arg, qual, kind, hnd>>

\* Get evaluates GetDatabase() a second time for AddDatabaseToPool.
Reread(s) ==
    /\ pc[s] = "reread"
    /\ arg' = [arg EXCEPT ![s] = curr]
    /\ Goto(s, "add")
    /\ UNCHANGED <<start, pools, curr, handles, gp, p, qual, kind, hnd>>

\* AddDatabaseToPool, first critical section.
AddFast(s) ==
    /\ pc[s] = "add" /\ gp[s] = "got"
    /\ IF byDSN[p[s]][GetURI(arg[s])] # NoHandle
       THEN /\ hnd' = [hnd EXCEPT ![s] = byDSN[p[s]][GetURI(arg[s])]]
            /\ Goto(s, "use")
            /\ CallGetPool(s)
       ELSE Goto(s, "open") /\ UNCHANGED <<gp, p, hnd>>
    /\ UNCHANGED <<start, pools, curr, handles, arg, qual, kind>>

\* openAndPing, outside the lock.
OpenOK(s) ==
    /\ pc[s] = "open"
    /\ Len(conns) < Cardinality(registered) + MaxDials
    /\ Open(GetURI(arg[s]))
    /\ hnd' = [hnd EXCEPT ![s] = Len(conns) + 1]
    /\ Goto(s, "store")
    /\ UNCHANGED <<start, pools, curr, gp, p, arg, qual, kind>>

\* Mutant of OpenFails: AddDatabaseToPool does not look at the error.
OpenFailsIgnored(s) ==
    /\ pc[s] = "open"
    /\ Goto(s, "store")
    /\ UNCHANGED <<start, pools, curr, handles, gp, p, arg, qual, kind, hnd>>

OpenFails(s) ==
    /\ pc[s] = "open"
    /\ Finish(s)
    /\ UNCHANGED <<start, pools, curr, handles>>

\* The rest of Store, common to the code and its mutants.
StoreEnds(s) ==
    /\ pc[s] = "store"
    /\ Goto(s, "use")
    /\ CallGetPool(s)
    /\ UNCHANGED <<start, pool, byName, realName, curr, conns, arg, qual, kind>>

\* Mutant of Store: the loser closes its handle and returns it all the same.
StoreReturnsClosed(s) ==
    /\ StoreEnds(s)
    /\ UNCHANGED hnd
    /\ IF byDSN[p[s]][GetURI(arg[s])] # NoHandle
       THEN live' = live \ {hnd[s]} /\ UNCHANGED byDSN
       ELSE /\ byDSN' = [byDSN EXCEPT ![p[s]][GetURI(arg[s])] = hnd[s]]
            /\ UNCHANGED live

\* Mutant of Store: the loser forgets to close its duplicate.
StoreKeepsDuplicate(s) ==
    /\ StoreEnds(s)
    /\ UNCHANGED live
    /\ IF byDSN[p[s]][GetURI(arg[s])] # NoHandle
       THEN hnd' = [hnd EXCEPT ![s] = byDSN[p[s]][GetURI(arg[s])]] /\ UNCHANGED byDSN
       ELSE /\ byDSN' = [byDSN EXCEPT ![p[s]][GetURI(arg[s])] = hnd[s]]
            /\ UNCHANGED hnd

\* Mutant of Store: the map is not checked again after the dial.
StoreOverwrites(s) ==
    /\ StoreEnds(s)
    /\ byDSN' = [byDSN EXCEPT ![p[s]][GetURI(arg[s])] = hnd[s]]
    /\ UNCHANGED <<live, hnd>>

\* AddDatabaseToPool, second critical section: a goroutine that lost the race
\* closes its own handle and takes the stored one.
Store(s) ==
    /\ StoreEnds(s)
    /\ LET d == GetURI(arg[s])
       IN  IF byDSN[p[s]][d] # NoHandle
           THEN /\ live' = live \ {hnd[s]}
                /\ hnd' = [hnd EXCEPT ![s] = byDSN[p[s]][d]]
                /\ UNCHANGED byDSN
           ELSE /\ byDSN' = [byDSN EXCEPT ![p[s]][d] = hnd[s]]
                /\ UNCHANGED <<live, hnd>>

\* The statement runs on the handle and the response is written.
Use(s) ==
    /\ pc[s] = "use"
    /\ Finish(s)
    /\ UNCHANGED <<start, pools, curr, handles>>

-----------------------------------------------------------------------------
Startup == RegisterURL \/ RegistrationDone \/ LoadSingle \/ LoadFails \/ LoadMulti

Arrive(s) ==
    \/ \E n \in Name :
          \/ SelectFromTables(s, n) \/ InsertInTables(s, n) \/ BatchInsertInTables(s, n)
          \/ DeleteFromTable(s, n) \/ UpdateTable(s, n)
          \/ GetTablesByDatabaseAndSchema(s, n) \/ ShowTable(s, n)
    \/ GetDatabases(s) \/ GetSchemas(s) \/ GetTables(s) \/ CheckDBHealth(s)
    \/ ExecuteFromScripts(s)

Step(s) ==
    \/ SetDatabase(s) \/ ScriptFails(s)
    \/ PoolTest(s) \/ PoolCreate(s)
    \/ Resolve(s) \/ BuildFails(s)
    \/ LookupHit(s) \/ LookupMiss(s) \/ Reread(s)
    \/ AddFast(s) \/ OpenOK(s) \/ OpenFails(s) \/ Store(s)
    \/ Use(s)

Next == Startup \/ \E s \in Proc : Arrive(s) \/ Step(s)

Spec == Init /\ [][Next]_vars

-----------------------------------------------------------------------------
(***************************************************************************)
(* Properties.                                                             *)
(***************************************************************************)
Label == {"idle", "resolve", "setdb", "lookup", "reread", "add", "open", "store", "use"}
Kind == {"none", "ctx", "script", "catalog"}

\* The types of the variables: a pool holds handles that sql.Open returned.
Typed ==
    /\ conf \in Settings
    /\ phase \in {"register", "load", "serve", "exited"}
    /\ nextURL \in 1 .. Len(URLs) + 1
    /\ registered \subseteq URLIndex
    /\ pool \in PoolId \cup {NoPool}
    /\ conns \in Seq(DSN)
    /\ live \subseteq Handle
    /\ byDSN \in [PoolId -> [DSN -> Handle \cup {NoHandle}]]
    /\ byName \in [PoolId -> [Name -> Handle \cup {NoHandle}]]
    /\ realName \in [PoolId -> [Name -> NameOrEmpty]]
    /\ curr \in NameOrEmpty
    /\ pc \in [Proc -> Label]
    /\ gp \in [Proc -> {"test", "create", "got"}]
    /\ p \in [Proc -> PoolId \cup {NoPool}]
    /\ arg \in [Proc -> NameOrEmpty]
    /\ qual \in [Proc -> NameOrEmpty]
    /\ kind \in [Proc -> Kind]
    /\ hnd \in [Proc -> Handle \cup {NoHandle}]

\* A goroutine that is about to use a pool or a handle has one.
NoNilUse ==
    \A s \in Proc :
        /\ gp[s] = "got" \/ pc[s] \in {"open", "store"} => p[s] # NoPool
        /\ pc[s] \in {"store", "use"} => hnd[s] # NoHandle

\* Variables have their types and no request dereferences a nil *Pool or a nil
\* *sql.DB, although the pool is assigned without a lock, look-ups miss and
\* dials fail (GetPool, AddDatabaseToPool).
TypeOK == Typed /\ NoNilUse

\* No goroutine ever runs a statement on a handle that was closed, although
\* losers of the dial race in AddDatabaseToPool close handles while others
\* are picking theirs up from the pool.
HandleInUseIsOpen == \A s \in Proc : pc[s] = "use" => hnd[s] \in live

Pooled(q) ==
    {byDSN[q][d] : d \in DSN} \cup {byName[q][n] : n \in Name}

\* Start-up makes the pool before the first request: every configuration
\* except multi-database mode with no URL.
EagerPool == conf.single \/ URLs # << >>

\* No connection is lost: an open handle is in the pool the server uses or is
\* still in the hands of the goroutine that dialled it ("close duplicate if
\* another goroutine won the race", AddDatabaseToPool).
DuplicatesClosed ==
    \A h \in live :
        \/ pool # NoPool /\ h \in Pooled(pool)
        \/ \E s \in Proc : pc[s] = "store" /\ hnd[s] = h

\* DuplicatesClosed in every configuration whose pool exists before requests.
NoOrphan == EagerPool => DuplicatesClosed

\* The URLs have different names and DSNs, none is an alias for the default name
\* or has the DSN derived from another's.  AddURI leaves the second alias of a DSN
\* unregistered, and a dial of the default database hides an alias of that name.
Unambiguous ==
    /\ \A i \in URLIndex : URLs[i].name # PGDatabase
    /\ \A i, j \in URLIndex : i # j =>
          /\ URLs[i].name # URLs[j].name /\ URLs[i].dsn # URLs[j].dsn
          /\ URLs[i].dsn # GetURI(URLs[j].name)

\* The configurations in which the pool keeps what Directory promises.
Routed == EagerPool /\ Unambiguous

Connection(h) == IF h = NoHandle THEN NoHandle ELSE <<h, conns[h]>>

Leads(n) ==
    IF byDSN[Main][GetURI(n)] = NoHandle /\ n # Empty /\ byName[Main][n] # NoHandle
    THEN conns[byName[Main][n]]
    ELSE GetURI(n)

\* The pool as a directory: names lead where the keys of main's pool say, a
\* request uses a connection while it is in "use".  In the other configurations
\* nothing is promised: the directory never moves.
openBar == ~Routed \/ phase = "register"
toBar == [n \in NameOrEmpty |-> IF Routed THEN Leads(n) ELSE GetURI(n)]
boundBar == [d \in DSN |-> IF Routed THEN Connection(byDSN[Main][d]) ELSE NoHandle]
usingBar ==
    [s \in Proc |->
        IF Routed /\ pc[s] = "use"
        THEN [name |-> arg[s], conn |-> Connection(hnd[s])]
        ELSE [name |-> NoHandle, conn |-> NoHandle]]

D == INSTANCE Directory WITH
    Client <- Proc,
    Name <- NameOrEmpty,
    Dest <- DSN,
    Home <- [n \in NameOrEmpty |-> GetURI(n)],
    NoConn <- NoHandle,
    open <- openBar,
    to <- toBar,
    bound <- boundBar,
    using <- usingBar

\* With such URLs the pool implements Directory: two keys per connection, dials
\* outside the lock, losers that close their handle and scripts that write the
\* current name notwithstanding, a name leads to one connection for the life of
\* the process, two destinations never share one, and a request gets the
\* connection its name leads to when it asks.
ImplementsDirectory == D!Spec

\* With such URLs a request for an alias that registerExtraURLs registered runs on
\* a connection to the URL configured for that alias, never on the one derived
\* from the default host.
RoutedAsConfigured ==
    \A s \in Proc, i \in registered :
        Unambiguous /\ pc[s] = "use" /\ arg[s] = URLs[i].name => conns[hnd[s]] = URLs[i].dsn

DefaultUnaliased == \A i \in URLIndex : URLs[i].name # PGDatabase

\* A script or a listing, which has no database in its path, runs on the default
\* database, whenever it reads currDatabase and however often scripts write it
\* in between (Get evaluates it twice).  An alias of the default name would hide it.
PathlessOnDefault ==
    DefaultUnaliased =>
        \A s \in Proc : pc[s] = "use" /\ kind[s] \in {"script", "catalog"} =>
            conns[hnd[s]] = GetURI(PGDatabase)

\* The SQL of a table request is qualified with the database its connection
\* is bound to (the purpose ResolveDBName states).
QualifiedByBoundDatabase ==
    \A s \in Proc :
        pc[s] = "use" /\ qual[s] # Empty => qual[s] = RealDB[conns[hnd[s]]]
=============================================================================
