--------------------------- MODULE ResponseCache ---------------------------
(***************************************************************************)
(* The response cache in the request path.  The application stack looks a  *)
(* GET up before anything else; a table request passes the identity        *)
(* middlewares and is looked up again; handlers compute an answer and      *)
(* store it under the URL.  Entries live in buntdb files, one per slug of  *)
(* a URL, which survive a restart with another configuration.  Nothing     *)
(* invalidates an entry: it expires.                                       *)
(*                                                                         *)
(* The database is a version counter that every committed write advances.  *)
(* An answer says which request it was computed for, for whom, from which  *)
(* version and with which columns.                                         *)
(***************************************************************************)
EXTENDS Integers, Sequences, FiniteSets, Functions, FiniteSetsExt

CONSTANTS
    Proc,         \* request goroutines
    URL,          \* request URLs, path and query
    Route,        \* URL -> "table", "script", "plugin" or "catalog"
    Path,         \* URL -> r.URL.Path
    KeyPath,      \* URL -> the part of r.URL.String() before "?", still escaped
    File,         \* URL -> the slug that names its buntdb file
    Prefix,       \* URL -> "databases", "tables" or "schemas" if its path begins so, or "none"
    Table,        \* URL -> the table it reads
    Selected,     \* URL -> the columns of _select, which is given once at most
    Counted,      \* URL -> the COUNT of _count, if any
    Column,       \* columns and group functions on columns
    Field,        \* Column -> the field a column or group function reads
    Star,         \* the column "*"
    Caller,       \* identities
    Nobody,       \* no identity in the context
    Settings,     \* configurations: see SettingsAssumption
    Workloads,    \* per behaviour the URLs clients ask for and the configurations a start may find
    MaxVersion,   \* bound: committed writes
    MaxTime,      \* the longest time to live of the settings
    NoEntry, NoReply, NoRequest, NoAnswer, NoFile

Method == {"GET", "POST"}   \* POST stands for every method that writes

ASSUME RoutesAssumption ==
    /\ Route \in [URL -> {"table", "script", "plugin", "catalog"}]
    /\ Prefix \in [URL -> {"databases", "tables", "schemas", "none"}]
    /\ Star \in Column /\ Field \in [Column -> Column]
    /\ Selected \in [URL -> Seq(Column)] /\ Counted \in [URL -> SUBSET Column]
    /\ \A f \in {Path, KeyPath, File, Table} : DOMAIN f = URL
    /\ Workloads \subseteq [urls : SUBSET URL, confs : SUBSET Settings]
ASSUME BoundAssumption == MaxVersion \in Nat /\ MaxTime \in Nat
IsList(q) == Len(q) \in Nat /\ DOMAIN q = 1 .. Len(q)
ASSUME SettingsAssumption ==
    \A c \in Settings :
        /\ c.enabled \in BOOLEAN                          \* cache.enabled
        /\ c.time \in 0 .. MaxTime                        \* cache.time
        /\ IsList(c.endpoints)                            \* cache.endpoints
        /\ \A i \in DOMAIN c.endpoints :
              c.endpoints[i].enabled \in BOOLEAN /\ c.endpoints[i].time \in 0 .. MaxTime
        /\ c.whitelist \in [URL -> {"match", "none", "error"}]   \* jwt.whitelist
        /\ c.expose \in [{"enabled", "databases", "tables", "schemas"} -> BOOLEAN]
        /\ c.restrict \in BOOLEAN                         \* access.restrict
        /\ IsList(c.tables)                               \* access.tables
        /\ \A i \in DOMAIN c.tables :
              /\ c.tables[i].permissions \subseteq {"read", "write", "delete"}
              /\ c.tables[i].fields \in Seq(Column)
        /\ c.filtered \subseteq Range(Table)              \* tables with a user filter

VARIABLES
    conf,       \* the configuration, read at start-up
    work,       \* what clients ask for and what a start may find
    version,    \* writes committed so far
    store,      \* URL -> the entry under that key
    broken,     \* the files buntdb can no longer open
    past,       \* per goroutine that has a file open which others wrote to since: the
                \* entries it had when it was opened
    pc,         \* per goroutine: where its request is
    req,        \* per goroutine: its request, and the version when it arrived
    ans,        \* per goroutine: the answer its handler computed
    plugged,    \* the URL whose variables were last put into the plugin
    reply       \* the reply sent by the last step, if it sent one

vars == <<conf, work, version, store, broken, past, pc, req, ans, plugged, reply>>

-----------------------------------------------------------------------------
(***************************************************************************)
(* Decisions.                                                              *)
(***************************************************************************)

\* EndpointRules: the positions of the entries for a path, enabled or not: nothing
\* reads Endpoint.Enabled.
RulesFor(path) == {i \in DOMAIN conf.endpoints : conf.endpoints[i].endpoint = path}

EndpointRule(path) ==
    (conf.enabled /\ conf.endpoints = << >>) \/ RulesFor(path) # {}

EndpointTime(path) ==
    IF RulesFor(path) # {} THEN conf.endpoints[Min(RulesFor(path))].time ELSE conf.time

MatchURL(u) == conf.whitelist[u]

\* Mutant of Consults: the method is not looked at.
ConsultsAnyMethod(r) ==
    conf.enabled /\ MatchURL(r.url) = "none" /\ EndpointRule(Path[r.url])

\* Whether CacheMiddleware asks the cache at all.
Consults(r) ==
    /\ conf.enabled
    /\ r.method = "GET"
    /\ MatchURL(r.url) = "none"
    /\ EndpointRule(Path[r.url])

\* ExposureMiddleware refuses what begins like a listing that is not exposed.
\* The listing /{database}/{schema} does not.
ExposureRefuses(u) == Prefix[u] # "none" /\ ~conf.expose[Prefix[u]]

\* fieldsByPermission without a user: the last entry for table and operation.
fieldsByPermission(t, op) ==
    LET entries == {i \in DOMAIN conf.tables :
                       conf.tables[i].name = t /\ op \in conf.tables[i].permissions}
    IN  IF entries = {} THEN {Star} ELSE Range(conf.tables[Max(entries)].fields)

\* The permitted columns of a request; their order is left out.
FieldsPermissions(u, op) ==
    LET cols == Range(Selected[u])
        allowed == fieldsByPermission(Table[u], op)
    IN  IF ~conf.restrict \/ op = "delete" \/ Star \in allowed
        THEN IF cols # {} THEN cols ELSE {Star}
        ELSE IF cols # {} THEN {col \in cols : {col, Field[col]} \cap allowed # {}} ELSE allowed

\* The columns of the SELECT.  CountByRequest replaces the permitted ones by the
\* COUNT and _select as the client wrote it.
SelectColumns(u) ==
    IF Counted[u] # {} THEN Counted[u] \cup Range(Selected[u]) ELSE FieldsPermissions(u, "read")

\* Whom the ownership filter of the SELECT names.
FilteredFor(u, caller) == IF Table[u] \in conf.filtered THEN caller ELSE Nobody

-----------------------------------------------------------------------------
(***************************************************************************)
(* The buntdb files.                                                       *)
(***************************************************************************)

\* Mutant of BuntGet: the file is the key.
BuntGetByFile(u) ==
    {store[v].val : v \in {w \in URL : /\ File[w] = File[u] /\ File[w] \notin broken
                                       /\ store[w] # NoEntry}}

\* What BuntGet can return.
BuntGet(u) ==
    IF File[u] \notin broken /\ store[u] # NoEntry THEN {store[u].val} ELSE {}

\* Mutant of Entry: a time to live of zero is kept.
EntryAlways(v, t) == [val |-> v, left |-> t]

\* Mutant of Entry: the option Expires is not set.
EntryForever(v, t) == [val |-> v, left |-> MaxTime]

\* An entry that lives for t; expired entries are not returned.
Entry(v, t) == IF t > 0 THEN [val |-> v, left |-> t] ELSE NoEntry

\* One unit of an entry's time to live passes.
Expire(e) == IF e = NoEntry THEN NoEntry ELSE Entry(e.val, e.left - 1)
Aged(file) == [u \in DOMAIN file |-> Expire(file[u])]

-----------------------------------------------------------------------------
Init ==
    /\ work \in Workloads
    /\ conf \in work.confs
    /\ version = 0
    /\ store = [u \in URL |-> NoEntry]
    /\ broken = {}
    /\ past = [s \in Proc |-> NoFile]
    /\ pc = [s \in Proc |-> "idle"]
    /\ req = [s \in Proc |-> NoRequest]
    /\ ans = [s \in Proc |-> NoAnswer]
    /\ plugged = NoRequest
    /\ reply = NoReply

\* The request goes on to another step.
Goto(s, label, r, a) ==
    /\ pc' = [pc EXCEPT ![s] = label]
    /\ req' = [req EXCEPT ![s] = r]
    /\ ans' = [ans EXCEPT ![s] = a]
    /\ reply' = NoReply

\* The reply is sent; hit says that the cache gave it.
Send(s, r, ok, hit, a) ==
    /\ pc' = [pc EXCEPT ![s] = "idle"]
    /\ req' = [req EXCEPT ![s] = NoRequest]
    /\ ans' = [ans EXCEPT ![s] = NoAnswer]
    /\ reply' = [req |-> r, ok |-> ok, hit |-> hit, ans |-> a]

Refuse(s, r) == Send(s, r, FALSE, FALSE, NoAnswer)

\* CacheMiddleware answers: an error of the whitelist, or an entry.
CacheAnswers(s, r) ==
    \/ /\ MatchURL(r.url) = "error"
       /\ Refuse(s, r)
    \/ /\ Consults(r)
       /\ \E v \in BuntGet(r.url) : Send(s, r, TRUE, TRUE, v)

\* CacheMiddleware passes the request on.  The file may fail to open at any
\* time, so a request may pass although its entry is there.
CachePasses(r) == MatchURL(r.url) # "error"

\* The application stack: cache (if enabled), exposure (if enabled), router.
Arrive(s, u, m, c) ==
    /\ pc[s] = "idle"
    /\ LET r == [url |-> u, method |-> m, caller |-> c, seen |-> version]
       IN  \/ conf.enabled /\ CacheAnswers(s, r)
           \/ /\ conf.enabled => CachePasses(r)
              /\ IF conf.expose.enabled /\ ExposureRefuses(u)
                 THEN Refuse(s, r)
                 ELSE Goto(s, IF Route[u] = "table" THEN "chain" ELSE "handle", r, NoAnswer)
    /\ UNCHANGED <<conf, work, version, store, broken, past, plugged>>

\* The chain of the table routes: exposure, identity, and the cache again.
\* AccessControl is disabled.
TableChain(s) ==
    /\ pc[s] = "chain"
    /\ LET r == req[s]
       IN  \/ ExposureRefuses(r.url) /\ Refuse(s, r)
           \/ ~ExposureRefuses(r.url) /\ CacheAnswers(s, r)
           \/ /\ ~ExposureRefuses(r.url) /\ CachePasses(r)
              /\ Goto(s, "handle", r, NoAnswer)
    /\ UNCHANGED <<conf, work, version, store, broken, past, plugged>>

Answer(r, u, fields, who) ==
    [url |-> u, method |-> r.method, who |-> who, ver |-> version, fields |-> fields]

Handles(s, route, m) ==
    pc[s] = "handle" /\ Route[req[s].url] = route /\ req[s].method = m

\* No column is permitted, the request is malformed, the statement fails, or
\* the plugin lacks what loadFunc looks up.
HandlerFails(s) ==
    /\ pc[s] \in {"handle", "call"}
    /\ Refuse(s, req[s])
    /\ UNCHANGED <<conf, work, version, store, broken, past, plugged>>

SelectFromTables(s) ==
    /\ Handles(s, "table", "GET")
    /\ LET u == req[s].url
       IN  /\ FieldsPermissions(u, "read") # {}
           /\ Goto(s, "set", req[s],
                   Answer(req[s], u, SelectColumns(u), FilteredFor(u, req[s].caller)))
    /\ UNCHANGED <<conf, work, version, store, broken, past, plugged>>

\* InsertInTables, BatchInsertInTables, UpdateTable and DeleteFromTable, and
\* a script with a method that writes: the statement commits.
Write(s) ==
    /\ Handles(s, "table", "POST") \/ Handles(s, "script", "POST")
    /\ version < MaxVersion
    /\ version' = version + 1
    /\ Send(s, req[s], TRUE, FALSE, NoAnswer)
    /\ UNCHANGED <<conf, work, store, broken, past, plugged>>

\* GET of a script: its route has no identity middleware.
ExecuteFromScripts(s) ==
    /\ Handles(s, "script", "GET")
    /\ Goto(s, "set", req[s], Answer(req[s], req[s].url, {}, Nobody))
    /\ UNCHANGED <<conf, work, version, store, broken, past, plugged>>

\* Mutant of Catalog: the listing is cached like the others.
CatalogCached(s) ==
    /\ Handles(s, "catalog", "GET")
    /\ Goto(s, "set", req[s], Answer(req[s], req[s].url, {}, Nobody))
    /\ UNCHANGED <<conf, work, version, store, broken, past, plugged>>

\* Listings of databases, schemas and tables, and the description of a table.
Catalog(s) ==
    /\ Handles(s, "catalog", "GET")
    /\ Send(s, req[s], TRUE, FALSE, Answer(req[s], req[s].url, {}, Nobody))
    /\ UNCHANGED <<conf, work, version, store, broken, past, plugged>>

\* loadFunc puts the request into variables of the plugin that all requests share...
PluginVars(s) ==
    /\ pc[s] = "handle" /\ Route[req[s].url] = "plugin"
    /\ plugged' = req[s].url
    /\ Goto(s, "call", req[s], NoAnswer)
    /\ UNCHANGED <<conf, work, version, store, broken, past>>

\* ...and calls the function, which reads them; HandlerPlugin stores what it
\* returns, whatever the method and the status.
PluginCall(s) ==
    /\ pc[s] = "call"
    /\ Goto(s, "set", req[s], Answer(req[s], plugged, {}, Nobody))
    /\ UNCHANGED <<conf, work, version, store, broken, past, plugged>>

\* BuntSet: no rule, or the file cannot be opened.
BuntSetSkips(s) ==
    /\ pc[s] = "set"
    /\ Send(s, req[s], TRUE, FALSE, ans[s])
    /\ UNCHANGED <<conf, work, version, store, broken, past, plugged>>

BuntSetOpens(s) ==
    /\ pc[s] = "set"
    /\ conf.enabled /\ EndpointRule(KeyPath[req[s].url])
    /\ File[req[s].url] \notin broken
    /\ Goto(s, "write", req[s], ans[s])
    /\ UNCHANGED <<conf, work, version, store, broken, past, plugged>>

\* The URLs whose entries are in the file of a request.
Filed(s) == {u \in URL : File[u] = File[req[s].url]}

\* Mutant of Stored: a key that is there keeps its value and gets the time.
StoredRenews(s, kept) ==
    LET own == req[s].url
        val == IF store[own] # NoEntry THEN store[own].val ELSE ans[s]
    IN  [store EXCEPT ![own] = Entry(val, EndpointTime(KeyPath[own]))]

\* The entries after a write: the file as the goroutine found it when it opened it,
\* its own entry, and those kept of what others have appended since.
Stored(s, kept) ==
    [u \in URL |->
        IF u \notin Filed(s) \/ u \in kept THEN store[u]
        ELSE IF u = req[s].url THEN Entry(ans[s], EndpointTime(KeyPath[u]))
        ELSE IF past[s] # NoFile THEN past[s][u] ELSE store[u]]

\* The goroutines that have the file open now have it as it was.
Overtaken(s) ==
    [t \in Proc |->
        IF t = s THEN NoFile
        ELSE IF /\ pc[t] = "write" /\ past[t] = NoFile
                /\ File[req[t].url] = File[req[s].url]
             THEN [u \in Filed(s) |-> store[u]]
             ELSE past[t]]

\* db.Update and db.Close.  A goroutine appends where the file ended when it opened
\* it, over what others appended since: their entries are lost, so that earlier ones
\* show again, or what is left of them is read after its own, or damages the file.
BuntSetWrites(s) ==
    /\ pc[s] = "write"
    /\ \/ /\ \E kept \in IF past[s] = NoFile THEN {{}} ELSE SUBSET Filed(s) :
                store' = Stored(s, kept)
          /\ UNCHANGED broken
       \/ /\ past[s] # NoFile
          /\ broken' = broken \cup {File[req[s].url]}
          /\ UNCHANGED store
    /\ past' = Overtaken(s)
    /\ Send(s, req[s], TRUE, FALSE, ans[s])
    /\ UNCHANGED <<conf, work, version, plugged>>

\* Time passes for the entries.
Tick ==
    /\ \/ \E u \in URL : store[u] # NoEntry
       \/ \E s \in Proc : past[s] # NoFile /\ \E u \in DOMAIN past[s] : past[s][u] # NoEntry
    /\ store' = Aged(store)
    /\ past' = [s \in Proc |-> IF past[s] = NoFile THEN NoFile ELSE Aged(past[s])]
    /\ reply' = NoReply
    /\ UNCHANGED <<conf, work, version, broken, pc, req, ans, plugged>>

\* The server stops or crashes, and starts with another configuration.  The
\* database and the cache files stay.
Restart ==
    /\ conf' \in work.confs
    /\ pc' = [s \in Proc |-> "idle"]
    /\ req' = [s \in Proc |-> NoRequest]
    /\ ans' = [s \in Proc |-> NoAnswer]
    /\ past' = [s \in Proc |-> NoFile]
    /\ plugged' = NoRequest
    /\ reply' = NoReply
    /\ UNCHANGED <<work, version, store, broken>>

-----------------------------------------------------------------------------
MethodsOf(u) == IF Route[u] = "catalog" THEN {"GET"} ELSE Method

Step(s) ==
    \/ TableChain(s) \/ HandlerFails(s)
    \/ SelectFromTables(s) \/ Write(s) \/ ExecuteFromScripts(s) \/ Catalog(s)
    \/ PluginVars(s) \/ PluginCall(s)
    \/ BuntSetSkips(s) \/ BuntSetOpens(s) \/ BuntSetWrites(s)

Next ==
    \/ \E s \in Proc :
          \/ \E u \in work.urls, c \in Caller : \E m \in MethodsOf(u) : Arrive(s, u, m, c)
          \/ Step(s)
    \/ Tick
    \/ Restart

Spec == Init /\ [][Next]_vars

\* Time passes.  Nothing is assumed of requests: a handler may take for ever.
FairSpec == Spec /\ WF_vars(Tick)

-----------------------------------------------------------------------------
(***************************************************************************)
(* Properties.                                                             *)
(***************************************************************************)
Request == [url : URL, method : Method, caller : Caller, seen : 0 .. MaxVersion]
AnswerType ==
    [url : URL, method : Method, who : Caller \cup {Nobody}, ver : 0 .. MaxVersion,
     fields : SUBSET Column]

EntryType == [val : AnswerType, left : 1 .. MaxTime]

\* Every variable has its type: in particular an entry in a file has time to
\* live left, and no more than the longest that is configured.
TypeOK ==
    /\ conf \in Settings
    /\ work \in Workloads
    /\ version \in 0 .. MaxVersion
    /\ store \in [URL -> EntryType \cup {NoEntry}]
    /\ broken \subseteq Range(File)
    /\ \A s \in Proc : past[s] # NoFile =>
          /\ pc[s] = "write"
          /\ past[s] \in [Filed(s) -> EntryType \cup {NoEntry}]
    /\ pc \in [Proc -> {"idle", "chain", "handle", "call", "set", "write"}]
    /\ req \in [Proc -> Request \cup {NoRequest}]
    /\ ans \in [Proc -> AnswerType \cup {NoAnswer}]
    /\ \A s \in Proc :
          /\ pc[s] # "idle" => req[s] \in Request
          /\ pc[s] \in {"set", "write"} => ans[s] \in AnswerType
    /\ plugged \in URL \cup {NoRequest}
    /\ reply # NoReply =>
          /\ reply.req \in Request /\ reply.ok \in BOOLEAN /\ reply.hit \in BOOLEAN
          /\ reply.ans \in AnswerType \cup {NoAnswer}

Answered == reply # NoReply /\ reply.ok

\* A hit on a table or a script was computed by a GET of that very URL, although
\* URLs share files and handlers of other methods and routes write entries too.
HitIsSameRead ==
    Answered /\ reply.hit /\ Route[reply.req.url] \in {"table", "script"}
        => reply.ans.url = reply.req.url /\ reply.ans.method = "GET"

\* An acknowledged write has reached the database since its request arrived: no
\* answer cached under the same URL stands in for it.
WritesCommit ==
    Answered /\ reply.req.method = "POST" /\ Route[reply.req.url] \in {"table", "script"}
        => version > reply.req.seen

\* A listing that is not exposed is never given out, although the cache is asked
\* before the exposure middleware and its files outlive the configuration.
HiddenListings ==
    /\ Answered /\ Route[reply.req.url] = "catalog" /\ Prefix[reply.req.url] # "none"
    /\ conf.expose.enabled
    => conf.expose[Prefix[reply.req.url]]

\* A committed write is seen for good after a while: what the cache holds catches
\* up with the database, under any traffic and any restarts, although no write
\* invalidates an entry and slow handlers store old answers over newer ones.
CacheCatchesUp ==
    \A v \in 1 .. MaxVersion :
        version >= v ~> [](\A u \in URL : store[u] # NoEntry => store[u].val.ver >= v)

\* Once the configuration stays as it is, the cache ends up with what the handler
\* would answer under it: no entry is left whose table the handler now refuses, with
\* other columns or filtered where it is not now, although the entries of an earlier
\* configuration are in the files and racing writers bring old entries back.
AsHandled(u) ==
    store[u] # NoEntry /\ Route[u] = "table" =>
        /\ FieldsPermissions(u, "read") # {}
        /\ store[u].val.fields = SelectColumns(u)
        /\ \E c \in Caller : store[u].val.who = FilteredFor(u, c)

PolicyCatchesUp == <>[][conf' = conf]_vars => <>[](\A u \in URL : AsHandled(u))

\* A filtered table's answer was computed for the caller who gets it: "a tenant
\* filter that pREST auto-injects into every read" (UserFilterConfig).
AnswersForCaller ==
    Answered /\ reply.req.method = "GET" /\ Route[reply.req.url] = "table"
        /\ Table[reply.req.url] \in conf.filtered
        => reply.ans.who = reply.req.caller
=============================================================================
