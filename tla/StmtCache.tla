------------------------------ MODULE StmtCache ------------------------------
(***************************************************************************)
(* The prepared-statement cache of the PostgreSQL adapter: Stmt.Prepare,   *)
(* Prepare, PrepareTx, GetStmt and the adapter methods that execute what   *)
(* they return (adapters/postgres/postgres.go and queries.go).             *)
(*                                                                         *)
(* The cache maps the SQL text to a statement.  What matters of a text is  *)
(* the database it names: queries on tables qualify the table with what    *)
(* ResolveDBName makes of the name in the path, which need not be the      *)
(* database the pool is bound to; listings and scripts name none.          *)
(***************************************************************************)
EXTENDS Integers, Sequences, FiniteSets

CONSTANTS
    Proc,       \* requests in flight
    DB,         \* database names requests use, each with its connection pool
    Name,       \* names SQL may be qualified with
    Empty,      \* the empty string
    PGDatabase, \* pg.database
    Default,    \* the database of requests that name none
    RealNames,  \* what start-up may leave in Pool.RealName
    Unnamed,    \* the text that names no database
    None,       \* no request
    MaxPrep     \* bound: statements prepared without and with the cache

Text == Name \cup {Unnamed}
Request == [db : DB, text : Text, tx : BOOLEAN]

ASSUME NamesAssumption ==
    /\ DB \subseteq Name /\ Default \in DB
    /\ Empty \notin Name /\ PGDatabase \in Name \cup {Empty}
    /\ RealNames \subseteq [DB -> Name \cup {Empty}]
ASSUME ConstantsAssumption ==
    /\ Unnamed \notin Name
    /\ None \notin Request
    /\ MaxPrep \in [BOOLEAN -> Nat]
ASSUME ProcAssumption == IsFiniteSet(Proc)

VARIABLES
    PGCache,    \* pg.cache
    realName,   \* Pool.RealName, complete before requests come (Empty: no entry)
    stmts,      \* the global *Stmt: an index into caches, 0 for nil
    caches,     \* the PrepareMap of every Stmt allocated; 0 for no entry
    prepared,   \* the statements prepared so far
    pc, req,    \* per request: where it is and what it runs
    s,          \* ... the *Stmt that GetStmt returned
    statement   \* ... the statement that Prepare returned, 0 before

vars == <<PGCache, realName, stmts, caches, prepared, pc, req, s, statement>>

Statement == [db : DB, text : Text, tx : BOOLEAN, open : BOOLEAN]

Init ==
    /\ PGCache \in BOOLEAN
    /\ realName \in RealNames
    /\ stmts = 0 /\ caches = <<>>
    /\ prepared = <<>>
    /\ pc = [p \in Proc |-> "idle"]
    /\ req = [p \in Proc |-> None]
    /\ s = [p \in Proc |-> 0]
    /\ statement = [p \in Proc |-> 0]

Goto(p, label) == pc' = [pc EXCEPT ![p] = label]

\* The adapter method returns.
Return(p) ==
    /\ Goto(p, "idle")
    /\ req' = [req EXCEPT ![p] = None]
    /\ s' = [s EXCEPT ![p] = 0]
    /\ statement' = [statement EXCEPT ![p] = 0]
    /\ UNCHANGED <<PGCache, realName, stmts, caches>>

\* Mutant of Cached: transactions use the cache too.
CachedInTx(p) == PGCache

\* Is the cache consulted for this request?
Cached(p) == PGCache /\ ~req[p].tx

\* The name that qualifies the tables of database d: that of another database
\* when pg.urls gave d no real name.
ResolveDBName(d) ==
    IF realName[d] # Empty THEN realName[d]
    ELSE IF PGDatabase # Empty THEN PGDatabase ELSE d

-----------------------------------------------------------------------------
\* An adapter method is called on pool d with text x.
Call(p, d, x, tx) ==
    /\ pc[p] = "idle"
    /\ req' = [req EXCEPT ![p] = [db |-> d, text |-> x, tx |-> tx]]
    /\ Goto(p, "get")
    /\ UNCHANGED <<PGCache, realName, stmts, caches, prepared, s, statement>>

\* The methods the controllers call for a table of d.
TableCall(p, d, tx) == Call(p, d, ResolveDBName(d), tx)
QueryCountCtx(p, d) == TableCall(p, d, FALSE)
InsertCtx(p, d) == TableCall(p, d, FALSE)
BatchInsertValuesCtx(p, d) == TableCall(p, d, FALSE)
DeleteCtx(p, d) == TableCall(p, d, FALSE)
UpdateCtx(p, d) == TableCall(p, d, FALSE)
\* QueryCtx also runs the listings of a database, and scripts.
QueryCtx(p, d) == TableCall(p, d, FALSE) \/ Call(p, d, Unnamed, FALSE)
\* Scripts that write: /_QUERIES has no database in its path.
WriteSQLCtx(p, d) == d = Default /\ Call(p, d, Unnamed, FALSE)
\* Insert-, Delete- and UpdateWithTransaction, in a transaction of d: offered by
\* the adapter, called by no handler.
WithTransaction(p, d) == TableCall(p, d, TRUE)

Arrive(p) ==
    \E d \in DB :
        \/ QueryCtx(p, d) \/ QueryCountCtx(p, d)
        \/ InsertCtx(p, d) \/ BatchInsertValuesCtx(p, d) \/ DeleteCtx(p, d) \/ UpdateCtx(p, d)
        \/ WriteSQLCtx(p, d) \/ WithTransaction(p, d)

\* GetStmt: the global is tested, allocated and returned without a lock.
GetStmtNil(p) ==
    /\ pc[p] = "get" /\ stmts = 0
    /\ Goto(p, "create")
    /\ UNCHANGED <<PGCache, realName, stmts, caches, prepared, req, s, statement>>

\* Mutant of GetStmtCreate: the new Stmt is assigned to a local variable.
GetStmtCreateShadowed(p) ==
    /\ pc[p] = "create"
    /\ caches' = Append(caches, [x \in Text |-> 0])
    /\ Goto(p, "return")
    /\ UNCHANGED <<PGCache, realName, stmts, prepared, req, s, statement>>

GetStmtCreate(p) ==
    /\ pc[p] = "create"
    /\ caches' = Append(caches, [x \in Text |-> 0])
    /\ stmts' = Len(caches) + 1
    /\ Goto(p, "return")
    /\ UNCHANGED <<PGCache, realName, prepared, req, s, statement>>

GetStmtReturn(p) ==
    /\ pc[p] = "return" \/ (pc[p] = "get" /\ stmts # 0)
    /\ s' = [s EXCEPT ![p] = stmts]
    /\ Goto(p, IF Cached(p) THEN "lookup" ELSE "prepare")
    /\ UNCHANGED <<PGCache, realName, stmts, caches, prepared, req, statement>>

\* Stmt.Prepare: lookup under the mutex,
Lookup(p) ==
    LET hit == caches[s[p]][req[p].text]
    IN  /\ pc[p] = "lookup"
        /\ statement' = [statement EXCEPT ![p] = hit]
        /\ Goto(p, IF hit # 0 THEN "exec" ELSE "prepare")
        /\ UNCHANGED <<PGCache, realName, stmts, caches, prepared, req, s>>

\* Mutant of PrepareOK: the pool is the default one, not the request's.
PrepareOnDefault(p) ==
    /\ pc[p] = "prepare" /\ Len(prepared) < MaxPrep[PGCache]
    /\ prepared' = Append(prepared, [db |-> Default, text |-> req[p].text,
                                     tx |-> req[p].tx, open |-> TRUE])
    /\ statement' = [statement EXCEPT ![p] = Len(prepared) + 1]
    /\ Goto(p, IF Cached(p) THEN "store" ELSE "exec")
    /\ UNCHANGED <<PGCache, realName, stmts, caches, req, s>>

\* ... db.Prepare or tx.Prepare without it,
PrepareOK(p) ==
    /\ pc[p] = "prepare" /\ Len(prepared) < MaxPrep[PGCache]
    /\ prepared' = Append(prepared, [db |-> req[p].db, text |-> req[p].text,
                                     tx |-> req[p].tx, open |-> TRUE])
    /\ statement' = [statement EXCEPT ![p] = Len(prepared) + 1]
    /\ Goto(p, IF Cached(p) THEN "store" ELSE "exec")
    /\ UNCHANGED <<PGCache, realName, stmts, caches, req, s>>

PrepareFails(p) ==
    /\ pc[p] = "prepare"
    /\ Return(p)
    /\ UNCHANGED prepared

\* Mutant of Store: the statement is not kept.
StoreDropped(p) ==
    /\ pc[p] = "store"
    /\ Goto(p, "exec")
    /\ UNCHANGED <<PGCache, realName, stmts, caches, prepared, req, s, statement>>

\* ... and the store under the mutex, over whatever a concurrent request stored.
Store(p) ==
    /\ pc[p] = "store"
    /\ caches' = [caches EXCEPT ![s[p]][req[p].text] = statement[p]]
    /\ Goto(p, "exec")
    /\ UNCHANGED <<PGCache, realName, stmts, prepared, req, s, statement>>

\* The statement runs on the pool it was prepared on.  Nothing closes it, but
\* the end of a transaction closes the statements of the transaction.
Exec(p) ==
    /\ pc[p] = "exec"
    /\ prepared' = IF req[p].tx THEN [prepared EXCEPT ![statement[p]].open = FALSE]
                   ELSE prepared
    /\ Return(p)

Next ==
    \E p \in Proc :
        \/ Arrive(p)
        \/ GetStmtNil(p) \/ GetStmtCreate(p) \/ GetStmtReturn(p)
        \/ Lookup(p) \/ PrepareOK(p) \/ PrepareFails(p) \/ Store(p) \/ Exec(p)

Spec == Init /\ [][Next]_vars

-----------------------------------------------------------------------------
\* Every variable has its type, and a request holds a Stmt once GetStmt returned
\* it, whichever of the concurrent allocations of the global won.
TypeOK ==
    /\ PGCache \in BOOLEAN
    /\ realName \in RealNames
    /\ stmts \in 0..Len(caches)
    /\ caches \in Seq([Text -> 0..Len(prepared)])
    /\ prepared \in Seq(Statement)
    /\ pc \in [Proc -> {"idle", "get", "create", "return", "lookup", "prepare", "store", "exec"}]
    /\ req \in [Proc -> Request \cup {None}]
    /\ s \in [Proc -> 0..Len(caches)]
    /\ statement \in [Proc -> 0..Len(prepared)]
    /\ \A p \in Proc : pc[p] # "idle" => req[p] # None
    /\ \A p \in Proc : pc[p] \in {"lookup", "prepare", "store"} => s[p] # 0

\* What a request executes is a statement with its own SQL text that is still
\* open, and never the statement of a transaction that is not its own: no
\* statement of a transaction gets into the shared cache, whatever the order in
\* which concurrent requests look up, prepare, store and end.
UsableStatement ==
    \A p \in Proc : pc[p] \in {"store", "exec"} =>
        /\ statement[p] # 0
        /\ LET stmt == prepared[statement[p]]
           IN  stmt.open /\ stmt.text = req[p].text /\ stmt.tx = req[p].tx

\* No other database shares the name that qualifies the tables of d.
Distinguished(d) == \A e \in DB : ResolveDBName(e) = ResolveDBName(d) => e = d

\* A query on a table runs on the pool of the database it was sent to, although
\* the cache knows nothing of databases, as long as ResolveDBName gives no other
\* database the same name: the name is part of the key.
NamedIsolation ==
    \A p \in Proc :
        pc[p] = "exec" /\ req[p].text # Unnamed /\ Distinguished(req[p].db) =>
            prepared[statement[p]].db = req[p].db

\* The statements the cache leaves behind are bounded, however many requests
\* come.  With n requests in flight the unlocked GetStmt allocates k <= n Stmts;
\* the i-th last of them is missed at most once by every request that is not
\* still about to allocate a later one, n - i: k*n - k*(k-1)/2 in all.
PreparedBounded ==
    LET n == Cardinality(Proc)
        k == Len(caches)
    IN  /\ k <= n
        /\ PGCache => \A x \in Text :
              Cardinality({i \in 1..Len(prepared) : prepared[i].text = x /\ ~prepared[i].tx})
                  <= k * n - (k * (k - 1)) \div 2

\* A request runs on the pool of the database it asked for (QueryCtx: "use the
\* db_name that was set on request to avoid runtime collisions").
DatabaseIsolation ==
    \A p \in Proc : pc[p] = "exec" => prepared[statement[p]].db = req[p].db
=============================================================================
