--------------------------- MODULE StmtCacheProofs ---------------------------
(***************************************************************************)
(* For every number of requests, databases and statements: a request       *)
(* executes an open statement with its own text and its own transaction,   *)
(* and a query that names a database runs on the pool it was sent to when  *)
(* no other database is given that name.                                   *)
(*                                                                         *)
(* UsableStatement is not inductive: a hit returns what some earlier       *)
(* request stored, so the invariant must say that every entry of every     *)
(* cache is an open statement with the text of its key that belongs to no  *)
(* transaction; and since a transaction closes its statement when it ends, *)
(* that no other request holds it.                                         *)
(***************************************************************************)
EXTENDS StmtCache, TLAPS

Stmts == 1..Len(prepared)

\* What the maps hold: open statements of the text of the key, of no transaction.
EntriesUsable ==
    \A c \in 1..Len(caches), x \in Text : caches[c][x] # 0 =>
        LET stmt == prepared[caches[c][x]]
        IN  stmt.open /\ stmt.text = x /\ ~stmt.tx

\* Only requests that use the cache look up and store.
OnlyCached == \A p \in Proc : pc[p] \in {"lookup", "store"} => ~req[p].tx

\* The statement of a transaction is held by one request.
TxPrivate ==
    \A p, q \in Proc : p # q /\ pc[p] = "exec" /\ pc[q] = "exec" /\ req[p].tx =>
        statement[p] # statement[q]

\* A text is qualified with what ResolveDBName makes of its database, in the
\* requests and in the statements.
RequestsNamed ==
    \A p \in Proc : req[p] # None /\ req[p].text # Unnamed => ResolveDBName(req[p].db) = req[p].text
StatementsNamed ==
    \A i \in Stmts : prepared[i].text # Unnamed => ResolveDBName(prepared[i].db) = prepared[i].text

\* GetStmt never returns nil.
Allocated == \A p \in Proc : pc[p] = "return" => stmts # 0

CacheInv == /\ TypeOK /\ Allocated /\ EntriesUsable /\ UsableStatement /\ OnlyCached /\ TxPrivate
            /\ RequestsNamed /\ StatementsNamed

\* An element of a sequence has the type of its elements.
LEMMA ElementType ==
    ASSUME NEW S, NEW q \in Seq(S), NEW i \in 1..Len(q) PROVE q[i] \in S
  OBVIOUS

\* None is not a request, so a request in progress has its fields.
LEMMA RequestType ==
    ASSUME TypeOK, NEW p \in Proc, pc[p] # "idle" PROVE req[p] \in Request
  BY DEF TypeOK

\* At start-up there is no cache, no statement and no request.
LEMMA InitInv == Init => CacheInv
<1> SUFFICES ASSUME Init PROVE CacheInv
  OBVIOUS
<1>1. TypeOK
  BY DEF Init, TypeOK
<1> QED
  BY <1>1 DEF Init, CacheInv, EntriesUsable, UsableStatement, Allocated, OnlyCached, TxPrivate,
     RequestsNamed, StatementsNamed, Stmts

\* db.Prepare or tx.Prepare: the new statement is fresh, the others are kept.
LEMMA PrepareOKInv == ASSUME CacheInv, NEW p \in Proc, PrepareOK(p) PROVE CacheInv'
<1> DEFINE new == Len(prepared) + 1
           stmt == [db |-> req[p].db, text |-> req[p].text, tx |-> req[p].tx, open |-> TRUE]
<1> USE DEF CacheInv
<1>1. req[p] \in Request /\ stmt \in Statement
  <2>1. req[p] \in Request
    BY RequestType DEF PrepareOK
  <2> QED
    BY <2>1 DEF Request, Statement
<1>2. /\ prepared' = Append(prepared, stmt) /\ prepared \in Seq(Statement)
      /\ statement' = [statement EXCEPT ![p] = new]
      /\ pc' = [pc EXCEPT ![p] = IF Cached(p) THEN "store" ELSE "exec"]
      /\ pc[p] = "prepare"
      /\ UNCHANGED <<PGCache, realName, stmts, caches, req, s>>
  BY DEF PrepareOK, Goto, TypeOK
<1> HIDE DEF stmt
<1>3. /\ prepared' \in Seq(Statement) /\ Len(prepared') = new /\ prepared'[new] = stmt
      /\ Len(prepared) \in Nat /\ new \in Nat
      /\ \A i \in Stmts : i \in Stmts' /\ prepared'[i] = prepared[i] /\ i # new
      /\ \A i \in Stmts' : i \in Stmts \/ i = new
  BY <1>1, <1>2 DEF Stmts
<1>4. TypeOK'
  <2>1. caches \in Seq([Text -> 0..Len(prepared)]) /\ 0..Len(prepared) \subseteq 0..Len(prepared')
    BY <1>3 DEF TypeOK
  <2>2. caches' \in Seq([Text -> 0..Len(prepared)'])
    BY <1>2, <2>1
  <2>3. /\ statement' \in [Proc -> 0..Len(prepared)']
        /\ pc' \in [Proc -> {"idle", "get", "create", "return", "lookup", "prepare", "store", "exec"}]
    BY <1>2, <1>3 DEF TypeOK
  <2> QED
    BY <1>2, <1>3, <2>2, <2>3 DEF TypeOK
<1>5. \A i \in 0..Len(prepared) : i # 0 => i \in Stmts
  BY <1>3 DEF Stmts
<1>6. \A c \in 1..Len(caches), x \in Text : caches[c][x] # 0 => caches[c][x] \in Stmts
  <2> TAKE c \in 1..Len(caches), x \in Text
  <2>1. caches[c] \in [Text -> 0..Len(prepared)]
    BY ElementType DEF TypeOK
  <2> QED
    BY <2>1, <1>5
<1>7. EntriesUsable'
  <2> SUFFICES ASSUME NEW c \in 1..Len(caches), NEW x \in Text, caches[c][x] # 0
               PROVE  /\ prepared'[caches[c][x]].open /\ prepared'[caches[c][x]].text = x
                      /\ ~prepared'[caches[c][x]].tx
    BY <1>2 DEF EntriesUsable
  <2>1. prepared'[caches[c][x]] = prepared[caches[c][x]]
    BY <1>3, <1>6
  <2> QED
    BY <2>1 DEF EntriesUsable
<1>8. \A q \in Proc : pc[q] \in {"store", "exec"} => statement[q] \in Stmts
  BY <1>5 DEF TypeOK, UsableStatement
<1>9. UsableStatement' /\ TxPrivate'
  BY <1>2, <1>3, <1>8 DEF UsableStatement, TxPrivate, TypeOK, stmt
<1>10. Allocated' /\ OnlyCached' /\ RequestsNamed'
  BY <1>2 DEF ResolveDBName, Allocated, OnlyCached, RequestsNamed, Cached, TypeOK
<1>11. StatementsNamed'
  <2>1. req[p] # None
    BY <1>2 DEF TypeOK
  <2>2. stmt.text # Unnamed => ResolveDBName(stmt.db) = stmt.text
    BY <2>1 DEF RequestsNamed, stmt
  <2> QED
    BY <1>2, <1>3, <2>2 DEF ResolveDBName, StatementsNamed
<1> QED
  BY <1>4, <1>7, <1>9, <1>10, <1>11

\* The end of a request closes at most the statement of its own transaction.
LEMMA ExecInv == ASSUME CacheInv, NEW p \in Proc, Exec(p) PROVE CacheInv'
<1> USE DEF CacheInv
<1>0. /\ prepared \in Seq(Statement) /\ Len(prepared) \in Nat /\ pc[p] = "exec"
      /\ statement[p] \in Stmts /\ req[p] \in Request
      /\ prepared[statement[p]].tx = req[p].tx
  BY RequestType DEF Exec, TypeOK, UsableStatement, Stmts
<1>1. /\ pc' = [pc EXCEPT ![p] = "idle"] /\ req' = [req EXCEPT ![p] = None]
      /\ s' = [s EXCEPT ![p] = 0] /\ statement' = [statement EXCEPT ![p] = 0]
      /\ UNCHANGED <<PGCache, realName, stmts, caches>>
  BY DEF Exec, Return, Goto
<1>2. /\ prepared' \in Seq(Statement) /\ Len(prepared') = Len(prepared)
      /\ \A i \in Stmts : /\ prepared'[i].db = prepared[i].db
                          /\ prepared'[i].text = prepared[i].text
                          /\ prepared'[i].tx = prepared[i].tx
                          /\ i # statement[p] \/ ~req[p].tx => prepared'[i] = prepared[i]
  <2>1. CASE req[p].tx
    <3> DEFINE closed == [prepared[statement[p]] EXCEPT !.open = FALSE]
    <3>1. prepared[statement[p]] \in Statement
      BY <1>0, ElementType DEF Stmts
    <3>2. closed \in Statement /\ prepared' = [prepared EXCEPT ![statement[p]] = closed]
      BY <2>1, <3>1 DEF Exec, Statement
    <3>3. /\ closed.db = prepared[statement[p]].db /\ closed.text = prepared[statement[p]].text
          /\ closed.tx = prepared[statement[p]].tx
      BY <3>1 DEF Statement
    <3> HIDE DEF closed
    <3>4. prepared' \in Seq(Statement) /\ Len(prepared') = Len(prepared)
      BY <1>0, <3>2 DEF Stmts
    <3>5. \A i \in Stmts : prepared'[i] = IF i = statement[p] THEN closed ELSE prepared[i]
      BY <1>0, <3>2 DEF Stmts
    <3> QED
      BY <1>0, <2>1, <3>3, <3>4, <3>5
  <2>2. CASE ~req[p].tx
    BY <1>0, <2>2 DEF Exec
  <2> QED
    BY <2>1, <2>2
<1>3. Stmts' = Stmts
  BY <1>2 DEF Stmts
<1>4. TypeOK'
  <2>1. caches' \in Seq([Text -> 0..Len(prepared)'])
    BY <1>1, <1>2 DEF TypeOK
  <2>2. s' \in [Proc -> 0..Len(caches)'] /\ statement' \in [Proc -> 0..Len(prepared)']
    BY <1>0, <1>1, <1>2 DEF TypeOK
  <2> QED
    BY <1>1, <1>2, <2>1, <2>2 DEF TypeOK
<1>5. \A c \in 1..Len(caches), x \in Text : caches[c][x] # 0 => caches[c][x] \in Stmts
  <2> TAKE c \in 1..Len(caches), x \in Text
  <2>1. caches[c] \in [Text -> 0..Len(prepared)]
    BY ElementType DEF TypeOK
  <2> QED
    BY <2>1, <1>0 DEF Stmts
<1>6. EntriesUsable'
  BY <1>0, <1>1, <1>2, <1>5 DEF EntriesUsable
<1>7. \A q \in Proc : pc[q] \in {"store", "exec"} => statement[q] \in Stmts
  BY <1>0 DEF TypeOK, UsableStatement, Stmts
<1>8. \A q \in Proc : q # p /\ pc[q] \in {"store", "exec"} => prepared'[statement[q]] = prepared[statement[q]]
  <2> SUFFICES ASSUME NEW q \in Proc, q # p, pc[q] \in {"store", "exec"}, req[p].tx
               PROVE  statement[q] # statement[p]
    BY <1>2, <1>7
  <2>1. CASE pc[q] = "exec"
    BY <1>0, <2>1 DEF TxPrivate
  <2>2. CASE pc[q] = "store"
    <3>1. ~req[q].tx
      BY <2>2 DEF OnlyCached
    <3>2. prepared[statement[q]].tx = req[q].tx
      BY <2>2 DEF UsableStatement
    <3> QED
      BY <1>0, <3>1, <3>2
  <2> QED
    BY <2>1, <2>2
<1>9. UsableStatement' /\ TxPrivate' /\ Allocated' /\ OnlyCached' /\ RequestsNamed'
  <2>1. pc'[p] = "idle" /\ req'[p] = None
    BY <1>1 DEF TypeOK
  <2>2. \A q \in Proc \ {p} : pc'[q] = pc[q] /\ req'[q] = req[q] /\ statement'[q] = statement[q]
    BY <1>1 DEF TypeOK
  <2>3. UsableStatement'
    BY <1>8, <2>1, <2>2 DEF UsableStatement
  <2>4. TxPrivate' /\ OnlyCached'
    BY <2>1, <2>2 DEF TxPrivate, OnlyCached
  <2>5. Allocated' /\ RequestsNamed'
    BY <1>1, <2>1, <2>2 DEF ResolveDBName, Allocated, RequestsNamed
  <2> QED
    BY <2>3, <2>4, <2>5
<1>10. StatementsNamed'
  BY <1>1, <1>2, <1>3 DEF ResolveDBName, StatementsNamed
<1> QED
  BY <1>4, <1>6, <1>9, <1>10

\* The unlocked allocation of the global, and the store under the mutex.
LEMMA StepInv == ASSUME CacheInv, NEW p \in Proc, GetStmtCreate(p) \/ Store(p) PROVE CacheInv'
<1> USE DEF CacheInv
<1>0. /\ caches \in Seq([Text -> 0..Len(prepared)]) /\ prepared \in Seq(Statement)
      /\ Len(prepared) \in Nat /\ Len(caches) \in Nat
  BY DEF TypeOK
<1>1. CASE GetStmtCreate(p)
  <2> DEFINE empty == [x \in Text |-> 0]
  <2>1. empty \in [Text -> 0..Len(prepared)]
    BY <1>0
  <2>2. caches' = Append(caches, empty) /\ UNCHANGED <<PGCache, realName, prepared, req, s, statement>>
    BY <1>1 DEF GetStmtCreate
  <2>3. /\ stmts' = Len(caches) + 1 /\ pc' = [pc EXCEPT ![p] = "return"] /\ pc[p] = "create"
    BY <1>1 DEF GetStmtCreate, Goto
  <2>4. \A x \in Text : empty[x] = 0
    OBVIOUS
  <2> HIDE DEF empty
  <2>5. /\ caches' \in Seq([Text -> 0..Len(prepared)]) /\ Len(caches') = Len(caches) + 1
        /\ \A c \in 1..Len(caches') : caches'[c] = IF c = Len(caches) + 1 THEN empty ELSE caches[c]
    BY <1>0, <2>1, <2>2
  <2>6. TypeOK'
    BY <1>0, <2>2, <2>3, <2>5 DEF TypeOK
  <2>7. EntriesUsable'
    BY <1>0, <2>2, <2>4, <2>5 DEF EntriesUsable
  <2> QED
    BY <2>2, <2>3, <2>6, <2>7 DEF ResolveDBName, UsableStatement, Allocated, OnlyCached, TxPrivate,
       RequestsNamed, StatementsNamed, Stmts, TypeOK
<1>2. CASE Store(p)
  <2> DEFINE m == [caches[s[p]] EXCEPT ![req[p].text] = statement[p]]
  <2>1. /\ caches' = [caches EXCEPT ![s[p]] = m] /\ pc' = [pc EXCEPT ![p] = "exec"]
        /\ pc[p] = "store" /\ UNCHANGED <<PGCache, realName, stmts, prepared, req, s, statement>>
    BY <1>2 DEF Store, Goto
  <2>2. s[p] \in 1..Len(caches) /\ req[p] \in Request /\ statement[p] \in 0..Len(prepared)
    BY <1>0, <2>1, RequestType DEF TypeOK
  <2>3. caches[s[p]] \in [Text -> 0..Len(prepared)]
    BY <1>0, <2>2, ElementType
  <2>4. /\ m \in [Text -> 0..Len(prepared)]
        /\ \A x \in Text : m[x] = IF x = req[p].text THEN statement[p] ELSE caches[s[p]][x]
    BY <2>2, <2>3 DEF Request
  <2> HIDE DEF m
  <2>5. /\ caches' \in Seq([Text -> 0..Len(prepared)]) /\ Len(caches') = Len(caches)
        /\ \A c \in 1..Len(caches) : caches'[c] = IF c = s[p] THEN m ELSE caches[c]
    BY <1>0, <2>1, <2>2, <2>4
  <2>6. TypeOK'
    BY <1>0, <2>1, <2>5 DEF TypeOK
  <2>7. /\ prepared[statement[p]].open /\ prepared[statement[p]].text = req[p].text
        /\ ~prepared[statement[p]].tx /\ ~req[p].tx
    BY <2>1 DEF UsableStatement, OnlyCached
  <2>8. EntriesUsable'
    BY <2>1, <2>4, <2>5, <2>7 DEF EntriesUsable
  <2>9. UsableStatement' /\ Allocated' /\ OnlyCached' /\ RequestsNamed' /\ StatementsNamed'
    BY <2>1 DEF ResolveDBName, UsableStatement, Allocated, OnlyCached, RequestsNamed,
       StatementsNamed, Stmts, TypeOK
  <2>10. TxPrivate'
    <3>1. \A q \in Proc : q # p /\ pc[q] = "exec" /\ req[q].tx => statement[q] # statement[p]
      BY <2>7 DEF UsableStatement
    <3> QED
      BY <2>1, <2>7, <3>1 DEF TxPrivate, TypeOK
  <2> QED
    BY <2>6, <2>8, <2>9, <2>10
<1> QED
  BY <1>1, <1>2

\* ResolveDBName never gives an empty name.
LEMMA Qualified == ASSUME TypeOK, NEW d \in DB PROVE ResolveDBName(d) \in Name
  BY NamesAssumption DEF TypeOK, ResolveDBName

\* Every adapter method is called on a pool with a text qualified for
\* that pool's name or not at all.
LEMMA ArriveCalls ==
    ASSUME TypeOK, NEW p \in Proc, Arrive(p)
    PROVE  \E d \in DB, tx \in BOOLEAN, x \in Text :
               x \in {ResolveDBName(d), Unnamed} /\ Call(p, d, x, tx)
<1>1. \A d \in DB : ResolveDBName(d) \in Text /\ Unnamed \in Text
  BY Qualified DEF Text
<1>2. PICK d \in DB : \E tx \in BOOLEAN, x \in {ResolveDBName(d), Unnamed} : Call(p, d, x, tx)
  BY DEF Arrive, QueryCtx, QueryCountCtx, InsertCtx, BatchInsertValuesCtx, DeleteCtx, UpdateCtx,
     WriteSQLCtx, WithTransaction, TableCall
<1> QED
  BY <1>1, <1>2

\* The steps that touch neither the statements nor the maps.
LEMMA QuietInv ==
    ASSUME CacheInv, NEW p \in Proc,
           Arrive(p) \/ GetStmtNil(p) \/ GetStmtReturn(p) \/ Lookup(p) \/ PrepareFails(p)
    PROVE  CacheInv'
<1> USE DEF CacheInv
<1>0. UNCHANGED <<PGCache, realName, stmts, caches, prepared>>
  BY ArriveCalls DEF Call, GetStmtNil, GetStmtReturn, Lookup, PrepareFails, Return
<1>1. EntriesUsable' /\ StatementsNamed'
  BY <1>0 DEF ResolveDBName, EntriesUsable, StatementsNamed, Stmts
<1>2. CASE Arrive(p)
  <2>1. PICK r \in Request : /\ req' = [req EXCEPT ![p] = r]
                             /\ r.text # Unnamed => ResolveDBName(r.db) = r.text
    <3>1. PICK d \in DB, tx \in BOOLEAN, x \in Text :
              /\ x \in {ResolveDBName(d), Unnamed}
              /\ req' = [req EXCEPT ![p] = [db |-> d, text |-> x, tx |-> tx]]
      BY <1>2, ArriveCalls DEF Call
    <3> DEFINE r == [db |-> d, text |-> x, tx |-> tx]
    <3>2. ResolveDBName(d) \in Name
      BY Qualified
    <3>3. r \in Request /\ (r.text # Unnamed => ResolveDBName(r.db) = r.text)
      BY <3>1, <3>2 DEF Request, Text
    <3> QED
      BY <3>1, <3>3
  <2>2. pc' = [pc EXCEPT ![p] = "get"] /\ UNCHANGED <<s, statement>>
    BY <1>2, ArriveCalls DEF Call, Goto
  <2>3. r # None
    BY ConstantsAssumption
  <2> QED
    BY <1>0, <1>1, <2>1, <2>2, <2>3 DEF ResolveDBName, TypeOK, UsableStatement, Allocated,
       OnlyCached, TxPrivate, RequestsNamed
<1>3. CASE GetStmtNil(p)
  BY <1>0, <1>1, <1>3 DEF ResolveDBName, GetStmtNil, Goto, TypeOK, UsableStatement, Allocated,
     OnlyCached, TxPrivate, RequestsNamed
<1>4. CASE GetStmtReturn(p)
  <2>1. stmts # 0
    BY <1>4 DEF GetStmtReturn, Allocated
  <2> QED
    BY <1>0, <1>1, <1>4, <2>1 DEF ResolveDBName, GetStmtReturn, Goto, Cached, TypeOK,
       UsableStatement, Allocated, OnlyCached, TxPrivate, RequestsNamed
<1>5. CASE Lookup(p)
  <2> DEFINE hit == caches[s[p]][req[p].text]
  <2>1. /\ pc[p] = "lookup" /\ statement' = [statement EXCEPT ![p] = hit]
        /\ pc' = [pc EXCEPT ![p] = IF hit # 0 THEN "exec" ELSE "prepare"]
        /\ UNCHANGED <<req, s>>
    BY <1>5 DEF Lookup, Goto
  <2>2. req[p] \in Request /\ s[p] \in 1..Len(caches) /\ ~req[p].tx
    BY <2>1, RequestType DEF TypeOK, OnlyCached
  <2>3. hit \in 0..Len(prepared)
    BY <2>2, ElementType DEF TypeOK, Request
  <2>4. hit # 0 => /\ prepared[hit].open /\ prepared[hit].text = req[p].text /\ ~prepared[hit].tx
    BY <2>2 DEF EntriesUsable, Request
  <2>5. hit # 0 => prepared[hit].tx = req[p].tx
    <3> SUFFICES ASSUME hit # 0 PROVE prepared[hit].tx = req[p].tx
      OBVIOUS
    <3>1. prepared[hit] \in Statement
      <4>1. prepared \in Seq(Statement) /\ hit \in 1..Len(prepared)
        BY <2>3 DEF TypeOK
      <4> HIDE DEF hit
      <4> QED
        BY <4>1, ElementType
    <3>2. prepared[hit].tx \in BOOLEAN /\ req[p].tx \in BOOLEAN
      BY <2>2, <3>1 DEF Request, Statement
    <3> QED
      BY <2>2, <2>4, <3>2
  <2> HIDE DEF hit
  <2>6. TypeOK' /\ Allocated' /\ OnlyCached' /\ RequestsNamed'
    BY <1>0, <2>1, <2>2, <2>3 DEF ResolveDBName, TypeOK, Allocated, OnlyCached, RequestsNamed
  <2>7. UsableStatement'
    BY <1>0, <2>1, <2>2, <2>3, <2>4, <2>5 DEF TypeOK, UsableStatement
  <2>8. TxPrivate'
    BY <1>0, <2>1, <2>2, <2>4 DEF TypeOK, UsableStatement, TxPrivate
  <2> QED
    BY <1>1, <2>6, <2>7, <2>8
<1>6. CASE PrepareFails(p)
  BY <1>0, <1>1, <1>6 DEF ResolveDBName, PrepareFails, Return, Goto, TypeOK, UsableStatement,
     Allocated, OnlyCached, TxPrivate, RequestsNamed
<1> QED
  BY <1>2, <1>3, <1>4, <1>5, <1>6

\* Every step of the system preserves the invariant.
LEMMA NextInv == CacheInv /\ [Next]_vars => CacheInv'
<1> SUFFICES ASSUME CacheInv, [Next]_vars PROVE CacheInv'
  OBVIOUS
<1>1. CASE UNCHANGED vars
  <2>1. TypeOK'
    BY <1>1 DEF vars, CacheInv, TypeOK
  <2> QED
    BY <1>1, <2>1 DEF ResolveDBName, vars, CacheInv, EntriesUsable, UsableStatement, Allocated,
       OnlyCached, TxPrivate, RequestsNamed, StatementsNamed, Stmts
<1> QED
  BY <1>1, PrepareOKInv, ExecInv, StepInv, QuietInv DEF Next

\* The invariant holds throughout: what the cache hands out is usable.
THEOREM Invariance == Spec => []CacheInv
  BY InitInv, NextInv, PTL DEF Spec

\* A request that reached Stmt.Prepare has a cache to look in, and caches hold
\* only prepared statements, although GetStmt allocates the global with no lock.
THEOREM TypeCorrect == Spec => []TypeOK
  BY Invariance, PTL DEF CacheInv

\* Whatever the number of requests and the order in which they look up, prepare,
\* store and end, Stmt.Prepare hands out only open statements with the text that
\* was asked for, and those of a transaction only inside it.
THEOREM StatementsUsable == Spec => []UsableStatement
  BY Invariance, PTL DEF CacheInv

\* A query on a table runs on the pool of the database it was sent to when no
\* other database is qualified with the same name, although the cache is shared
\* by all databases and ResolveDBName may name a database the pool is not bound to.
THEOREM NamesIsolate == Spec => []NamedIsolation
<1>1. CacheInv => NamedIsolation
  <2> SUFFICES ASSUME CacheInv, NEW p \in Proc, pc[p] = "exec", req[p].text # Unnamed,
                      Distinguished(req[p].db)
               PROVE  prepared[statement[p]].db = req[p].db
    BY DEF NamedIsolation
  <2>1. /\ statement[p] \in Stmts /\ prepared[statement[p]].text = req[p].text
        /\ prepared \in Seq(Statement) /\ req[p] # None
    BY DEF CacheInv, TypeOK, UsableStatement, Stmts
  <2>2. prepared[statement[p]] \in Statement
    BY <2>1, ElementType DEF Stmts
  <2>3. /\ ResolveDBName(prepared[statement[p]].db) = req[p].text
        /\ ResolveDBName(req[p].db) = req[p].text
    BY <2>1 DEF CacheInv, StatementsNamed, RequestsNamed
  <2> QED
    BY <2>2, <2>3 DEF Distinguished, Statement
<1> QED
  BY <1>1, Invariance, PTL
=============================================================================
