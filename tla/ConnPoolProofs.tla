--------------------------- MODULE ConnPoolProofs ---------------------------
(***************************************************************************)
(* Theorems about ConnPool for any number of goroutines, names, URLs and   *)
(* dials, in every configuration, the one with the racing GetPool included.*)
(***************************************************************************)
EXTENDS ConnPool, TLAPS

\* A pool only holds open handles.
PooledOpen ==
    /\ \A q \in PoolId, d \in DSN : byDSN[q][d] # NoHandle => byDSN[q][d] \in live
    /\ \A q \in PoolId, n \in Name : byName[q][n] # NoHandle => byName[q][n] \in live

\* The handle a goroutine has just dialled is open and nobody else's: it is in
\* no pool and no other goroutine works with it, so its owner may close it.
DialledPrivate ==
    \A s \in Proc : pc[s] = "store" =>
        /\ hnd[s] \in live
        /\ \A q \in PoolId, d \in DSN : byDSN[q][d] # hnd[s]
        /\ \A q \in PoolId, n \in Name : byName[q][n] # hnd[s]
        /\ \A t \in Proc : t # s /\ pc[t] \in {"store", "use"} => hnd[t] # hnd[s]

\* A goroutine inside a critical section, or between the two of
\* AddDatabaseToPool, has a pool.
HasPool ==
    \A s \in Proc : gp[s] = "got" \/ pc[s] \in {"open", "store"} => p[s] # NoPool

\* The SQL builder only runs for requests that carry a database name.
NamedRequest == \A s \in Proc : pc[s] = "resolve" => arg[s] \in Name

\* The inductive invariant.
PoolInv ==
    /\ Typed
    /\ PooledOpen
    /\ DialledPrivate
    /\ HasPool
    /\ NamedRequest
    /\ HandleInUseIsOpen

USE NamesAssumption, NilAssumption

\* Before main runs there is no pool, no handle and no request.
LEMMA InitInv == Init => PoolInv
  BY DEF Init, PoolInv, Typed, PooledOpen, DialledPrivate, HasPool, NamedRequest,
         HandleInUseIsOpen, Label, Kind, Handle, URLs, URLIndex, NameOrEmpty, PoolId


\* GetURI gives a connection string for every name, the empty one included.
LEMMA URIType == ASSUME NEW n \in NameOrEmpty PROVE GetURI(n) \in DSN
  BY DEF GetURI, NameOrEmpty

\* What getDatabaseFromPool finds is an open handle or nil.
LEMMA FindOpen ==
    ASSUME PoolInv, NEW q \in PoolId, NEW n \in NameOrEmpty
    PROVE  /\ Find(q, n) \in Handle \cup {NoHandle}
           /\ Find(q, n) # NoHandle => Find(q, n) \in live
<1>1. GetURI(n) \in DSN
  BY URIType
<1> QED
  BY <1>1 DEF PoolInv, Typed, PooledOpen, Find, NameOrEmpty

\* What sql.Open returns is a handle nobody has.
LEMMA OpenFresh ==
    ASSUME Typed, NEW d \in DSN, Open(d)
    PROVE  /\ conns' \in Seq(DSN)
           /\ Len(conns) + 1 \in Handle' /\ Len(conns) + 1 \notin Handle
           /\ live' = live \cup {Len(conns) + 1} /\ live' \subseteq Handle'
           /\ Handle \subseteq Handle'
<1>1. conns \in Seq(DSN) /\ live \subseteq 1 .. Len(conns) /\ Len(conns) \in Nat
  BY DEF Typed, Handle
<1>2. conns' \in Seq(DSN) /\ Len(conns') = Len(conns) + 1
  BY <1>1 DEF Open
<1>3. Handle = 1 .. Len(conns) /\ Handle' = 1 .. Len(conns) + 1
  BY <1>2 DEF Handle
<1>4. live' = live \cup {Len(conns) + 1}
  BY DEF Open
<1>5. Handle \subseteq Handle' /\ Len(conns) + 1 \in Handle' /\ Len(conns) + 1 \notin Handle
  BY <1>1, <1>3
<1>6. live' \subseteq Handle'
  BY <1>1, <1>3, <1>4, <1>5
<1> QED
  BY <1>2, <1>4, <1>5, <1>6

\* An element of a sequence has the type of its elements.
LEMMA ElementType ==
    ASSUME NEW S, NEW q \in Seq(S), NEW i \in 1 .. Len(q) PROVE q[i] \in S
  OBVIOUS

\* A request arrives: nothing shared changes.
LEMMA BeginInv ==
    ASSUME PoolInv, NEW s \in Proc, NEW k \in {"ctx", "script", "catalog"}, NEW n \in NameOrEmpty,
           NEW l \in {"resolve", "setdb", "lookup"}, Begin(s, k, n, l),
           l = "resolve" => n \in Name
    PROVE  PoolInv'
  BY DEF Begin, Goto, start, pools, handles, PoolInv, Typed, PooledOpen, DialledPrivate,
         HasPool, NamedRequest, HandleInUseIsOpen, Label, Kind, Handle, URLs, URLIndex

\* registerExtraURLs: the new handle is open and fresh, all others stay.
LEMMA RegisterURLInv == PoolInv /\ RegisterURL => PoolInv'
<1> SUFFICES ASSUME PoolInv, RegisterURL PROVE PoolInv'
  OBVIOUS
<1> DEFINE u == URLs[nextURL]
           h == Len(conns) + 1
<1> USE DEF PoolInv
<1>0. /\ conf \in Settings /\ URLs \in Seq([name : Name, dsn : DSN])
      /\ nextURL \in 1 .. Len(URLs)
  BY SettingsAssumption DEF RegisterURL, Typed, URLs, URLIndex
<1>1. /\ u.name \in Name /\ u.dsn \in DSN /\ RealDB[u.dsn] \in NameOrEmpty
      /\ nextURL + 1 \in 1 .. Len(URLs) + 1 /\ Main \in PoolId
  <2>1. u \in [name : Name, dsn : DSN]
    BY <1>0, ElementType
  <2>2. nextURL + 1 \in 1 .. Len(URLs) + 1 /\ Main \in PoolId
    BY <1>0 DEF PoolId
  <2> QED
    BY <2>1, <2>2
<1>2. registered' \subseteq URLIndex /\ realName' \in [PoolId -> [Name -> NameOrEmpty]]
  <2>1. registered' \in {registered, registered \cup {nextURL}}
    BY DEF RegisterURL, AddURIDone, AddURIFails
  <2>2. realName' \in {realName, [realName EXCEPT ![Main][u.name] = RealDB[u.dsn]]}
    BY DEF RegisterURL, AddURIDone, AddURIFails, SetRealName
  <2>3. registered' \subseteq URLIndex
    BY <1>0, <2>1 DEF Typed, URLIndex
  <2>4. realName' \in [PoolId -> [Name -> NameOrEmpty]]
    <3>1. realName \in [PoolId -> [Name -> NameOrEmpty]]
      BY DEF Typed
    <3>2. CASE realName' = realName
      BY <3>1, <3>2
    <3>3. CASE realName' = [realName EXCEPT ![Main][u.name] = RealDB[u.dsn]]
      <4> HIDE DEF u
      <4> QED
        BY <1>1, <3>1, <3>3
    <3> QED
      BY <2>2, <3>2, <3>3
  <2> QED
    BY <2>3, <2>4
<1>3. CASE UNCHANGED <<byDSN, byName, conns, live>>
  BY <1>1, <1>2, <1>3 DEF RegisterURL, request, Typed, PooledOpen, DialledPrivate, HasPool, NamedRequest,
     HandleInUseIsOpen, Handle, URLs, URLIndex
<1>4. CASE AddURINew(u)
  <2>1. /\ conns' \in Seq(DSN) /\ h \in Handle' /\ h \notin Handle
        /\ live' = live \cup {h} /\ live' \subseteq Handle' /\ Handle \subseteq Handle'
    BY <1>1, <1>4, OpenFresh DEF AddURINew
  <2>2. /\ byDSN' \in [PoolId -> [DSN -> Handle' \cup {NoHandle}]]
        /\ \A q \in PoolId, d \in DSN : byDSN'[q][d] \in {byDSN[q][d], h}
    BY <1>1, <1>4, <2>1 DEF AddURINew, Typed
  <2>3. /\ byName' \in [PoolId -> [Name -> Handle' \cup {NoHandle}]]
        /\ \A q \in PoolId, n \in Name : byName'[q][n] \in {byName[q][n], h}
    BY <1>1, <1>4, <2>1 DEF AddURINew, Typed
  <2>4. Typed'
    BY <1>0, <1>1, <1>2, <2>1, <2>2, <2>3 DEF RegisterURL, request, Typed, URLs, URLIndex
  <2>5. PooledOpen'
    BY <2>1, <2>2, <2>3 DEF PooledOpen
  <2>6. DialledPrivate'
    BY <2>1, <2>2, <2>3 DEF RegisterURL, request, DialledPrivate, Typed
  <2>7. HasPool' /\ NamedRequest' /\ HandleInUseIsOpen'
    BY <2>1 DEF RegisterURL, request, HasPool, NamedRequest, HandleInUseIsOpen
  <2> QED
    BY <2>4, <2>5, <2>6, <2>7
<1> QED
  BY <1>3, <1>4 DEF RegisterURL, AddURIDone, AddURIExisting, AddURIFails

\* Storing an open, fresh handle h under one DSN of one pool, which start-up
\* does in Load.
LEMMA LoadSingleInv == PoolInv /\ LoadSingle => PoolInv'
<1> SUFFICES ASSUME PoolInv, LoadSingle PROVE PoolInv'
  OBVIOUS
<1> DEFINE h == Len(conns) + 1
<1> USE DEF PoolInv
<1>1. GetURI(PGDatabase) \in DSN /\ Main \in PoolId
  BY URIType DEF PoolId
<1>2. CASE UNCHANGED <<byDSN, conns, live>>
  BY <1>1, <1>2 DEF LoadSingle, request, Typed, PooledOpen, DialledPrivate, HasPool, NamedRequest,
     HandleInUseIsOpen, Handle, URLs, URLIndex
<1>3. CASE /\ Open(GetURI(PGDatabase))
           /\ byDSN' = [byDSN EXCEPT ![Main][GetURI(PGDatabase)] = h]
  <2>1. /\ conns' \in Seq(DSN) /\ h \in Handle' /\ h \notin Handle
        /\ live' = live \cup {h} /\ live' \subseteq Handle' /\ Handle \subseteq Handle'
    BY <1>1, <1>3, OpenFresh
  <2>2. /\ byDSN' \in [PoolId -> [DSN -> Handle' \cup {NoHandle}]]
        /\ \A q \in PoolId, d \in DSN : byDSN'[q][d] \in {byDSN[q][d], h}
    BY <1>1, <1>3, <2>1 DEF Typed
  <2>3. byName' \in [PoolId -> [Name -> Handle' \cup {NoHandle}]]
    BY <2>1 DEF LoadSingle, Typed
  <2>4. Typed'
    BY <1>1, <2>1, <2>2, <2>3 DEF LoadSingle, request, Typed, URLs, URLIndex
  <2>5. PooledOpen' /\ HasPool' /\ NamedRequest' /\ HandleInUseIsOpen'
    BY <2>1, <2>2 DEF LoadSingle, request, PooledOpen, HasPool, NamedRequest, HandleInUseIsOpen
  <2>6. DialledPrivate'
    BY <2>1, <2>2 DEF LoadSingle, request, DialledPrivate, Typed
  <2> QED
    BY <2>4, <2>5, <2>6
<1> QED
  BY <1>2, <1>3 DEF LoadSingle

\* A dial: the new handle is the goroutine's own.
LEMMA OpenOKInv == ASSUME PoolInv, NEW s \in Proc, OpenOK(s) PROVE PoolInv'
<1> DEFINE h == Len(conns) + 1
<1> USE DEF PoolInv
<1>1. GetURI(arg[s]) \in DSN
  BY URIType DEF Typed
<1>2. /\ conns' \in Seq(DSN) /\ h \in Handle' /\ h \notin Handle
      /\ live' = live \cup {h} /\ live' \subseteq Handle' /\ Handle \subseteq Handle'
  BY <1>1, OpenFresh DEF OpenOK
<1>3. /\ byDSN' \in [PoolId -> [DSN -> Handle' \cup {NoHandle}]]
      /\ byName' \in [PoolId -> [Name -> Handle' \cup {NoHandle}]]
      /\ hnd' \in [Proc -> Handle' \cup {NoHandle}]
  BY <1>2 DEF OpenOK, pools, Typed
<1>4. Typed'
  BY <1>2, <1>3 DEF OpenOK, Goto, start, pools, Typed, URLs, URLIndex, Label
<1>5. PooledOpen' /\ HasPool' /\ NamedRequest' /\ HandleInUseIsOpen'
  BY <1>2 DEF OpenOK, Goto, pools, Typed, PooledOpen, HasPool, NamedRequest, HandleInUseIsOpen
<1>6. DialledPrivate'
  BY <1>2 DEF OpenOK, Goto, pools, Typed, DialledPrivate, HandleInUseIsOpen
<1> QED
  BY <1>4, <1>5, <1>6

\* The second critical section of AddDatabaseToPool: the loser may close its
\* handle because it is private; the winner publishes an open one.
LEMMA StoreInv == ASSUME PoolInv, NEW s \in Proc, Store(s) PROVE PoolInv'
<1> DEFINE d == GetURI(arg[s])
<1> USE DEF PoolInv
<1>1. d \in DSN /\ p[s] \in PoolId /\ pc[s] = "store" /\ hnd[s] \in live
  BY URIType DEF Store, StoreEnds, Typed, HasPool, NamedRequest, DialledPrivate
<1>2. CASE byDSN[p[s]][d] # NoHandle
  <2>1. /\ live' = live \ {hnd[s]}
        /\ hnd' = [hnd EXCEPT ![s] = byDSN[p[s]][d]]
        /\ UNCHANGED <<byDSN, byName, conns>>
        /\ byDSN[p[s]][d] \in live' /\ byDSN[p[s]][d] \in Handle
    BY <1>1, <1>2 DEF Store, StoreEnds, Typed, PooledOpen, DialledPrivate
  <2>2. Typed'
    BY <1>1, <2>1 DEF Store, StoreEnds, Goto, CallGetPool, start, Typed, Handle, URLs,
       URLIndex, Label
  <2>3. PooledOpen'
    BY <1>1, <2>1 DEF PooledOpen, DialledPrivate
  <2>4. HasPool' /\ NamedRequest' /\ HandleInUseIsOpen'
    BY <1>1, <2>1 DEF Store, StoreEnds, Goto, CallGetPool, Typed, HasPool, NamedRequest, DialledPrivate,
       HandleInUseIsOpen
  <2>5. DialledPrivate'
    BY <1>1, <2>1 DEF Store, StoreEnds, Goto, Typed, DialledPrivate
  <2> QED
    BY <2>2, <2>3, <2>4, <2>5
<1>3. CASE byDSN[p[s]][d] = NoHandle
  <2>1. /\ byDSN' = [byDSN EXCEPT ![p[s]][d] = hnd[s]]
        /\ UNCHANGED <<byName, conns, live, hnd>>
    BY <1>3 DEF Store, StoreEnds
  <2>2. /\ byDSN' \in [PoolId -> [DSN -> Handle \cup {NoHandle}]]
        /\ \A q \in PoolId, e \in DSN : byDSN'[q][e] \in {byDSN[q][e], hnd[s]}
    BY <1>1, <2>1 DEF Typed
  <2>3. Typed'
    BY <1>1, <2>1, <2>2 DEF Store, StoreEnds, Goto, CallGetPool, start, Typed, Handle, URLs,
       URLIndex, Label
  <2>4. PooledOpen' /\ HasPool' /\ NamedRequest' /\ HandleInUseIsOpen'
    BY <1>1, <2>1, <2>2 DEF Store, StoreEnds, Goto, CallGetPool, Typed, PooledOpen, HasPool, NamedRequest,
       HandleInUseIsOpen
  <2>5. DialledPrivate'
    BY <1>1, <2>1, <2>2 DEF Store, StoreEnds, Goto, Typed, DialledPrivate
  <2> QED
    BY <2>3, <2>4, <2>5
<1> QED
  BY <1>2, <1>3

\* The steps of a request.
LEMMA StepInv == ASSUME PoolInv, NEW s \in Proc, Step(s) PROVE PoolInv'
<1> USE DEF PoolInv
<1>1. CASE SetDatabase(s) \/ Reread(s) \/ LookupMiss(s)
  <2> USE DEF Goto, CallGetPool, start, pools, handles, Typed, PooledOpen, DialledPrivate,
              HasPool, NamedRequest, HandleInUseIsOpen, Label, Handle, URLs, URLIndex,
              NameOrEmpty
  <2>1. CASE SetDatabase(s)
    BY <2>1 DEF SetDatabase
  <2>2. CASE Reread(s)
    BY <2>2 DEF Reread
  <2>3. CASE LookupMiss(s)
    BY <2>3 DEF LookupMiss
  <2> QED
    BY <1>1, <2>1, <2>2, <2>3
<1>2. CASE ScriptFails(s) \/ BuildFails(s) \/ OpenFails(s) \/ Use(s)
  <2>1. /\ Finish(s)
        /\ UNCHANGED <<start, pools, handles>>
        /\ curr' \in {curr, PGDatabase}
    BY <1>2 DEF ScriptFails, BuildFails, OpenFails, Use
  <2> QED
    BY <2>1 DEF Finish, Goto, CallGetPool, start, pools, handles, Typed, PooledOpen,
       DialledPrivate, HasPool, NamedRequest, HandleInUseIsOpen, Label, Kind, Handle, URLs,
       URLIndex, NameOrEmpty
<1>3. CASE PoolTest(s)
  <2>1. gp' \in [Proc -> {"test", "create", "got"}] /\ p' \in [Proc -> PoolId \cup {NoPool}]
    <3>1. /\ gp \in [Proc -> {"test", "create", "got"}] /\ p \in [Proc -> PoolId \cup {NoPool}]
          /\ pool \in PoolId \cup {NoPool}
      BY DEF Typed
    <3>2. CASE pool # NoPool
      BY <1>3, <3>1, <3>2 DEF PoolTest
    <3>3. CASE pool = NoPool
      BY <1>3, <3>1, <3>3 DEF PoolTest
    <3> QED
      BY <3>2, <3>3
  <2>2. Typed'
    BY <1>3, <2>1 DEF PoolTest, start, pools, handles, Typed, Handle, URLs, URLIndex
  <2>3. HasPool'
    BY <1>3 DEF PoolTest, CallsGetPool, Typed, HasPool
  <2>4. UNCHANGED <<byDSN, byName, live, pc, arg, hnd>>
    BY <1>3 DEF PoolTest, pools, handles
  <2> QED
    BY <2>2, <2>3, <2>4 DEF PooledOpen, DialledPrivate, NamedRequest, HandleInUseIsOpen
<1>4. CASE PoolCreate(s)
  <2>1. /\ \A q \in PoolId, d \in DSN : byDSN'[q][d] \in {byDSN[q][d], NoHandle}
        /\ \A q \in PoolId, n \in Name : byName'[q][n] \in {byName[q][n], NoHandle}
    BY <1>4 DEF PoolCreate, EmptyPool, Typed
  <2>2. Typed'
    BY <1>4 DEF PoolCreate, EmptyPool, start, handles, Typed, Handle, URLs, URLIndex, PoolId,
       NameOrEmpty
  <2>3. \A t \in Proc : pc[t] = "store" => hnd[t] # NoHandle
    <3>1. live \subseteq Nat
      BY DEF Typed, Handle
    <3> QED
      BY <3>1 DEF DialledPrivate
  <2>4. PooledOpen' /\ DialledPrivate'
    BY <1>4, <2>1, <2>3 DEF PoolCreate, handles, PooledOpen, DialledPrivate
  <2>5. HasPool' /\ NamedRequest' /\ HandleInUseIsOpen'
    BY <1>4 DEF PoolCreate, handles, Typed, HasPool, NamedRequest, HandleInUseIsOpen
  <2> QED
    BY <2>2, <2>4, <2>5
<1>5. CASE Resolve(s)
  <2>1. p[s] \in PoolId
    BY <1>5 DEF Resolve, HasPool, NamedRequest, Typed
  <2>2. ResolveDBName(p[s], arg[s]) \in NameOrEmpty
    BY <1>5, <2>1 DEF Resolve, NamedRequest, ResolveDBName, Typed, NameOrEmpty
  <2> QED
    BY <1>5, <2>1, <2>2 DEF Resolve, Goto, CallGetPool, start, pools, handles, Typed,
       PooledOpen, DialledPrivate, HasPool, NamedRequest, HandleInUseIsOpen, Label, Handle, URLs, URLIndex
<1>6. CASE LookupHit(s)
  <2>1. p[s] \in PoolId
    BY <1>6 DEF LookupHit, HasPool, NamedRequest, Typed
  <2>2. Find(p[s], arg[s]) \in Handle /\ Find(p[s], arg[s]) \in live
    BY <1>6, <2>1, FindOpen DEF LookupHit, Typed
  <2>3. Typed'
    BY <1>6, <2>2 DEF LookupHit, Goto, CallGetPool, start, pools, handles, Typed, Label,
       Handle, URLs, URLIndex
  <2>4. HasPool' /\ NamedRequest' /\ PooledOpen' /\ HandleInUseIsOpen'
    BY <1>6, <2>2 DEF LookupHit, Goto, CallGetPool, pools, handles, Typed, HasPool, NamedRequest,
       PooledOpen, HandleInUseIsOpen
  <2>5. DialledPrivate'
    BY <1>6, <2>1, <2>2, URIType DEF LookupHit, Goto, pools, handles, Typed, DialledPrivate,
       Find, NameOrEmpty
  <2> QED
    BY <2>3, <2>4, <2>5
<1>7. CASE AddFast(s)
  <2> DEFINE d == GetURI(arg[s])
  <2>1. p[s] \in PoolId /\ d \in DSN
    BY <1>7, URIType DEF AddFast, HasPool, NamedRequest, Typed
  <2>2. CASE byDSN[p[s]][d] # NoHandle
    <3>1. byDSN[p[s]][d] \in Handle /\ byDSN[p[s]][d] \in live
      BY <2>1, <2>2 DEF Typed, PooledOpen
    <3>2. /\ hnd' = [hnd EXCEPT ![s] = byDSN[p[s]][d]]
          /\ Goto(s, "use") /\ CallGetPool(s)
      BY <1>7, <2>2 DEF AddFast
    <3>3. Typed'
      BY <1>7, <3>1, <3>2 DEF AddFast, Goto, CallGetPool, start, pools, handles, Typed, Label,
         Handle, URLs, URLIndex
    <3>4. HasPool' /\ NamedRequest' /\ PooledOpen' /\ HandleInUseIsOpen'
      BY <1>7, <3>1, <3>2 DEF AddFast, Goto, CallGetPool, pools, handles, Typed, HasPool, NamedRequest,
         PooledOpen, HandleInUseIsOpen
    <3>5. DialledPrivate'
      BY <1>7, <2>1, <3>1, <3>2 DEF AddFast, Goto, pools, handles, Typed, DialledPrivate
    <3> QED
      BY <3>3, <3>4, <3>5
  <2>3. CASE byDSN[p[s]][d] = NoHandle
    <3>1. Goto(s, "open") /\ UNCHANGED <<gp, p, hnd>>
      BY <1>7, <2>3 DEF AddFast
    <3> QED
      BY <1>7, <2>1, <3>1 DEF AddFast, Goto, start, pools, handles, Typed, PooledOpen,
         DialledPrivate, HasPool, NamedRequest, HandleInUseIsOpen, Label, Handle, URLs, URLIndex
  <2> QED
    BY <2>2, <2>3
<1> QED
  BY <1>1, <1>2, <1>3, <1>4, <1>5, <1>6, <1>7, OpenOKInv, StoreInv DEF Step

\* Every step of the system preserves the invariant.
LEMMA NextInv == PoolInv /\ [Next]_vars => PoolInv'
<1> SUFFICES ASSUME PoolInv, [Next]_vars PROVE PoolInv'
  OBVIOUS
<1>1. CASE RegistrationDone \/ LoadFails \/ LoadMulti
  <2>1. UNCHANGED <<pools, handles, request>>
    BY <1>1 DEF RegistrationDone, LoadFails, LoadMulti
  <2>2. Typed'
    BY <1>1, <2>1 DEF RegistrationDone, LoadFails, LoadMulti, pools, handles, request, PoolInv,
       Typed, Handle, URLs, URLIndex
  <2>3. PooledOpen' /\ DialledPrivate' /\ HasPool' /\ NamedRequest' /\ HandleInUseIsOpen'
    BY <2>1 DEF pools, handles, request, PoolInv, PooledOpen, DialledPrivate, HasPool,
       NamedRequest, HandleInUseIsOpen
  <2> QED
    BY <2>2, <2>3 DEF PoolInv
<1>2. ASSUME NEW s \in Proc, Arrive(s) PROVE PoolInv'
  <2>1. curr \in NameOrEmpty /\ Name \subseteq NameOrEmpty
    BY DEF PoolInv, Typed, NameOrEmpty
  <2> QED
    BY <1>2, <2>1, BeginInv DEF Arrive, TableRequest, PlainRequest, CurrentRequest,
       SelectFromTables, InsertInTables, DeleteFromTable, UpdateTable, BatchInsertInTables,
       GetTablesByDatabaseAndSchema, ShowTable, GetDatabases, GetSchemas, GetTables,
       CheckDBHealth, ExecuteFromScripts
<1>3. CASE UNCHANGED vars
  BY <1>3 DEF vars, PoolInv, Typed, PooledOpen, DialledPrivate, HasPool, NamedRequest, HandleInUseIsOpen,
     Handle, URLs, URLIndex
<1> QED
  BY <1>1, <1>2, <1>3, StepInv, RegisterURLInv, LoadSingleInv DEF Next, Startup

\* The invariant holds throughout, so every pooled handle is open.
THEOREM Invariance == Spec => []PoolInv
  BY InitInv, NextInv, PTL DEF Spec

\* What a pool maps a key to is a handle some sql.Open returned, and no request
\* works on a nil pool or a nil handle, whatever races in GetPool and
\* AddDatabaseToPool and whichever dials fail.
THEOREM TypeCorrect == Spec => []TypeOK
<1>1. PoolInv => TypeOK
  <2> SUFFICES ASSUME PoolInv, NEW s \in Proc, pc[s] \in {"store", "use"} PROVE hnd[s] # NoHandle
    BY DEF PoolInv, TypeOK, NoNilUse, HasPool
  <2>1. hnd[s] \in live
    BY DEF PoolInv, DialledPrivate, HandleInUseIsOpen
  <2>2. live \subseteq Nat
    BY DEF PoolInv, Typed, Handle
  <2> QED
    BY <2>1, <2>2
<1> QED
  BY <1>1, Invariance, PTL

\* No request runs a statement on a closed handle, whatever the number of
\* goroutines that race through AddDatabaseToPool and GetPool.
THEOREM HandlesOpen == Spec => []HandleInUseIsOpen
  BY Invariance, PTL DEF PoolInv

-----------------------------------------------------------------------------
(***************************************************************************)
(* Requests without a database in their path.                              *)
(***************************************************************************)

\* A DSN key tells the truth, in every pool, and so will the key of a handle
\* just dialled.
Labelled ==
    /\ \A q \in PoolId, d \in DSN : byDSN[q][d] # NoHandle => conns[byDSN[q][d]] = d
    /\ \A s \in Proc : pc[s] = "store" => conns[hnd[s]] = GetURI(arg[s])

\* No pool has the default name as a name key.
DefaultByDSN ==
    DefaultUnaliased /\ PGDatabase \in Name => \A q \in PoolId : byName[q][PGDatabase] = NoHandle

\* currDatabase, and what a request read from it, is empty or the default name.
CurrentDefault ==
    /\ curr \in {Empty, PGDatabase}
    /\ \A s \in Proc : kind[s] \in {"script", "catalog"} => arg[s] \in {Empty, PGDatabase}

PathInv == Labelled /\ DefaultByDSN /\ CurrentDefault /\ PathlessOnDefault

\* Before main runs nothing is open and no name is set.
LEMMA InitPath == Init => PathInv
  BY DEF Init, PathInv, Labelled, DefaultByDSN, CurrentDefault, PathlessOnDefault

\* The empty name and the default name have one connection string.
LEMMA DefaultURI ==
    ASSUME NEW n \in {Empty, PGDatabase} PROVE GetURI(n) = GetURI(PGDatabase)
  BY DEF GetURI

\* Handles keep their DSN when one more is opened.
LEMMA OpenKeeps ==
    ASSUME Typed, NEW d \in DSN, Open(d)
    PROVE  /\ conns'[Len(conns) + 1] = d
           /\ \A g \in Handle : conns'[g] = conns[g]
<1>1. conns \in Seq(DSN) /\ conns' = Append(conns, d)
  BY DEF Typed, Open
<1> QED
  BY <1>1 DEF Handle

\* Start-up: main stores handles under the DSN it dialled, and aliases under
\* names that are not the default one.
LEMMA StartupPath == ASSUME PoolInv, PathInv, Startup PROVE PathInv'
<1>1. CASE RegisterURL
  <2> DEFINE u == URLs[nextURL]
  <2>1. /\ nextURL \in URLIndex /\ u.name \in Name /\ u.dsn \in DSN /\ Main \in PoolId
        /\ UNCHANGED <<conf, curr, pc, arg, kind, hnd>>
    <3>1. URLs \in Seq([name : Name, dsn : DSN]) /\ nextURL \in 1 .. Len(URLs)
      BY <1>1, SettingsAssumption DEF PoolInv, Typed, RegisterURL, URLs, URLIndex
    <3>2. u \in [name : Name, dsn : DSN]
      BY <3>1, ElementType
    <3> QED
      BY <1>1, <3>1, <3>2 DEF RegisterURL, request, URLIndex, PoolId
  <2>2. CASE UNCHANGED <<byDSN, byName, conns>>
    BY <2>1, <2>2 DEF PathInv, Labelled, DefaultByDSN, CurrentDefault, PathlessOnDefault,
       DefaultUnaliased, URLs, URLIndex, GetURI
  <2>3. CASE AddURINew(u)
    <3>1. /\ conns'[Len(conns) + 1] = u.dsn
          /\ \A g \in Handle : conns'[g] = conns[g]
      BY <2>1, <2>3, OpenKeeps DEF AddURINew, PoolInv
    <3>2. \A q \in PoolId, d \in DSN :
             byDSN'[q][d] = IF q = Main /\ d = u.dsn THEN Len(conns) + 1 ELSE byDSN[q][d]
      BY <2>1, <2>3 DEF AddURINew, PoolInv, Typed
    <3>3. \A q \in PoolId, n \in Name : n # u.name => byName'[q][n] = byName[q][n]
      BY <2>1, <2>3 DEF AddURINew, PoolInv, Typed
    <3>4. /\ \A q \in PoolId, d \in DSN : byDSN[q][d] # NoHandle => byDSN[q][d] \in Handle
          /\ \A s \in Proc : pc[s] \in {"store", "use"} => hnd[s] \in Handle
      BY DEF PoolInv, Typed, DialledPrivate, HandleInUseIsOpen
    <3>5. Labelled'
      BY <2>1, <3>1, <3>2, <3>4 DEF PathInv, Labelled, GetURI
    <3>6. DefaultByDSN'
      BY <2>1, <3>3 DEF PathInv, DefaultByDSN, DefaultUnaliased, URLs, URLIndex
    <3>7. CurrentDefault' /\ PathlessOnDefault'
      BY <2>1, <3>1, <3>4 DEF PathInv, CurrentDefault, PathlessOnDefault, DefaultUnaliased, URLs,
         URLIndex, GetURI
    <3> QED
      BY <3>5, <3>6, <3>7 DEF PathInv
  <2> QED
    BY <1>1, <2>2, <2>3 DEF RegisterURL, AddURIDone, AddURIExisting, AddURIFails
<1>2. CASE LoadSingle
  <2> DEFINE d0 == GetURI(PGDatabase)
  <2>1. /\ UNCHANGED <<conf, byName, pc, arg, kind, hnd>> /\ curr' = PGDatabase
        /\ d0 \in DSN /\ Main \in PoolId
    BY <1>2, URIType DEF LoadSingle, request, PoolId
  <2>2. CASE UNCHANGED <<byDSN, conns>>
    BY <2>1, <2>2 DEF PathInv, Labelled, DefaultByDSN, CurrentDefault, PathlessOnDefault,
       DefaultUnaliased, URLs, URLIndex, GetURI
  <2>3. CASE Open(d0) /\ byDSN' = [byDSN EXCEPT ![Main][d0] = Len(conns) + 1]
    <3>1. /\ conns'[Len(conns) + 1] = d0
          /\ \A g \in Handle : conns'[g] = conns[g]
      BY <2>1, <2>3, OpenKeeps DEF PoolInv
    <3>2. \A q \in PoolId, d \in DSN :
             byDSN'[q][d] = IF q = Main /\ d = d0 THEN Len(conns) + 1 ELSE byDSN[q][d]
      BY <2>1, <2>3 DEF PoolInv, Typed
    <3>4. /\ \A q \in PoolId, d \in DSN : byDSN[q][d] # NoHandle => byDSN[q][d] \in Handle
          /\ \A s \in Proc : pc[s] \in {"store", "use"} => hnd[s] \in Handle
      BY DEF PoolInv, Typed, DialledPrivate, HandleInUseIsOpen
    <3>5. Labelled'
      BY <2>1, <3>1, <3>2, <3>4 DEF PathInv, Labelled, GetURI
    <3>6. DefaultByDSN' /\ CurrentDefault' /\ PathlessOnDefault'
      BY <2>1, <3>1, <3>4 DEF PathInv, DefaultByDSN, CurrentDefault, PathlessOnDefault,
         DefaultUnaliased, URLs, URLIndex, GetURI
    <3> QED
      BY <3>5, <3>6 DEF PathInv
  <2> QED
    BY <1>2, <2>2, <2>3 DEF LoadSingle
<1>3. CASE RegistrationDone \/ LoadFails \/ LoadMulti
  BY <1>3 DEF RegistrationDone, LoadFails, LoadMulti, pools, handles, request, PathInv, Labelled,
     DefaultByDSN, CurrentDefault, PathlessOnDefault, DefaultUnaliased, URLs, URLIndex, GetURI
<1> QED
  BY <1>1, <1>2, <1>3 DEF Startup

\* A step that leaves the pools and handles alone, and moves one request.
LEMMA QuietPath ==
    ASSUME PoolInv, PathInv, NEW s \in Proc, UNCHANGED <<conf, byDSN, byName, conns>>,
           \A t \in Proc \ {s} : UNCHANGED <<pc[t], arg[t], kind[t], hnd[t]>>,
           curr' \in {curr, PGDatabase},
           pc'[s] # "store",
           kind'[s] \in {"script", "catalog"} => arg'[s] \in {Empty, PGDatabase},
           DefaultUnaliased /\ pc'[s] = "use" /\ kind'[s] \in {"script", "catalog"} =>
               conns[hnd'[s]] = GetURI(PGDatabase)
    PROVE  PathInv'
<1>1. DefaultUnaliased' <=> DefaultUnaliased
  BY DEF DefaultUnaliased, URLs, URLIndex
<1>2. Labelled'
  BY DEF PathInv, Labelled, GetURI
<1>3. DefaultByDSN'
  BY <1>1 DEF PathInv, DefaultByDSN
<1>4. CurrentDefault'
  BY DEF PathInv, CurrentDefault
<1>5. PathlessOnDefault'
  BY <1>1 DEF PathInv, PathlessOnDefault, GetURI
<1> QED
  BY <1>2, <1>3, <1>4, <1>5 DEF PathInv

\* What the default name, or no name, finds is a connection to the default database.
LEMMA FindDefault ==
    ASSUME PoolInv, PathInv, DefaultUnaliased, NEW q \in PoolId, NEW n \in {Empty, PGDatabase},
           Find(q, n) # NoHandle
    PROVE  conns[Find(q, n)] = GetURI(PGDatabase)
<1>1. GetURI(n) = GetURI(PGDatabase) /\ GetURI(n) \in DSN
  BY DefaultURI, URIType DEF NameOrEmpty
<1>2. n = Empty \/ byName[q][n] = NoHandle
  BY DEF PathInv, DefaultByDSN, NameOrEmpty
<1> QED
  BY <1>1, <1>2 DEF Find, PathInv, Labelled

\* A request that arrives without a name in its path takes the current one.
LEMMA ArrivePath == ASSUME PoolInv, PathInv, NEW s \in Proc, Arrive(s) PROVE PathInv'
<1>1. \E k \in {"ctx", "script", "catalog"}, l \in {"resolve", "setdb", "lookup"}, n \in NameOrEmpty :
         Begin(s, k, n, l) /\ (k # "ctx" => n = curr)
  <2>1. curr \in NameOrEmpty /\ Name \subseteq NameOrEmpty
    BY DEF PoolInv, Typed, NameOrEmpty
  <2> QED
    BY <2>1 DEF Arrive, TableRequest, PlainRequest, CurrentRequest,
       SelectFromTables, InsertInTables, DeleteFromTable, UpdateTable, BatchInsertInTables,
       GetTablesByDatabaseAndSchema, ShowTable, GetDatabases, GetSchemas, GetTables,
       CheckDBHealth, ExecuteFromScripts
<1>2. PICK k \in {"ctx", "script", "catalog"}, l \in {"resolve", "setdb", "lookup"}, n \in NameOrEmpty :
         Begin(s, k, n, l) /\ (k # "ctx" => n = curr)
  BY <1>1
<1>3. /\ pc'[s] = l /\ kind'[s] = k /\ arg'[s] = n
      /\ \A t \in Proc \ {s} : UNCHANGED <<pc[t], arg[t], kind[t], hnd[t]>>
      /\ UNCHANGED <<conf, byDSN, byName, conns, curr>>
  BY <1>2 DEF Begin, Goto, start, pools, handles, PoolInv, Typed
<1> QED
  BY <1>2, <1>3, QuietPath DEF PathInv, CurrentDefault

\* The steps of a request: look-ups find the truth, dials store it.
LEMMA StepPath == ASSUME PoolInv, PathInv, NEW s \in Proc, Step(s) PROVE PathInv'
<1> USE DEF start, pools, handles, Goto, CallGetPool
<1>1. CASE SetDatabase(s) \/ ScriptFails(s) \/ PoolTest(s) \/ Resolve(s) \/ BuildFails(s)
           \/ LookupMiss(s) \/ Reread(s) \/ OpenFails(s) \/ Use(s)
  <2>1. /\ UNCHANGED <<conf, byDSN, byName, conns>> /\ curr' \in {curr, PGDatabase}
        /\ \A t \in Proc \ {s} : UNCHANGED <<pc[t], arg[t], kind[t], hnd[t]>>
        /\ pc'[s] \notin {"store", "use"}
    BY <1>1 DEF SetDatabase, ScriptFails, PoolTest, Resolve, BuildFails, LookupMiss, Reread, OpenFails,
       Use, Finish, CallsGetPool, PoolInv, Typed
  <2>2. kind'[s] \in {"script", "catalog"} => arg'[s] \in {Empty, PGDatabase}
    BY <1>1 DEF SetDatabase, ScriptFails, PoolTest, Resolve, BuildFails, LookupMiss, Reread, OpenFails,
       Use, Finish, PoolInv, Typed, PathInv, CurrentDefault
  <2> QED
    BY <2>1, <2>2, QuietPath
<1>2. CASE PoolCreate(s)
  <2>1. /\ \A q \in PoolId, d \in DSN : byDSN'[q][d] \in {byDSN[q][d], NoHandle}
        /\ \A q \in PoolId, n \in Name : byName'[q][n] \in {byName[q][n], NoHandle}
        /\ UNCHANGED <<conf, conns, curr, pc, arg, kind, hnd>>
    BY <1>2 DEF PoolCreate, EmptyPool, PoolInv, Typed
  <2>2. Labelled'
    BY <2>1 DEF PathInv, Labelled, GetURI
  <2> QED
    BY <2>1, <2>2 DEF PathInv, DefaultByDSN, CurrentDefault, PathlessOnDefault, DefaultUnaliased,
       URLs, URLIndex, GetURI
<1>3. CASE LookupHit(s)
  <2>1. /\ UNCHANGED <<conf, byDSN, byName, conns, curr, kind, arg>>
        /\ \A t \in Proc \ {s} : UNCHANGED <<pc[t], arg[t], kind[t], hnd[t]>>
        /\ pc'[s] = "use" /\ hnd'[s] = Find(p[s], arg[s]) /\ Find(p[s], arg[s]) # NoHandle
        /\ p[s] \in PoolId
    BY <1>3 DEF LookupHit, PoolInv, Typed, HasPool
  <2>2. kind'[s] \in {"script", "catalog"} => arg[s] \in {Empty, PGDatabase} /\ arg'[s] = arg[s]
    BY <2>1 DEF PathInv, CurrentDefault
  <2>3. DefaultUnaliased /\ kind'[s] \in {"script", "catalog"} =>
            conns[hnd'[s]] = GetURI(PGDatabase)
    BY <2>1, <2>2, FindDefault
  <2> QED
    BY <2>1, <2>2, <2>3, QuietPath
<1>4. CASE AddFast(s)
  <2> DEFINE d == GetURI(arg[s])
  <2>1. /\ UNCHANGED <<conf, byDSN, byName, conns, curr, kind, arg>>
        /\ \A t \in Proc \ {s} : UNCHANGED <<pc[t], arg[t], kind[t], hnd[t]>>
        /\ pc'[s] # "store"
        /\ pc'[s] = "use" => hnd'[s] = byDSN[p[s]][d] /\ byDSN[p[s]][d] # NoHandle
        /\ p[s] \in PoolId /\ d \in DSN
    BY <1>4, URIType DEF AddFast, PoolInv, Typed, HasPool
  <2>2. kind'[s] \in {"script", "catalog"} =>
            arg'[s] \in {Empty, PGDatabase} /\ d = GetURI(PGDatabase)
    BY <2>1, DefaultURI DEF PathInv, CurrentDefault
  <2>3. pc'[s] = "use" => conns[hnd'[s]] = d
    BY <2>1 DEF PathInv, Labelled
  <2> QED
    BY <2>1, <2>2, <2>3, QuietPath
<1>5. CASE OpenOK(s)
  <2> DEFINE d == GetURI(arg[s])
  <2>1. d \in DSN
    BY URIType DEF PoolInv, Typed
  <2>2. /\ conns'[Len(conns) + 1] = d
        /\ \A g \in Handle : conns'[g] = conns[g]
    BY <1>5, <2>1, OpenKeeps DEF OpenOK, PoolInv
  <2>3. /\ UNCHANGED <<conf, byDSN, byName, curr, kind, arg>>
        /\ \A t \in Proc \ {s} : pc'[t] = pc[t] /\ hnd'[t] = hnd[t]
        /\ pc'[s] = "store" /\ hnd'[s] = Len(conns) + 1
    BY <1>5 DEF OpenOK, PoolInv, Typed
  <2>4. /\ \A q \in PoolId, e \in DSN : byDSN[q][e] # NoHandle => byDSN[q][e] \in Handle
        /\ \A t \in Proc : pc[t] \in {"store", "use"} => hnd[t] \in Handle
    BY DEF PoolInv, Typed, DialledPrivate, HandleInUseIsOpen
  <2>5. Labelled'
    BY <2>2, <2>3, <2>4 DEF PathInv, Labelled, GetURI
  <2>6. PathlessOnDefault'
    BY <2>2, <2>3, <2>4 DEF PathInv, PathlessOnDefault, DefaultUnaliased, URLs, URLIndex, GetURI
  <2> QED
    BY <2>3, <2>5, <2>6 DEF PathInv, DefaultByDSN, CurrentDefault, DefaultUnaliased, URLs, URLIndex
<1>6. CASE Store(s)
  <2> DEFINE d == GetURI(arg[s])
  <2>1. /\ UNCHANGED <<conf, byName, conns, curr, kind, arg>>
        /\ \A t \in Proc \ {s} : pc'[t] = pc[t] /\ hnd'[t] = hnd[t]
        /\ pc'[s] = "use" /\ p[s] \in PoolId /\ d \in DSN
    BY <1>6, URIType DEF Store, StoreEnds, PoolInv, Typed, HasPool
  <2>2. /\ byDSN' \in {byDSN, [byDSN EXCEPT ![p[s]][d] = hnd[s]]}
        /\ hnd'[s] \in {byDSN[p[s]][d], hnd[s]}
        /\ (hnd'[s] = byDSN[p[s]][d] /\ byDSN[p[s]][d] # NoHandle) \/ hnd'[s] = hnd[s]
    BY <1>6 DEF Store, PoolInv, Typed
  <2>3. conns[hnd[s]] = d /\ conns[hnd'[s]] = d
    BY <1>6, <2>1, <2>2 DEF Store, StoreEnds, PathInv, Labelled
  <2>4. \A q \in PoolId, e \in DSN : byDSN'[q][e] = byDSN[q][e] \/ (e = d /\ byDSN'[q][e] = hnd[s])
    <3>1. byDSN \in [PoolId -> [DSN -> Handle \cup {NoHandle}]]
      BY DEF PoolInv, Typed
    <3>2. CASE byDSN' = byDSN
      BY <3>2
    <3>3. CASE byDSN' = [byDSN EXCEPT ![p[s]][d] = hnd[s]]
      <4> HIDE DEF d
      <4> QED
        BY <2>1, <3>1, <3>3
    <3> QED
      BY <2>2, <3>2, <3>3
  <2>5. Labelled'
    BY <2>1, <2>3, <2>4 DEF PathInv, Labelled, GetURI
  <2>6. kind[s] \in {"script", "catalog"} => d = GetURI(PGDatabase)
    BY DefaultURI DEF PathInv, CurrentDefault
  <2>7. PathlessOnDefault'
    BY <2>1, <2>3, <2>6 DEF PathInv, PathlessOnDefault, DefaultUnaliased, URLs, URLIndex, GetURI
  <2> QED
    BY <2>1, <2>5, <2>7 DEF PathInv, DefaultByDSN, CurrentDefault, DefaultUnaliased, URLs, URLIndex
<1> QED
  BY <1>1, <1>2, <1>3, <1>4, <1>5, <1>6 DEF Step

\* A script or a listing runs on the default database: what it reads from
\* currDatabase, once or twice and while scripts write it, is always the default
\* name or none, both have one DSN, and the pools' DSN keys tell the truth.
THEOREM PathlessDefault == Spec => []PathlessOnDefault
<1>1. PoolInv /\ PathInv /\ [Next]_vars => PathInv'
  <2>1. PathInv /\ UNCHANGED vars => PathInv'
    BY DEF vars, PathInv, Labelled, DefaultByDSN, CurrentDefault, PathlessOnDefault,
       DefaultUnaliased, URLs, URLIndex, GetURI
  <2> QED
    BY <2>1, StartupPath, ArrivePath, StepPath DEF Next
<1> QED
  BY <1>1, InitPath, Invariance, PTL DEF Spec, PathInv
=============================================================================
