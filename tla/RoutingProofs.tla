--------------------------- MODULE RoutingProofs ---------------------------
(***************************************************************************)
(* The connection pool implements Directory, loses no connection and       *)
(* routes aliases as configured, for any number of goroutines, names, URLs *)
(* and dials.                                                              *)
(***************************************************************************)
EXTENDS ConnPoolProofs

\* No request runs before main has left start-up, and main leaves
\* registerExtraURLs at the end of the list.
Quiet ==
    /\ phase # "serve" => \A s \in Proc : pc[s] = "idle" /\ gp[s] = "test" /\ p[s] = NoPool
    /\ phase # "register" => nextURL = Len(URLs) + 1

\* Start-up made the only pool, before the first request and the first handle.
OnePool == EagerPool =>
    /\ pool \in {Main, NoPool}
    /\ pool = NoPool => phase # "serve" /\ nextURL = 1 /\ live = {}
    /\ \A s \in Proc : p[s] \in {Main, NoPool} /\ gp[s] # "create"

\* No handle is lost: DuplicatesClosed, of the pool that start-up makes.
Stocked == EagerPool =>
    \A h \in live : \/ h \in Pooled(Main)
                    \/ \E s \in Proc : pc[s] = "store" /\ hnd[s] = h

\* The DSN keys tell the truth, and so will the key of a handle just dialled.
Keyed == Routed =>
    /\ \A d \in DSN : byDSN[Main][d] # NoHandle => conns[byDSN[Main][d]] = d
    /\ \A s \in Proc : pc[s] = "store" => conns[hnd[s]] = GetURI(arg[s])

\* The name keys are those of the registered URLs, and their handles are the
\* ones under the URLs' DSNs.
Aliases == Routed =>
    /\ \A i \in registered :
          /\ i < nextURL
          /\ byName[Main][URLs[i].name] # NoHandle
          /\ byName[Main][URLs[i].name] = byDSN[Main][URLs[i].dsn]
    /\ \A n \in Name : byName[Main][n] # NoHandle => \E i \in registered : n = URLs[i].name

\* While URLs are registered the pool holds nothing else.
OnlyURLs == Routed /\ phase = "register" =>
    \A d \in DSN : byDSN[Main][d] # NoHandle => \E i \in registered : d = URLs[i].dsn

\* No handle under the derived DSN hides a name that has a handle of its own.
NotHidden == Routed =>
    \A n \in Name : byName[Main][n] # NoHandle =>
        byDSN[Main][GetURI(n)] \in {NoHandle, byName[Main][n]}

\* Nobody dials for an alias.
NoAliasDial == Routed =>
    /\ curr \in {Empty, PGDatabase}
    /\ \A s \in Proc : pc[s] \in {"add", "open", "store"} /\ arg[s] # Empty =>
          byName[Main][arg[s]] = NoHandle

RouteInv ==
    /\ Quiet
    /\ OnePool
    /\ Stocked
    /\ Keyed
    /\ Aliases
    /\ OnlyURLs
    /\ NotHidden
    /\ NoAliasDial
    /\ RoutedAsConfigured

USE NamesAssumption, NilAssumption

\* The configuration is read once, so what depends on it alone never changes.
LEMMA Configured ==
    ASSUME conf' = conf
    PROVE  /\ Routed' <=> Routed
           /\ EagerPool' <=> EagerPool
           /\ URLs' = URLs /\ URLIndex' = URLIndex
           /\ \A n : GetURI(n)' = GetURI(n)
<1>1. URLs' = URLs /\ URLIndex' = URLIndex
  BY DEF URLs, URLIndex
<1> QED
  BY <1>1 DEF Routed, EagerPool, Unambiguous, GetURI

\* The URLs are named and have DSNs.
LEMMA URLType ==
    ASSUME Typed, NEW i \in URLIndex
    PROVE  URLs[i].name \in Name /\ URLs[i].dsn \in DSN
<1>1. URLs \in Seq([name : Name, dsn : DSN]) /\ i \in 1 .. Len(URLs)
  BY SettingsAssumption DEF Typed, URLs, URLIndex
<1>2. URLs[i] \in [name : Name, dsn : DSN]
  BY <1>1, ElementType
<1> QED
  BY <1>2

\* Two names share a derived DSN only when one is empty and the other the default.
LEMMA SharedURI ==
    ASSUME NEW m \in NameOrEmpty, NEW n \in Name, GetURI(m) = GetURI(n)
    PROVE  m = n \/ (m = Empty /\ n = PGDatabase)
  BY DerivedAssumption DEF GetURI, NameOrEmpty

\* In a routed configuration the default name has no handle of its own.
LEMMA DefaultUnnamed ==
    ASSUME Typed, Aliases, Routed, PGDatabase \in Name
    PROVE  byName[Main][PGDatabase] = NoHandle
<1>1. registered \subseteq URLIndex /\ \A i \in URLIndex : URLs[i].name # PGDatabase
  BY DEF Typed, Routed, Unambiguous
<1> QED
  BY <1>1 DEF Aliases

\* Main starts with an empty pool.
LEMMA InitRoute == Init => RouteInv
<1> SUFFICES ASSUME Init PROVE RouteInv
  OBVIOUS
<1>1. Main \in PoolId
  BY DEF PoolId
<1> QED
  BY <1>1 DEF Init, RouteInv, Quiet, OnePool, Stocked, Keyed, Aliases, OnlyURLs, NotHidden,
     NoAliasDial, RoutedAsConfigured

\* When registerExtraURLs comes to a URL of a routed configuration, neither its
\* keys nor the DSN derived from its name are in the pool.
LEMMA URLFresh ==
    ASSUME PoolInv, RouteInv, Routed, phase = "register", nextURL \in URLIndex
    PROVE  /\ byDSN[Main][URLs[nextURL].dsn] = NoHandle
           /\ byName[Main][URLs[nextURL].name] = NoHandle
           /\ byDSN[Main][GetURI(URLs[nextURL].name)] = NoHandle
<1> DEFINE u == URLs[nextURL]
<1>1. u.name \in Name /\ u.dsn \in DSN /\ GetURI(u.name) \in DSN
  BY URLType, URIType DEF PoolInv, NameOrEmpty
<1>2. \A i \in registered : i \in URLIndex /\ i # nextURL
  BY DEF PoolInv, Typed, RouteInv, Aliases, URLIndex
<1>3. \A i \in registered :
        URLs[i].name # u.name /\ URLs[i].dsn # u.dsn /\ URLs[i].dsn # GetURI(u.name)
  BY <1>2 DEF Routed, Unambiguous
<1> QED
  BY <1>1, <1>3 DEF RouteInv, Aliases, OnlyURLs

\* The handle of AddURI is fresh, so the pool keeps every other one.
LEMMA AddURINewKeys ==
    ASSUME PoolInv, phase = "register", nextURL \in URLIndex, AddURINew(URLs[nextURL])
    PROVE  LET u == URLs[nextURL]
               h == Len(conns) + 1
           IN  /\ h \in Nat /\ h \notin Handle /\ live' = live \cup {h}
               /\ conns'[h] = u.dsn /\ \A g \in Handle : conns'[g] = conns[g]
               /\ byDSN[Main][u.dsn] = NoHandle /\ byName[Main][u.name] = NoHandle
               /\ \A d \in DSN : byDSN'[Main][d] = IF d = u.dsn THEN h ELSE byDSN[Main][d]
               /\ \A n \in Name : byName'[Main][n] = IF n = u.name THEN h ELSE byName[Main][n]
<1> DEFINE u == URLs[nextURL]
           h == Len(conns) + 1
<1>1. u.name \in Name /\ u.dsn \in DSN /\ Main \in PoolId
  BY URLType DEF PoolInv, PoolId
<1>2. conns \in Seq(DSN) /\ Len(conns) \in Nat
  BY DEF PoolInv, Typed
<1>3. conns' = Append(conns, u.dsn) /\ live' = live \cup {h}
  BY DEF AddURINew, Open
<1>4. conns'[h] = u.dsn /\ \A g \in Handle : conns'[g] = conns[g]
  BY <1>1, <1>2, <1>3 DEF Handle
<1>5. h \in Nat /\ h \notin Handle
  BY <1>2 DEF Handle
<1>6. byDSN[Main][u.dsn] = NoHandle /\ byName[Main][u.name] = NoHandle
  BY DEF AddURINew
<1>7. /\ byDSN \in [PoolId -> [DSN -> Handle \cup {NoHandle}]]
      /\ byName \in [PoolId -> [Name -> Handle \cup {NoHandle}]]
  BY DEF PoolInv, Typed
<1>8. /\ byDSN' = [byDSN EXCEPT ![Main][u.dsn] = h]
      /\ byName' = [byName EXCEPT ![Main][u.name] = h]
  BY DEF AddURINew
<1>9. \A d \in DSN : byDSN'[Main][d] = IF d = u.dsn THEN h ELSE byDSN[Main][d]
  <2> HIDE DEF u, h
  <2> QED
    BY <1>1, <1>7, <1>8
<1>10. \A n \in Name : byName'[Main][n] = IF n = u.name THEN h ELSE byName[Main][n]
  <2> HIDE DEF u, h
  <2> QED
    BY <1>1, <1>7, <1>8
<1> QED
  BY <1>3, <1>4, <1>5, <1>6, <1>9, <1>10

\* registerExtraURLs takes the next URL.
LEMMA RegisterURLRoute ==
    ASSUME PoolInv, RouteInv, RegisterURL PROVE RouteInv'
<1> DEFINE u == URLs[nextURL]
           h == Len(conns) + 1
<1>0. /\ conf' = conf /\ phase = "register" /\ phase' = phase /\ pool' = Main
      /\ nextURL' = nextURL + 1 /\ nextURL \in URLIndex /\ nextURL \in Nat /\ UNCHANGED curr
      /\ UNCHANGED <<pc, gp, p, arg, qual, kind, hnd>>
  BY DEF RegisterURL, request, URLIndex, PoolInv, Typed
<1>1. /\ Routed' <=> Routed
      /\ EagerPool' <=> EagerPool
      /\ URLs' = URLs /\ URLIndex' = URLIndex
      /\ \A n : GetURI(n)' = GetURI(n)
  BY <1>0, Configured
<1>2. \A s \in Proc : pc[s] = "idle" /\ gp[s] = "test" /\ p[s] = NoPool
  BY <1>0 DEF RouteInv, Quiet
<1>3. Quiet' /\ NoAliasDial' /\ RoutedAsConfigured'
  BY <1>0, <1>1, <1>2 DEF Quiet, RouteInv, NoAliasDial, RoutedAsConfigured
<1>4. OnePool'
  BY <1>0, <1>1, <1>2 DEF OnePool, PoolId
<1>5. u.name \in Name /\ u.dsn \in DSN /\ Main \in PoolId
  BY <1>0, URLType DEF PoolInv, PoolId
<1>6. \A i \in registered : i \in URLIndex /\ URLs[i].name \in Name /\ URLs[i].dsn \in DSN
  BY URLType DEF PoolInv, Typed
<1>7. CASE /\ UNCHANGED <<byDSN, byName, conns, live>>
           /\ registered' = registered \/ ~Routed
  <2>1. Stocked'
    BY <1>0, <1>1, <1>7 DEF RouteInv, Stocked, Pooled
  <2>2. Keyed' /\ NotHidden'
    BY <1>0, <1>1, <1>7 DEF RouteInv, Keyed, NotHidden
  <2>3. Aliases' /\ OnlyURLs'
    BY <1>0, <1>1, <1>6, <1>7 DEF RouteInv, Aliases, OnlyURLs, URLIndex
  <2> QED
    BY <1>3, <1>4, <2>1, <2>2, <2>3 DEF RouteInv
<1>8. CASE AddURINew(u) /\ registered' = registered \cup {nextURL}
  <2>1. /\ h \in Nat /\ h \notin Handle /\ live' = live \cup {h}
        /\ conns'[h] = u.dsn /\ \A g \in Handle : conns'[g] = conns[g]
        /\ byDSN[Main][u.dsn] = NoHandle /\ byName[Main][u.name] = NoHandle
        /\ \A d \in DSN : byDSN'[Main][d] = IF d = u.dsn THEN h ELSE byDSN[Main][d]
        /\ \A n \in Name : byName'[Main][n] = IF n = u.name THEN h ELSE byName[Main][n]
    BY <1>0, <1>8, AddURINewKeys
  <2>2. h # NoHandle
    BY <2>1
  <2>3. Stocked'
    <3> SUFFICES ASSUME EagerPool, NEW g \in live \cup {h} PROVE g \in Pooled(Main)'
      BY <1>1, <2>1 DEF Stocked
    <3>1. CASE g = h
      BY <1>5, <2>1, <3>1 DEF Pooled
    <3>2. CASE g \in live
      <4>1. g \in Pooled(Main) /\ g # NoHandle
        BY <1>2, <3>2 DEF RouteInv, Stocked, PoolInv, Typed, Handle
      <4> QED
        BY <4>1, <2>1 DEF Pooled
    <3> QED
      BY <3>1, <3>2
  <2>4. Keyed'
    <3>1. \A d \in DSN : byDSN[Main][d] \in Handle \cup {NoHandle}
      BY <1>5 DEF PoolInv, Typed
    <3>2. \A s \in Proc : pc'[s] # "store"
      BY <1>0, <1>2
    <3> QED
      BY <1>1, <2>1, <3>1, <3>2 DEF RouteInv, Keyed
  <2>5. ASSUME Routed, NEW i \in registered
        PROVE  URLs[i].name # u.name /\ URLs[i].dsn # u.dsn /\ i < nextURL + 1
               /\ u.dsn # GetURI(URLs[i].name) /\ URLs[i].dsn # GetURI(u.name)
    <3>1. i < nextURL /\ i \in URLIndex /\ i \in Nat
      BY <1>6, <2>5 DEF RouteInv, Aliases, URLIndex
    <3>2. i # nextURL /\ i < nextURL + 1
      BY <3>1, <1>0
    <3> QED
      BY <3>1, <3>2, <1>0, <2>5 DEF Routed, Unambiguous
  <2>6. Aliases'
    <3> SUFFICES ASSUME Routed PROVE Aliases'
      BY <1>1 DEF Aliases
    <3>1. ASSUME NEW i \in registered \cup {nextURL}
          PROVE  /\ i < nextURL + 1
                 /\ byName'[Main][URLs[i].name] # NoHandle
                 /\ byName'[Main][URLs[i].name] = byDSN'[Main][URLs[i].dsn]
      BY <1>0, <1>5, <1>6, <2>1, <2>2, <2>5 DEF RouteInv, Aliases
    <3>2. ASSUME NEW n \in Name, byName'[Main][n] # NoHandle
          PROVE  \E i \in registered \cup {nextURL} : n = URLs[i].name
      BY <2>1, <3>2 DEF RouteInv, Aliases
    <3> QED
      BY <1>0, <1>1, <1>8, <3>1, <3>2 DEF Aliases
  <2>7. OnlyURLs'
    BY <1>0, <1>1, <1>8, <2>1 DEF RouteInv, OnlyURLs
  <2>8. NotHidden'
    <3> SUFFICES ASSUME Routed, NEW n \in Name, byName'[Main][n] # NoHandle
                 PROVE  byDSN'[Main][GetURI(n)] \in {NoHandle, byName'[Main][n]}
      BY <1>1 DEF NotHidden
    <3>1. GetURI(n) \in DSN
      BY URIType DEF NameOrEmpty
    <3>2. CASE n = u.name
      BY <1>0, <2>1, <3>1, <3>2, URLFresh
    <3>3. CASE n # u.name
      <4>1. byName[Main][n] # NoHandle /\ byName'[Main][n] = byName[Main][n]
        BY <2>1, <3>3
      <4>2. PICK i \in registered : n = URLs[i].name
        BY <4>1 DEF RouteInv, Aliases
      <4>3. GetURI(n) # u.dsn
        BY <4>2, <2>5
      <4> QED
        BY <2>1, <3>1, <4>1, <4>3 DEF RouteInv, NotHidden
    <3> QED
      BY <3>2, <3>3
  <2> QED
    BY <1>3, <1>4, <2>3, <2>4, <2>6, <2>7, <2>8 DEF RouteInv
<1>9. AddURIExisting(u) => ~Routed
  BY <1>0, URLFresh DEF AddURIExisting
<1> QED
  BY <1>7, <1>8, <1>9 DEF RegisterURL, AddURIDone, AddURIExisting, AddURIFails

\* The last URL is done, and Load in multi-database mode or without a database.
LEMMA LoadRoute ==
    ASSUME PoolInv, RouteInv, RegistrationDone \/ LoadFails \/ LoadMulti PROVE RouteInv'
<1>0. /\ UNCHANGED <<conf, nextURL, registered, pool, byDSN, byName, curr, conns, live>>
      /\ UNCHANGED <<pc, gp, p, arg, hnd>>
      /\ phase' # "register"
      /\ phase = "register" => nextURL \notin URLIndex /\ phase' = "load"
      /\ phase' = "serve" => phase = "load" /\ ~conf.single
      /\ phase # "serve"
  BY DEF RegistrationDone, LoadFails, LoadMulti, pools, handles, request
<1>1. /\ Routed' <=> Routed
      /\ EagerPool' <=> EagerPool
      /\ URLs' = URLs /\ URLIndex' = URLIndex
      /\ \A n : GetURI(n)' = GetURI(n)
  BY <1>0, Configured
<1>2. Quiet'
  BY <1>0, <1>1 DEF RouteInv, Quiet, PoolInv, Typed, URLIndex
<1>3. OnePool'
  <2>1. phase' = "serve" /\ EagerPool => nextURL # 1
    <3> SUFFICES ASSUME phase' = "serve", EagerPool PROVE nextURL # 1
      OBVIOUS
    <3>1. nextURL = Len(URLs) + 1 /\ URLs # << >>
      BY <1>0 DEF RouteInv, Quiet, EagerPool
    <3>2. URLs \in Seq([name : Name, dsn : DSN])
      BY SettingsAssumption DEF PoolInv, Typed, URLs
    <3> QED
      BY <3>1, <3>2
  <2> QED
    BY <1>0, <1>1, <2>1 DEF RouteInv, OnePool
<1>4. Stocked' /\ Keyed' /\ NotHidden'
  BY <1>0, <1>1 DEF RouteInv, Stocked, Pooled, Keyed, NotHidden
<1>5. Aliases' /\ OnlyURLs' /\ NoAliasDial' /\ RoutedAsConfigured'
  <2>1. (\A s \in Proc : pc[s] = "idle") /\ pc' = pc
    BY <1>0 DEF RouteInv, Quiet
  <2> QED
    BY <1>0, <1>1, <2>1 DEF RouteInv, Aliases, OnlyURLs, NoAliasDial, RoutedAsConfigured
<1> QED
  BY <1>2, <1>3, <1>4, <1>5 DEF RouteInv

\* Load in single-database mode finds the default database or dials it.
LEMMA LoadSingleRoute ==
    ASSUME PoolInv, RouteInv, LoadSingle PROVE RouteInv'
<1> DEFINE d == GetURI(PGDatabase)
           h == Len(conns) + 1
<1>0. /\ UNCHANGED <<conf, nextURL, registered, byName>>
      /\ UNCHANGED <<pc, gp, p, arg, hnd>>
      /\ phase = "load" /\ phase' = "serve" /\ curr' = PGDatabase /\ pool' = Main
      /\ Main # NoPool /\ Main \in PoolId
      /\ d \in DSN
  BY URIType DEF LoadSingle, request, PoolId
<1>1. /\ Routed' <=> Routed
      /\ EagerPool' <=> EagerPool
      /\ URLs' = URLs /\ URLIndex' = URLIndex
      /\ \A n : GetURI(n)' = GetURI(n)
  BY <1>0, Configured
<1>2. \A s \in Proc : pc[s] = "idle" /\ gp[s] = "test" /\ p[s] = NoPool
  BY <1>0 DEF RouteInv, Quiet
<1>3. Quiet' /\ OnePool' /\ NoAliasDial' /\ OnlyURLs' /\ RoutedAsConfigured'
  BY <1>0, <1>1, <1>2 DEF RouteInv, Quiet, OnePool, NoAliasDial, OnlyURLs, RoutedAsConfigured
<1>4. CASE UNCHANGED <<byDSN, conns, live>>
  <2>1. Stocked' /\ Keyed' /\ NotHidden' /\ Aliases'
    BY <1>0, <1>1, <1>4 DEF RouteInv, Stocked, Pooled, Keyed, NotHidden, Aliases
  <2> QED
    BY <1>3, <2>1 DEF RouteInv
<1>5. CASE Find(Main, PGDatabase) = NoHandle /\ Open(d) /\ byDSN' = [byDSN EXCEPT ![Main][d] = h]
  <2>1. /\ conns \in Seq(DSN) /\ Len(conns) \in Nat /\ h \in Nat /\ h # NoHandle
        /\ byDSN \in [PoolId -> [DSN -> Handle \cup {NoHandle}]]
        /\ byName \in [PoolId -> [Name -> Handle \cup {NoHandle}]]
    BY DEF PoolInv, Typed
  <2>2. conns'[h] = d /\ (\A g \in Handle : conns'[g] = conns[g]) /\ live' = live \cup {h}
    BY <1>0, <1>5, <2>1 DEF Open, Handle
  <2>3. byDSN[Main][d] = NoHandle
    BY <1>5 DEF Find
  <2>4. \A e \in DSN : byDSN'[Main][e] = IF e = d THEN h ELSE byDSN[Main][e]
    <3> HIDE DEF d, h
    <3> QED
      BY <1>0, <1>5, <2>1
  <2>5. Stocked'
    <3> SUFFICES ASSUME EagerPool, NEW g \in live \cup {h} PROVE g \in Pooled(Main)'
      BY <1>1, <2>2 DEF Stocked
    <3>1. CASE g = h
      BY <1>0, <2>4, <3>1 DEF Pooled
    <3>2. CASE g \in live
      <4>1. g \in Pooled(Main) /\ g # NoHandle
        BY <1>2, <3>2 DEF RouteInv, Stocked, PoolInv, Typed, Handle
      <4> QED
        BY <1>0, <4>1, <2>3, <2>4 DEF Pooled
    <3> QED
      BY <3>1, <3>2
  <2>6. Keyed'
    <3>1. \A e \in DSN : byDSN[Main][e] \in Handle \cup {NoHandle}
      BY <1>0, <2>1
    <3>2. \A s \in Proc : pc'[s] # "store"
      BY <1>0, <1>2
    <3> QED
      BY <1>1, <2>2, <2>4, <3>1, <3>2 DEF RouteInv, Keyed
  <2>7. Aliases'
    <3>1. \A i \in registered : URLs[i].dsn \in DSN
      BY URLType DEF PoolInv, Typed
    <3> QED
      BY <1>0, <1>1, <2>3, <2>4, <3>1 DEF RouteInv, Aliases
  <2>8. NotHidden'
    <3> SUFFICES ASSUME Routed, NEW n \in Name, byName[Main][n] # NoHandle
                 PROVE  byDSN'[Main][GetURI(n)] \in {NoHandle, byName[Main][n]}
      BY <1>0, <1>1 DEF NotHidden
    <3>1. GetURI(n) \in DSN
      BY URIType DEF NameOrEmpty
    <3>2. GetURI(n) # d
      BY DefaultUnnamed, SharedURI DEF PoolInv, RouteInv
    <3> QED
      BY <2>4, <3>1, <3>2 DEF RouteInv, NotHidden
  <2> QED
    BY <1>3, <2>5, <2>6, <2>7, <2>8 DEF RouteInv
<1> QED
  BY <1>4, <1>5 DEF LoadSingle

\* A step of one request that leaves the pool and the handles alone.  It must not
\* dial for an alias, nor use a handle that is not the alias's.
LEMMA LocalRoute ==
    ASSUME PoolInv, RouteInv, NEW s \in Proc, phase = "serve",
           UNCHANGED <<conf, phase, nextURL, registered, pool, byDSN, byName, conns, live>>,
           \A t \in Proc \ {s} :
              /\ pc'[t] = pc[t] /\ gp'[t] = gp[t] /\ p'[t] = p[t]
              /\ arg'[t] = arg[t] /\ hnd'[t] = hnd[t],
           pc[s] # "store", pc'[s] # "store",
           p'[s] \in {p[s], pool, NoPool},
           gp'[s] = "create" => gp[s] = "create" \/ pool = NoPool,
           curr' \in {curr, PGDatabase},
           Routed /\ pc'[s] \in {"add", "open"} /\ arg'[s] # Empty =>
              byName[Main][arg'[s]] = NoHandle,
           \A i \in registered : Routed /\ pc'[s] = "use" /\ arg'[s] = URLs[i].name =>
              conns[hnd'[s]] = URLs[i].dsn
    PROVE  RouteInv'
<1>1. /\ Routed' <=> Routed
      /\ EagerPool' <=> EagerPool
      /\ URLs' = URLs /\ URLIndex' = URLIndex
      /\ \A n : GetURI(n)' = GetURI(n)
  BY Configured
<1>2. Quiet'
  BY <1>1 DEF RouteInv, Quiet
<1>3. OnePool'
  BY <1>1 DEF RouteInv, OnePool
<1>4. Stocked'
  BY <1>1 DEF RouteInv, Stocked, Pooled
<1>5. Keyed'
  BY <1>1 DEF RouteInv, Keyed
<1>6. Aliases' /\ OnlyURLs' /\ NotHidden'
  BY <1>1 DEF RouteInv, Aliases, OnlyURLs, NotHidden
<1>7. NoAliasDial'
  BY <1>1 DEF RouteInv, NoAliasDial
<1>8. RoutedAsConfigured'
  <2>1. \A i \in registered : Unambiguous => Routed
    BY DEF Routed, EagerPool, PoolInv, Typed, URLIndex
  <2>2. Unambiguous' <=> Unambiguous
    BY <1>1 DEF Unambiguous
  <2> QED
    BY <1>1, <2>1, <2>2 DEF RouteInv, RoutedAsConfigured
<1> QED
  BY <1>2, <1>3, <1>4, <1>5, <1>6, <1>7, <1>8 DEF RouteInv

\* A request arrives.
LEMMA ArriveRoute ==
    ASSUME PoolInv, RouteInv, NEW s \in Proc, Arrive(s) PROVE RouteInv'
<1>1. \E k \in {"ctx", "script", "catalog"}, l \in {"resolve", "setdb", "lookup"}, n \in NameOrEmpty :
         Begin(s, k, n, l)
  <2>1. curr \in NameOrEmpty /\ Name \subseteq NameOrEmpty
    BY DEF PoolInv, Typed, NameOrEmpty
  <2> QED
    BY <2>1 DEF Arrive, TableRequest, PlainRequest, CurrentRequest,
       SelectFromTables, InsertInTables, DeleteFromTable, UpdateTable, BatchInsertInTables,
       GetTablesByDatabaseAndSchema, ShowTable, GetDatabases, GetSchemas, GetTables,
       CheckDBHealth, ExecuteFromScripts
<1>2. PICK k \in {"ctx", "script", "catalog"}, l \in {"resolve", "setdb", "lookup"}, n \in NameOrEmpty :
         Begin(s, k, n, l)
  BY <1>1
<1>3. /\ pc' = [pc EXCEPT ![s] = l] /\ arg' = [arg EXCEPT ![s] = n]
      /\ UNCHANGED <<conf, phase, nextURL, registered, pool, byDSN, byName, conns, live>>
      /\ UNCHANGED <<curr, gp, p, hnd>>
      /\ phase = "serve" /\ pc[s] = "idle"
  BY <1>2 DEF Begin, Goto, start, pools, handles
<1>4. /\ pc'[s] = l
      /\ \A t \in Proc \ {s} : pc'[t] = pc[t] /\ arg'[t] = arg[t]
  BY <1>3 DEF PoolInv, Typed
<1> QED
  BY <1>3, <1>4, LocalRoute

\* In a configuration whose pool start-up makes, a request that runs has it.
LEMMA ServesFromMain ==
    ASSUME PoolInv, RouteInv, NEW s \in Proc, pc[s] # "idle"
    PROVE  /\ phase = "serve"
           /\ EagerPool /\ p[s] # NoPool => p[s] = Main
           /\ EagerPool => pool = Main /\ gp[s] # "create"
  BY DEF RouteInv, Quiet, OnePool

\* getDatabaseFromPool gives the handle of the alias to requests for the alias.
LEMMA FindAlias ==
    ASSUME PoolInv, RouteInv, Routed, NEW i \in registered
    PROVE  /\ Find(Main, URLs[i].name) = byName[Main][URLs[i].name]
           /\ byName[Main][URLs[i].name] # NoHandle
           /\ conns[byName[Main][URLs[i].name]] = URLs[i].dsn
<1>1. URLs[i].name \in Name /\ URLs[i].dsn \in DSN /\ URLs[i].name # Empty
  BY URLType DEF PoolInv, Typed
<1>2. /\ byName[Main][URLs[i].name] # NoHandle
      /\ byName[Main][URLs[i].name] = byDSN[Main][URLs[i].dsn]
  BY DEF RouteInv, Aliases
<1>3. byDSN[Main][GetURI(URLs[i].name)] \in {NoHandle, byName[Main][URLs[i].name]}
  BY <1>1, <1>2 DEF RouteInv, NotHidden
<1> QED
  BY <1>1, <1>2, <1>3 DEF RouteInv, Keyed, Find

\* The steps of a request that leave the pool and the handles alone.
LEMMA LocalStepRoute ==
    ASSUME PoolInv, RouteInv, NEW s \in Proc,
           \/ SetDatabase(s) \/ ScriptFails(s) \/ PoolTest(s) \/ Resolve(s) \/ BuildFails(s)
           \/ LookupHit(s) \/ LookupMiss(s) \/ Reread(s) \/ AddFast(s) \/ OpenFails(s) \/ Use(s)
    PROVE  RouteInv'
<1>0. /\ pc \in [Proc -> Label] /\ arg \in [Proc -> NameOrEmpty]
      /\ gp \in [Proc -> {"test", "create", "got"}]
      /\ p \in [Proc -> PoolId \cup {NoPool}]
      /\ hnd \in [Proc -> Handle \cup {NoHandle}]
      /\ \A i \in registered : URLs[i].name \in Name
  BY URLType DEF PoolInv, Typed
<1>1. /\ UNCHANGED <<conf, phase, nextURL, registered, pool, byDSN, byName, conns, live>>
      /\ pc[s] # "idle" /\ pc[s] # "store"
      /\ curr' \in {curr, PGDatabase}
  BY DEF SetDatabase, ScriptFails, PoolTest, Resolve, BuildFails, LookupHit, LookupMiss, Reread,
     AddFast, OpenFails, Use, start, pools, handles, CallsGetPool
<1>2. /\ phase = "serve"
      /\ EagerPool /\ p[s] # NoPool => p[s] = Main
      /\ EagerPool => pool = Main /\ gp[s] # "create"
  BY <1>1, ServesFromMain
<1>3. CASE ScriptFails(s) \/ BuildFails(s) \/ OpenFails(s) \/ Use(s)
  <2>1. Finish(s)
    BY <1>3 DEF ScriptFails, BuildFails, OpenFails, Use
  <2>2. /\ pc'[s] = "idle" /\ gp'[s] = "test" /\ p'[s] = NoPool
        /\ \A t \in Proc \ {s} : /\ pc'[t] = pc[t] /\ gp'[t] = gp[t] /\ p'[t] = p[t]
                                 /\ arg'[t] = arg[t] /\ hnd'[t] = hnd[t]
    BY <1>0, <2>1 DEF Finish, Goto, CallGetPool
  <2> QED
    BY <1>1, <1>2, <2>2, LocalRoute
<1>4. CASE SetDatabase(s) \/ Resolve(s) \/ PoolTest(s)
  <2>1. /\ pc'[s] \in {"lookup", pc[s]} /\ p'[s] \in {p[s], pool, NoPool}
        /\ pc[s] \in {"setdb", "resolve", "lookup", "add"}
        /\ gp'[s] = "create" => gp[s] = "create" \/ pool = NoPool
        /\ \A t \in Proc \ {s} : /\ pc'[t] = pc[t] /\ gp'[t] = gp[t] /\ p'[t] = p[t]
                                 /\ arg'[t] = arg[t] /\ hnd'[t] = hnd[t]
        /\ arg' = arg
    <3>1. CASE SetDatabase(s)
      BY <1>0, <3>1 DEF SetDatabase, Goto
    <3>2. CASE Resolve(s)
      BY <1>0, <3>2 DEF Resolve, Goto, CallGetPool
    <3>3. CASE PoolTest(s)
      BY <1>0, <3>3 DEF PoolTest, CallsGetPool
    <3> QED
      BY <1>4, <3>1, <3>2, <3>3
  <2>2. Routed /\ pc'[s] \in {"add", "open"} /\ arg'[s] # Empty => byName[Main][arg'[s]] = NoHandle
    BY <2>1 DEF RouteInv, NoAliasDial
  <2> QED
    BY <1>1, <1>2, <2>1, <2>2, LocalRoute
<1>5. CASE LookupHit(s)
  <2>1. /\ pc'[s] = "use" /\ gp'[s] = "test" /\ p'[s] = NoPool /\ arg' = arg
        /\ hnd'[s] = Find(p[s], arg[s]) /\ p[s] # NoPool
        /\ \A t \in Proc \ {s} : /\ pc'[t] = pc[t] /\ gp'[t] = gp[t] /\ p'[t] = p[t]
                                 /\ arg'[t] = arg[t] /\ hnd'[t] = hnd[t]
    BY <1>0, <1>5 DEF LookupHit, Goto, CallGetPool, PoolInv, HasPool
  <2>2. ASSUME Routed, NEW i \in registered, arg'[s] = URLs[i].name
        PROVE  conns[hnd'[s]] = URLs[i].dsn
    <3>1. p[s] = Main
      BY <1>2, <2>1, <2>2 DEF Routed
    <3> QED
      BY <2>1, <2>2, <3>1, FindAlias
  <2> QED
    BY <1>1, <1>2, <2>1, <2>2, LocalRoute
<1>6. CASE LookupMiss(s)
  <2>1. /\ pc'[s] \in {"reread", "add"} /\ gp'[s] = "test" /\ p'[s] = NoPool /\ arg' = arg
        /\ Find(p[s], arg[s]) = NoHandle /\ p[s] # NoPool
        /\ \A t \in Proc \ {s} : /\ pc'[t] = pc[t] /\ gp'[t] = gp[t] /\ p'[t] = p[t]
                                 /\ arg'[t] = arg[t] /\ hnd'[t] = hnd[t]
    BY <1>0, <1>6 DEF LookupMiss, Goto, CallGetPool, PoolInv, HasPool
  <2>2. ASSUME Routed, arg'[s] # Empty PROVE byName[Main][arg'[s]] = NoHandle
    BY <1>2, <2>1, <2>2 DEF Routed, Find
  <2> QED
    BY <1>1, <1>2, <2>1, <2>2, LocalRoute
<1>7. CASE Reread(s)
  <2>1. /\ pc'[s] = "add" /\ arg'[s] = curr /\ UNCHANGED <<gp, p, hnd, curr>>
        /\ \A t \in Proc \ {s} : pc'[t] = pc[t] /\ arg'[t] = arg[t]
    BY <1>0, <1>7 DEF Reread, Goto
  <2>2. ASSUME Routed, arg'[s] # Empty PROVE byName[Main][arg'[s]] = NoHandle
    <3>1. curr = PGDatabase /\ PGDatabase \in Name
      BY <2>1, <2>2 DEF RouteInv, NoAliasDial, NameOrEmpty
    <3> QED
      BY <2>1, <2>2, <3>1, DefaultUnnamed DEF PoolInv, RouteInv
  <2> QED
    BY <1>1, <1>2, <2>1, <2>2, LocalRoute
<1>8. CASE AddFast(s)
  <2>1. /\ pc'[s] \in {"use", "open"} /\ gp'[s] \in {"test", gp[s]} /\ p'[s] \in {p[s], NoPool}
        /\ pc[s] = "add" /\ p[s] # NoPool /\ arg' = arg
        /\ \A t \in Proc \ {s} : /\ pc'[t] = pc[t] /\ gp'[t] = gp[t] /\ p'[t] = p[t]
                                 /\ arg'[t] = arg[t] /\ hnd'[t] = hnd[t]
    <3>1. CASE byDSN[p[s]][GetURI(arg[s])] # NoHandle
      BY <1>0, <1>8, <3>1 DEF AddFast, Goto, CallGetPool, PoolInv, HasPool
    <3>2. CASE byDSN[p[s]][GetURI(arg[s])] = NoHandle
      BY <1>0, <1>8, <3>2 DEF AddFast, Goto, CallGetPool, PoolInv, HasPool
    <3> QED
      BY <3>1, <3>2
  <2>2. Routed /\ arg[s] # Empty => byName[Main][arg[s]] = NoHandle
    BY <2>1 DEF RouteInv, NoAliasDial
  <2>3. Routed => \A i \in registered : arg[s] # URLs[i].name
    BY <1>0, <2>2 DEF RouteInv, Aliases
  <2> QED
    BY <1>1, <1>2, <2>1, <2>2, <2>3, LocalRoute
<1> QED
  BY <1>3, <1>4, <1>5, <1>6, <1>7, <1>8

\* openAndPing: a new handle, in the hands of its goroutine, for its own name.
LEMMA OpenOKRoute ==
    ASSUME PoolInv, RouteInv, NEW s \in Proc, OpenOK(s) PROVE RouteInv'
<1> DEFINE h == Len(conns) + 1
<1>0. /\ pc \in [Proc -> Label] /\ hnd \in [Proc -> Handle \cup {NoHandle}]
      /\ arg[s] \in NameOrEmpty /\ GetURI(arg[s]) \in DSN
      /\ conns \in Seq(DSN) /\ Len(conns) \in Nat
      /\ byDSN \in [PoolId -> [DSN -> Handle \cup {NoHandle}]] /\ Main \in PoolId
  BY URIType DEF PoolInv, Typed, PoolId
<1>1. /\ UNCHANGED <<conf, phase, nextURL, registered, pool, byDSN, byName, curr, gp, p, arg>>
      /\ pc[s] = "open" /\ pc' = [pc EXCEPT ![s] = "store"] /\ hnd' = [hnd EXCEPT ![s] = h]
      /\ conns' = Append(conns, GetURI(arg[s])) /\ live' = live \cup {h}
  BY DEF OpenOK, Open, Goto, start, pools
<1>2. /\ Routed' <=> Routed
      /\ EagerPool' <=> EagerPool
      /\ URLs' = URLs /\ URLIndex' = URLIndex
      /\ \A n : GetURI(n)' = GetURI(n)
  BY <1>1, Configured
<1>3. phase = "serve" /\ (EagerPool => pool = Main)
  BY <1>1, ServesFromMain
<1>4. conns'[h] = GetURI(arg[s]) /\ (\A g \in Handle : conns'[g] = conns[g])
  BY <1>0, <1>1 DEF Handle
<1>5. /\ pc'[s] = "store" /\ hnd'[s] = h
      /\ \A t \in Proc \ {s} : pc'[t] = pc[t] /\ hnd'[t] = hnd[t]
  BY <1>0, <1>1
<1>6. Quiet' /\ Aliases' /\ OnlyURLs' /\ NotHidden'
  BY <1>1, <1>2, <1>3 DEF RouteInv, Quiet, Aliases, OnlyURLs, NotHidden
<1>7. OnePool'
  BY <1>1, <1>2, <1>3 DEF RouteInv, OnePool, PoolId
<1>8. Stocked'
  <2>1. Pooled(Main)' = Pooled(Main)
    BY <1>1 DEF Pooled
  <2> QED
    <3> SUFFICES ASSUME EagerPool, NEW g \in live \cup {h}, g \notin Pooled(Main)
                 PROVE  \E t \in Proc : pc'[t] = "store" /\ hnd'[t] = g
      BY <1>1, <1>2, <2>1 DEF Stocked
    <3>1. CASE g = h
      BY <1>5, <3>1
    <3>2. CASE g \in live
      <4>1. PICK t \in Proc : pc[t] = "store" /\ hnd[t] = g
        BY <3>2 DEF RouteInv, Stocked
      <4>2. t # s
        BY <1>1, <4>1
      <4> QED
        BY <1>5, <4>1, <4>2
    <3> QED
      BY <3>1, <3>2
<1>9. Keyed'
  <2>1. \A d \in DSN : byDSN[Main][d] \in Handle \cup {NoHandle}
    BY <1>0
  <2>2. \A t \in Proc : pc[t] = "store" => hnd[t] \in Handle
    BY DEF PoolInv, Typed, DialledPrivate
  <2>3. \A t \in Proc : GetURI(arg[t])' = GetURI(arg[t])
    BY <1>1 DEF GetURI
  <2>4. ASSUME Routed, NEW t \in Proc, pc'[t] = "store" PROVE conns'[hnd'[t]] = GetURI(arg[t])
    <3>1. CASE t = s
      BY <1>4, <1>5, <3>1
    <3>2. CASE t # s
      BY <1>4, <1>5, <2>2, <2>4, <3>2 DEF RouteInv, Keyed
    <3> QED
      BY <3>1, <3>2
  <2>5. Routed => \A d \in DSN : byDSN[Main][d] # NoHandle => conns'[byDSN[Main][d]] = d
    BY <1>4, <2>1 DEF RouteInv, Keyed
  <2> QED
    BY <1>1, <1>2, <2>3, <2>4, <2>5 DEF Keyed
<1>10. NoAliasDial'
  BY <1>1, <1>2, <1>5 DEF RouteInv, NoAliasDial
<1>11. RoutedAsConfigured'
  <2>1. Unambiguous' <=> Unambiguous
    BY <1>2 DEF Unambiguous
  <2>2. \A t \in Proc : pc[t] = "use" => hnd[t] \in Handle
    BY DEF PoolInv, Typed, HandleInUseIsOpen
  <2>3. \A t \in Proc : pc'[t] = "use" => pc[t] = "use" /\ conns'[hnd'[t]] = conns[hnd[t]]
    BY <1>4, <1>5, <2>2
  <2> QED
    BY <1>1, <1>2, <2>1, <2>3 DEF RouteInv, RoutedAsConfigured
<1> QED
  BY <1>6, <1>7, <1>8, <1>9, <1>10, <1>11 DEF RouteInv

\* The second critical section of AddDatabaseToPool.
LEMMA StoreRoute ==
    ASSUME PoolInv, RouteInv, EagerPool, NEW s \in Proc, Store(s) PROVE RouteInv'
<1> DEFINE d == GetURI(arg[s])
<1>0. /\ pc \in [Proc -> Label] /\ gp \in [Proc -> {"test", "create", "got"}]
      /\ p \in [Proc -> PoolId \cup {NoPool}] /\ hnd \in [Proc -> Handle \cup {NoHandle}]
      /\ arg[s] \in NameOrEmpty /\ d \in DSN
      /\ byDSN \in [PoolId -> [DSN -> Handle \cup {NoHandle}]] /\ Main \in PoolId
  BY URIType DEF PoolInv, Typed, PoolId
<1>1. /\ UNCHANGED <<conf, phase, nextURL, registered, pool, byName, curr, conns, arg>>
      /\ pc[s] = "store" /\ pc' = [pc EXCEPT ![s] = "use"]
      /\ gp' = [gp EXCEPT ![s] = "test"] /\ p' = [p EXCEPT ![s] = NoPool]
  BY DEF Store, StoreEnds, Goto, CallGetPool, start
<1>2. /\ Routed' <=> Routed
      /\ EagerPool' <=> EagerPool
      /\ URLs' = URLs /\ URLIndex' = URLIndex
      /\ \A n : GetURI(n)' = GetURI(n)
  BY <1>1, Configured
<1>3. phase = "serve" /\ p[s] = Main /\ pool = Main
  BY <1>1, ServesFromMain DEF PoolInv, HasPool
<1>4. /\ pc'[s] = "use" /\ gp'[s] = "test" /\ p'[s] = NoPool
      /\ \A t \in Proc \ {s} : pc'[t] = pc[t] /\ gp'[t] = gp[t] /\ p'[t] = p[t]
  BY <1>0, <1>1
<1>5. Quiet' /\ OnePool'
  <2>1. Main # NoPool
    BY DEF PoolId
  <2> QED
    BY <1>1, <1>2, <1>3, <1>4, <2>1 DEF RouteInv, Quiet, OnePool
<1>6. NoAliasDial'
  BY <1>1, <1>2, <1>4 DEF RouteInv, NoAliasDial
<1>7. Routed /\ arg[s] # Empty => byName[Main][arg[s]] = NoHandle
  BY <1>1 DEF RouteInv, NoAliasDial
<1>8. Routed => \A i \in registered : arg[s] # URLs[i].name
  <2>1. \A i \in registered : URLs[i].name \in Name
    BY URLType DEF PoolInv, Typed
  <2> QED
    BY <1>7, <2>1 DEF RouteInv, Aliases
<1>9. \A t \in Proc : GetURI(arg[t])' = GetURI(arg[t])
  BY <1>1 DEF GetURI
<1>10. RoutedAsConfigured'
  <2>1. \A i \in registered : Unambiguous => Routed
    BY DEF Routed, EagerPool, PoolInv, Typed, URLIndex
  <2>2. Unambiguous' <=> Unambiguous
    BY <1>2 DEF Unambiguous
  <2>3. \A t \in Proc \ {s} : hnd'[t] = hnd[t]
    BY <1>0 DEF Store
  <2> QED
    BY <1>1, <1>2, <1>4, <1>8, <2>1, <2>2, <2>3 DEF RouteInv, RoutedAsConfigured
<1>11. CASE byDSN[Main][d] # NoHandle
  <2>1. /\ UNCHANGED byDSN /\ live' = live \ {hnd[s]}
        /\ hnd' = [hnd EXCEPT ![s] = byDSN[Main][d]]
    BY <1>3, <1>11 DEF Store
  <2>2. \A t \in Proc \ {s} : hnd'[t] = hnd[t]
    BY <1>0, <2>1
  <2>3. Aliases' /\ OnlyURLs' /\ NotHidden'
    BY <1>1, <1>2, <2>1 DEF RouteInv, Aliases, OnlyURLs, NotHidden
  <2>4. Stocked'
    <3> SUFFICES ASSUME NEW g \in live, g # hnd[s], g \notin Pooled(Main)
                 PROVE  \E t \in Proc : pc'[t] = "store" /\ hnd'[t] = g
      BY <1>1, <2>1 DEF Stocked, Pooled
    <3>1. PICK t \in Proc : pc[t] = "store" /\ hnd[t] = g
      BY DEF RouteInv, Stocked
    <3> QED
      BY <1>4, <2>2, <3>1
  <2>5. Keyed'
    BY <1>1, <1>2, <1>4, <1>9, <2>1, <2>2 DEF RouteInv, Keyed
  <2> QED
    BY <1>5, <1>6, <1>10, <2>3, <2>4, <2>5 DEF RouteInv
<1>12. CASE byDSN[Main][d] = NoHandle
  <2>1. byDSN' = [byDSN EXCEPT ![Main][d] = hnd[s]] /\ UNCHANGED <<live, hnd>>
    BY <1>3, <1>12 DEF Store
  <2>2. \A e \in DSN : byDSN'[Main][e] = IF e = d THEN hnd[s] ELSE byDSN[Main][e]
    <3> HIDE DEF d
    <3> QED
      BY <1>0, <2>1
  <2>3. \A i \in registered : URLs[i].dsn \in DSN
    BY URLType DEF PoolInv, Typed
  <2>4. Aliases' /\ OnlyURLs'
    BY <1>1, <1>2, <1>3, <1>12, <2>2, <2>3 DEF RouteInv, Aliases, OnlyURLs
  <2>5. NotHidden'
    <3> SUFFICES ASSUME Routed, NEW n \in Name, byName[Main][n] # NoHandle
                 PROVE  byDSN'[Main][GetURI(n)] \in {NoHandle, byName[Main][n]}
      BY <1>1, <1>2 DEF NotHidden
    <3>1. GetURI(n) \in DSN
      BY URIType DEF NameOrEmpty
    <3>2. n # PGDatabase
      BY DefaultUnnamed DEF PoolInv, RouteInv
    <3>3. n # arg[s]
      BY <1>7
    <3>4. GetURI(n) # d
      BY <1>0, <3>2, <3>3, SharedURI
    <3> QED
      BY <2>2, <3>1, <3>4 DEF RouteInv, NotHidden
  <2>6. Stocked'
    <3> SUFFICES ASSUME NEW g \in live, g \notin Pooled(Main)'
                 PROVE  \E t \in Proc : pc'[t] = "store" /\ hnd'[t] = g
      BY <1>1, <2>1 DEF Stocked
    <3>1. g # hnd[s]
      BY <1>0, <2>2 DEF Pooled
    <3>2. g # NoHandle
      BY DEF PoolInv, Typed, Handle
    <3>3. g \notin Pooled(Main)
      BY <1>0, <1>1, <1>12, <2>2, <3>2 DEF Pooled
    <3>4. PICK t \in Proc : pc[t] = "store" /\ hnd[t] = g
      BY <3>3 DEF RouteInv, Stocked
    <3> QED
      BY <1>4, <2>1, <3>1, <3>4
  <2>7. Keyed'
    BY <1>1, <1>2, <1>4, <1>9, <2>1, <2>2 DEF RouteInv, Keyed
  <2> QED
    BY <1>5, <1>6, <1>10, <2>4, <2>5, <2>6, <2>7 DEF RouteInv
<1> QED
  BY <1>11, <1>12

\* A goroutine that saw no pool makes one, or stores in one that another made:
\* this happens only where start-up makes none, and nothing is claimed of the pools.
LEMMA LazyRoute ==
    ASSUME PoolInv, RouteInv, PoolInv', NEW s \in Proc, PoolCreate(s) \/ (Store(s) /\ ~EagerPool)
    PROVE  RouteInv'
<1>1. pc[s] # "idle" /\ UNCHANGED <<conf, phase, nextURL, registered>>
  BY DEF PoolCreate, CallsGetPool, Store, StoreEnds, start
<1>2. phase = "serve" /\ ~EagerPool
  BY <1>1, ServesFromMain DEF PoolCreate
<1>3. /\ ~Routed' /\ ~EagerPool' /\ URLs' = << >>
  <2>1. URLs' = URLs /\ (EagerPool' <=> EagerPool)
    BY <1>1, Configured
  <2> QED
    BY <1>2, <2>1 DEF Routed, EagerPool
<1>4. Quiet'
  BY <1>1, <1>2 DEF RouteInv, Quiet, URLs
<1>5. registered' = {}
  BY <1>3 DEF PoolInv, Typed, URLIndex
<1> QED
  BY <1>3, <1>4, <1>5 DEF RouteInv, OnePool, Stocked, Keyed, Aliases, OnlyURLs, NotHidden,
     NoAliasDial, RoutedAsConfigured

\* Every step of the system preserves the invariant.
LEMMA NextRoute == PoolInv /\ RouteInv /\ [Next]_vars => RouteInv'
<1> SUFFICES ASSUME PoolInv, RouteInv, [Next]_vars PROVE RouteInv'
  OBVIOUS
<1>1. PoolInv'
  BY NextInv
<1>2. ASSUME NEW s \in Proc, Step(s) PROVE RouteInv'
  BY <1>1, <1>2, LocalStepRoute, OpenOKRoute, StoreRoute, LazyRoute DEF Step
<1>3. CASE UNCHANGED vars
  <2>1. /\ Routed' <=> Routed
        /\ EagerPool' <=> EagerPool
        /\ URLs' = URLs /\ URLIndex' = URLIndex
        /\ \A n : GetURI(n)' = GetURI(n)
    BY <1>3, Configured DEF vars
  <2>2. Quiet' /\ OnePool' /\ Stocked'
    BY <1>3, <2>1 DEF vars, RouteInv, Quiet, OnePool, Stocked, Pooled
  <2>3. Keyed'
    BY <1>3, <2>1 DEF vars, RouteInv, Keyed, GetURI
  <2>4. Aliases' /\ OnlyURLs' /\ NotHidden' /\ NoAliasDial'
    BY <1>3, <2>1 DEF vars, RouteInv, Aliases, OnlyURLs, NotHidden, NoAliasDial
  <2>5. RoutedAsConfigured'
    <3>1. Unambiguous' <=> Unambiguous
      BY <2>1 DEF Unambiguous
    <3> QED
      BY <1>3, <2>1, <3>1 DEF vars, RouteInv, RoutedAsConfigured
  <2> QED
    BY <2>2, <2>3, <2>4, <2>5 DEF RouteInv
<1> QED
  BY <1>2, <1>3, RegisterURLRoute, LoadRoute, LoadSingleRoute, ArriveRoute DEF Next, Startup

\* The invariant of the routing holds throughout.
THEOREM RouteInvariance == Spec => [](PoolInv /\ RouteInv)
<1>1. Init => PoolInv /\ RouteInv
  BY InitInv, InitRoute
<1>2. PoolInv /\ RouteInv /\ [Next]_vars => PoolInv' /\ RouteInv'
  BY NextInv, NextRoute
<1> QED
  BY <1>1, <1>2, PTL DEF Spec

\* AddDatabaseToPool loses no connection where start-up made the pool: whatever
\* the number of goroutines that dial the same database at once, a handle that is
\* open is in the pool or still with the goroutine that dialled it.
THEOREM NoOrphans == Spec => []NoOrphan
<1>1. PoolInv /\ RouteInv => NoOrphan
  <2> SUFFICES ASSUME PoolInv, RouteInv, EagerPool, NEW h \in live
               PROVE  \/ pool # NoPool /\ h \in Pooled(pool)
                      \/ \E s \in Proc : pc[s] = "store" /\ hnd[s] = h
    BY DEF NoOrphan, DuplicatesClosed
  <2>1. pool = Main /\ Main # NoPool
    BY DEF RouteInv, OnePool, PoolId
  <2> QED
    BY <2>1 DEF RouteInv, Stocked
<1> QED
  BY <1>1, RouteInvariance, PTL

\* A request for an alias runs on the connection configured for it, for any list
\* of URLs without two uses of a name or DSN.
THEOREM RoutedRight == Spec => []RoutedAsConfigured
  BY RouteInvariance, PTL DEF RouteInv

-----------------------------------------------------------------------------
(***************************************************************************)
(* The refinement.                                                         *)
(***************************************************************************)

\* The pool starts as an open directory in which every name leads home.
LEMMA RefInit == Init => D!Init
<1> SUFFICES ASSUME Init PROVE D!Init
  OBVIOUS
<1>1. openBar = TRUE
  BY DEF Init, openBar
<1>2. toBar = [n \in NameOrEmpty |-> GetURI(n)]
  <2>1. \A n \in NameOrEmpty : Leads(n) = GetURI(n)
    BY DEF Init, Leads, NameOrEmpty, PoolId
  <2> QED
    BY <2>1 DEF toBar
<1>3. boundBar = [d \in DSN |-> NoHandle]
  BY DEF Init, boundBar, Connection, PoolId
<1>4. usingBar = [s \in Proc |-> [name |-> NoHandle, conn |-> NoHandle]]
  BY DEF Init, usingBar
<1> QED
  BY <1>1, <1>2, <1>3, <1>4 DEF D!Init, D!Idle

\* Where names lead and what is connected depends on the keys of main's pool and
\* on the log of the handles, which only grows.
LEMMA KeysKept ==
    ASSUME PoolInv, UNCHANGED <<conf, byDSN, byName>>, \A g \in Handle : conns'[g] = conns[g]
    PROVE  toBar' = toBar /\ boundBar' = boundBar
<1>1. /\ Routed' <=> Routed
      /\ \A n : GetURI(n)' = GetURI(n)
  BY Configured
<1>2. /\ \A d \in DSN : byDSN[Main][d] \in Handle \cup {NoHandle}
      /\ \A n \in Name : byName[Main][n] \in Handle \cup {NoHandle}
  BY DEF PoolInv, Typed, PoolId
<1>3. \A n \in NameOrEmpty : Leads(n)' = Leads(n)
  BY <1>1, <1>2 DEF Leads, NameOrEmpty
<1>4. \A d \in DSN : Connection(byDSN[Main][d])' = Connection(byDSN[Main][d])
  BY <1>2 DEF Connection
<1>5. toBar' = toBar
  BY <1>1, <1>3 DEF toBar
<1>6. boundBar' = boundBar
  BY <1>1, <1>4 DEF boundBar
<1> QED
  BY <1>5, <1>6

\* The connections in use are those of the requests in "use".
LEMMA UseKept ==
    ASSUME PoolInv, UNCHANGED conf, \A g \in Handle : conns'[g] = conns[g],
           \A t \in Proc : pc[t] = "use" <=> pc'[t] = "use",
           \A t \in Proc : pc[t] = "use" => arg'[t] = arg[t] /\ hnd'[t] = hnd[t]
    PROVE  usingBar' = usingBar
<1>1. Routed' <=> Routed
  BY Configured
<1>2. \A t \in Proc : pc[t] = "use" => Connection(hnd[t])' = Connection(hnd[t]) /\ arg'[t] = arg[t]
  BY DEF PoolInv, Typed, HandleInUseIsOpen, Connection
<1> QED
  BY <1>1, <1>2 DEF usingBar

\* The directory is open while URLs are registered.
LEMMA OpenKept ==
    ASSUME UNCHANGED conf, (phase = "register") <=> (phase' = "register")
    PROVE  openBar' = openBar
<1>1. Routed' <=> Routed
  BY Configured
<1> QED
  BY <1>1 DEF openBar

\* Where the configuration is ambiguous or no pool is made at start-up, the
\* directory never moves.
LEMMA Unpromised == ASSUME UNCHANGED conf, ~Routed PROVE UNCHANGED D!vars
<1>1. ~Routed'
  BY Configured
<1>2. \A n : GetURI(n)' = GetURI(n)
  BY Configured
<1>3. openBar' = openBar
  BY <1>1 DEF openBar
<1>4. toBar' = toBar
  BY <1>1, <1>2 DEF toBar
<1>5. boundBar' = boundBar
  BY <1>1 DEF boundBar
<1>6. usingBar' = usingBar
  BY <1>1 DEF usingBar
<1> QED
  BY <1>3, <1>4, <1>5, <1>6 DEF D!vars

\* A handle stored under a DSN that has none is a new connection to it.
LEMMA BindStep ==
    ASSUME PoolInv, Routed, UNCHANGED conf, \A g \in Handle : conns'[g] = conns[g],
           NEW d \in DSN, NEW h \in Nat, conns'[h] = d, byDSN[Main][d] = NoHandle,
           \A e \in DSN : byDSN[Main][e] # h,
           \A e \in DSN : byDSN'[Main][e] = IF e = d THEN h ELSE byDSN[Main][e]
    PROVE  D!Bind(d) /\ boundBar'[d] = <<h, d>>
<1>1. Routed'
  BY Configured
<1>2. \A e \in DSN : byDSN[Main][e] \in Handle \cup {NoHandle}
  BY DEF PoolInv, Typed, PoolId
<1>3. /\ boundBar = [e \in DSN |-> Connection(byDSN[Main][e])]
      /\ boundBar' = [e \in DSN |-> Connection(byDSN[Main][e])']
  BY <1>1 DEF boundBar
<1>4. boundBar'[d] = <<h, d>>
  BY <1>3 DEF Connection
<1>5. \A e \in DSN : e # d => boundBar'[e] = boundBar[e]
  BY <1>2, <1>3 DEF Connection
<1>6. boundBar' = [boundBar EXCEPT ![d] = boundBar'[d]]
  BY <1>3, <1>5
<1>7. boundBar[d] = NoHandle
  BY <1>3 DEF Connection
<1>8. <<h, d>> \in Nat \X DSN /\ <<h, d>>[2] = d /\ <<h, d>>[1] = h
  OBVIOUS
<1>9. ASSUME NEW e \in DSN PROVE boundBar[e] # <<h, d>>
  <2>1. CASE byDSN[Main][e] = NoHandle
    BY <1>3, <1>8, <2>1 DEF Connection
  <2>2. CASE byDSN[Main][e] # NoHandle
    <3>1. boundBar[e] = <<byDSN[Main][e], conns[byDSN[Main][e]]>>
      BY <1>3, <2>2 DEF Connection
    <3> QED
      BY <3>1
  <2> QED
    BY <2>1, <2>2
<1> QED
  BY <1>4, <1>6, <1>7, <1>8, <1>9 DEF D!Bind, D!Conn

\* registerExtraURLs takes the next URL: a name is registered, or the server of
\* the URL is down and nothing happens.
LEMMA RefRegister ==
    ASSUME PoolInv, RouteInv, Routed, RegisterURL PROVE [D!Next]_D!vars
<1> DEFINE u == URLs[nextURL]
           h == Len(conns) + 1
<1>0. /\ conf' = conf /\ phase = "register" /\ phase' = phase
      /\ nextURL \in URLIndex
      /\ UNCHANGED <<pc, gp, p, arg, qual, kind, hnd>>
  BY DEF RegisterURL, request
<1>1. u.name \in Name /\ u.name \in NameOrEmpty /\ u.dsn \in DSN /\ GetURI(u.name) \in DSN
      /\ u.name # Empty
  BY <1>0, URLType, URIType DEF PoolInv, NameOrEmpty
<1>2. openBar' = openBar /\ openBar
  BY <1>0, OpenKept DEF openBar
<1>3. CASE UNCHANGED <<byDSN, byName, conns, live>>
  <2>1. toBar' = toBar /\ boundBar' = boundBar
    BY <1>0, <1>3, KeysKept
  <2>2. usingBar' = usingBar
    BY <1>0, <1>3, UseKept
  <2> QED
    BY <1>2, <2>1, <2>2 DEF D!vars
<1>4. CASE AddURINew(u)
  <2>1. /\ h \in Nat /\ h \notin Handle
        /\ conns'[h] = u.dsn /\ \A g \in Handle : conns'[g] = conns[g]
        /\ byDSN[Main][u.dsn] = NoHandle /\ byName[Main][u.name] = NoHandle
        /\ \A e \in DSN : byDSN'[Main][e] = IF e = u.dsn THEN h ELSE byDSN[Main][e]
        /\ \A n \in Name : byName'[Main][n] = IF n = u.name THEN h ELSE byName[Main][n]
    BY <1>0, <1>4, AddURINewKeys
  <2>2. byDSN[Main][GetURI(u.name)] = NoHandle
    BY <1>0, URLFresh
  <2>3. usingBar' = usingBar
    BY <1>0, <2>1, UseKept
  <2>4. /\ \A e \in DSN : byDSN[Main][e] \in Handle \cup {NoHandle}
        /\ \A n \in Name : byName[Main][n] \in Handle \cup {NoHandle}
    BY DEF PoolInv, Typed, PoolId
  <2>5. D!Bind(u.dsn)
    BY <1>0, <1>1, <2>1, <2>4, BindStep
  <2>6. boundBar[toBar[u.name]] = NoHandle
    <3>1. toBar[u.name] = GetURI(u.name)
      BY <1>1, <2>1 DEF toBar, Leads
    <3> QED
      BY <1>1, <2>2, <3>1 DEF boundBar, Connection
  <2>7. toBar' = [toBar EXCEPT ![u.name] = u.dsn]
    <3>1. Routed' /\ \A n : GetURI(n)' = GetURI(n)
      BY <1>0, Configured
    <3>2. ASSUME NEW n \in NameOrEmpty
          PROVE  Leads(n)' = IF n = u.name THEN u.dsn ELSE Leads(n)
      <4>1. GetURI(n) \in DSN /\ h # NoHandle
        BY <2>1, URIType
      <4>2. CASE n = u.name
        BY <1>1, <2>1, <2>2, <3>1, <4>1, <4>2 DEF Leads
      <4>3. CASE n # u.name /\ (n = Empty \/ byName[Main][n] = NoHandle)
        BY <2>1, <3>1, <4>1, <4>3 DEF Leads, NameOrEmpty
      <4>4. CASE n # u.name /\ n \in Name /\ byName[Main][n] # NoHandle
        <5>1. PICK i \in registered : n = URLs[i].name
          BY <4>4 DEF RouteInv, Aliases
        <5>2. i \in URLIndex /\ i # nextURL
          BY <4>4, <5>1 DEF PoolInv, Typed
        <5>3. GetURI(n) # u.dsn
          BY <1>0, <5>1, <5>2 DEF Routed, Unambiguous
        <5> QED
          BY <2>1, <2>4, <3>1, <4>1, <4>4, <5>3 DEF Leads
      <4> QED
        BY <4>2, <4>3, <4>4 DEF NameOrEmpty
    <3>3. /\ toBar = [n \in NameOrEmpty |-> Leads(n)]
          /\ toBar' = [n \in NameOrEmpty |-> Leads(n)']
      BY <3>1 DEF toBar
    <3> QED
      BY <1>1, <3>2, <3>3
  <2> QED
    BY <1>1, <1>2, <2>3, <2>5, <2>6, <2>7 DEF D!Register, D!Next
<1> QED
  BY <1>3, <1>4 DEF RegisterURL, AddURIDone, AddURIExisting, AddURIFails

\* The end of the list closes the directory; Load leaves it alone unless it dials
\* the default database.
LEMMA RefLoad ==
    ASSUME PoolInv, RouteInv, Routed, RegistrationDone \/ LoadSingle \/ LoadFails \/ LoadMulti
    PROVE  [D!Next]_D!vars
<1>0. UNCHANGED conf /\ UNCHANGED <<byName, pc, arg, hnd>>
  BY DEF RegistrationDone, LoadSingle, LoadFails, LoadMulti, pools, request
<1>1. Routed' /\ \A n : GetURI(n)' = GetURI(n)
  BY <1>0, Configured
<1>2. CASE UNCHANGED <<byDSN, conns>>
  <2>1. toBar' = toBar /\ boundBar' = boundBar /\ usingBar' = usingBar
    BY <1>0, <1>2, KeysKept, UseKept
  <2>2. CASE RegistrationDone
    <3>1. phase = "register" /\ phase' = "load"
      BY <2>2 DEF RegistrationDone
    <3>2. openBar /\ openBar' = FALSE
      BY <1>1, <3>1 DEF openBar
    <3> QED
      BY <2>1, <3>2 DEF D!Next, D!Close
  <2>3. CASE ~RegistrationDone
    <3>1. phase # "register" /\ phase' # "register"
      BY <2>3 DEF LoadSingle, LoadFails, LoadMulti
    <3>2. openBar' = openBar
      BY <1>0, <3>1, OpenKept
    <3> QED
      BY <2>1, <3>2 DEF D!vars
  <2> QED
    BY <2>2, <2>3
<1>3. CASE LoadSingle /\ ~UNCHANGED <<byDSN, conns>>
  <2> DEFINE d == GetURI(PGDatabase)
             h == Len(conns) + 1
  <2>1. /\ phase = "load" /\ phase' = "serve" /\ Find(Main, PGDatabase) = NoHandle
        /\ conns' = Append(conns, d) /\ byDSN' = [byDSN EXCEPT ![Main][d] = h]
    BY <1>3 DEF LoadSingle, Open
  <2>2. /\ conns \in Seq(DSN) /\ Len(conns) \in Nat /\ h \in Nat /\ d \in DSN /\ Main \in PoolId
        /\ byDSN \in [PoolId -> [DSN -> Handle \cup {NoHandle}]]
    BY URIType DEF PoolInv, Typed, PoolId
  <2>3. conns'[h] = d /\ h \notin Handle /\ \A g \in Handle : conns'[g] = conns[g]
    BY <2>1, <2>2 DEF Handle
  <2>4. \A e \in DSN : byDSN'[Main][e] = IF e = d THEN h ELSE byDSN[Main][e]
    <3> HIDE DEF d, h
    <3> QED
      BY <2>1, <2>2
  <2>5. byDSN[Main][d] = NoHandle /\ \A e \in DSN : byDSN[Main][e] # h
    BY <2>1, <2>2, <2>3 DEF Find
  <2>6. D!Bind(d)
    BY <1>0, <2>2, <2>3, <2>4, <2>5, BindStep
  <2>7. usingBar' = usingBar
    BY <1>0, <2>3, UseKept
  <2>8. ~openBar /\ openBar' = openBar
    <3>1. ~openBar
      BY <2>1 DEF openBar
    <3>2. openBar' = openBar
      BY <1>0, <2>1, OpenKept
    <3> QED
      BY <3>1, <3>2
  <2>9. ASSUME NEW n \in NameOrEmpty PROVE Leads(n)' = Leads(n)
    <3>1. GetURI(n) \in DSN
      BY URIType
    <3>2. CASE n = Empty \/ byName[Main][n] = NoHandle
      BY <1>0, <1>1, <2>2, <2>4, <3>1, <3>2 DEF Leads
    <3>3. CASE n \in Name /\ byName[Main][n] # NoHandle
      <4>1. GetURI(n) # d
        BY <3>3, DefaultUnnamed, SharedURI DEF PoolInv, RouteInv
      <4>2. byName[Main][n] \in Handle
        BY <3>3 DEF PoolInv, Typed, PoolId
      <4> QED
        BY <1>0, <1>1, <2>3, <2>4, <3>1, <4>1, <4>2 DEF Leads
    <3> QED
      BY <3>2, <3>3 DEF NameOrEmpty
  <2>10. toBar' = toBar
    BY <1>1, <2>9 DEF toBar
  <2>11. toBar[PGDatabase] = d /\ PGDatabase \in NameOrEmpty
    <3>1. PGDatabase \in Name => byName[Main][PGDatabase] = NoHandle
      BY DefaultUnnamed DEF PoolInv, RouteInv
    <3> QED
      BY <3>1 DEF toBar, Leads, NameOrEmpty
  <2>12. D!Connect(PGDatabase)
    BY <2>6, <2>7, <2>8, <2>10, <2>11 DEF D!Connect
  <2> QED
    BY <2>11, <2>12 DEF D!Next
<1>4. LoadSingle \/ UNCHANGED <<byDSN, conns>>
  BY DEF RegistrationDone, LoadFails, LoadMulti, pools, handles
<1> QED
  BY <1>2, <1>3, <1>4

\* A request that gets a handle gets the connection its name leads to.
LEMMA AcquireStep ==
    ASSUME PoolInv, RouteInv, Routed, NEW s \in Proc,
           UNCHANGED <<conf, phase, conns, arg>>, pc[s] \notin {"idle", "use"}, pc'[s] = "use",
           \A t \in Proc \ {s} : pc'[t] = pc[t] /\ hnd'[t] = hnd[t],
           toBar' = toBar,
           \/ D!Bind(toBar[arg[s]])
           \/ boundBar[toBar[arg[s]]] # NoHandle /\ UNCHANGED boundBar,
           boundBar'[toBar[arg[s]]] = Connection(hnd'[s])
    PROVE  D!Next
<1>1. phase = "serve" /\ arg[s] \in NameOrEmpty
  BY ServesFromMain DEF PoolInv, Typed
<1>2. ~openBar /\ openBar' = openBar
  <2>1. ~openBar
    BY <1>1 DEF openBar
  <2>2. openBar' = openBar
    BY <1>1, OpenKept
  <2> QED
    BY <2>1, <2>2
<1>3. Routed'
  BY Configured
<1>4. usingBar[s] = D!Idle
  BY DEF usingBar, D!Idle
<1>5. \A t \in Proc : Connection(hnd[t])' = Connection(hnd'[t])
  BY DEF Connection
<1>6. usingBar' = [usingBar EXCEPT ![s] = [name |-> arg[s], conn |-> boundBar'[toBar[arg[s]]]]]
  <2>1. usingBar'[s] = [name |-> arg[s], conn |-> Connection(hnd'[s])]
    BY <1>3, <1>5 DEF usingBar
  <2>2. \A t \in Proc \ {s} : usingBar'[t] = usingBar[t]
    BY <1>3, <1>5 DEF usingBar
  <2>3. /\ usingBar = [t \in Proc |-> usingBar[t]]
        /\ usingBar' = [t \in Proc |-> usingBar'[t]]
    BY DEF usingBar
  <2> QED
    BY <2>1, <2>2, <2>3
<1>7. D!Acquire(s, arg[s])
  BY <1>2, <1>4, <1>6 DEF D!Acquire
<1> QED
  BY <1>1, <1>7 DEF D!Next

\* What getDatabaseFromPool finds is the connection of the name's destination.
LEMMA FindLeads ==
    ASSUME PoolInv, RouteInv, Routed, NEW n \in NameOrEmpty, Find(Main, n) # NoHandle
    PROVE  boundBar[toBar[n]] = Connection(Find(Main, n)) /\ Connection(Find(Main, n)) # NoHandle
<1>1. GetURI(n) \in DSN /\ toBar[n] = Leads(n)
  BY URIType DEF toBar
<1>2. \A d \in DSN : boundBar[d] = Connection(byDSN[Main][d])
  BY DEF boundBar
<1>3. Find(Main, n) \in Handle /\ Connection(Find(Main, n)) # NoHandle
  <2>1. Find(Main, n) \in Handle
    BY FindOpen DEF PoolId
  <2>2. Find(Main, n) \in Nat /\ conns[Find(Main, n)] \in DSN
    BY <2>1, ElementType DEF Handle, PoolInv, Typed
  <2>3. <<Find(Main, n), conns[Find(Main, n)]>> \in Nat \X DSN
    BY <2>2
  <2>4. Connection(Find(Main, n)) = <<Find(Main, n), conns[Find(Main, n)]>>
    BY DEF Connection
  <2> QED
    BY <2>1, <2>3, <2>4
<1>4. CASE byDSN[Main][GetURI(n)] # NoHandle
  BY <1>1, <1>2, <1>3, <1>4 DEF Find, Leads
<1>5. CASE byDSN[Main][GetURI(n)] = NoHandle
  <2>1. /\ n # Empty /\ n \in Name
        /\ Find(Main, n) = byName[Main][n] /\ Leads(n) = conns[byName[Main][n]]
    BY <1>5 DEF Find, Leads, NameOrEmpty
  <2>2. PICK i \in registered : n = URLs[i].name
    BY <2>1 DEF RouteInv, Aliases
  <2>3. conns[byName[Main][n]] = URLs[i].dsn /\ URLs[i].dsn \in DSN
    BY <2>2, FindAlias, URLType DEF PoolInv, Typed
  <2>4. byName[Main][n] = byDSN[Main][URLs[i].dsn]
    BY <2>2 DEF RouteInv, Aliases
  <2> QED
    BY <1>1, <1>2, <1>3, <2>1, <2>3, <2>4
<1> QED
  BY <1>4, <1>5

\* A step of one request that gets no handle and gives none back.
LEMMA Stutter ==
    ASSUME PoolInv, UNCHANGED <<conf, phase, byDSN, byName>>,
           \A g \in Handle : conns'[g] = conns[g],
           NEW s \in Proc, pc[s] # "use", pc'[s] # "use",
           \A t \in Proc \ {s} : pc'[t] = pc[t] /\ arg'[t] = arg[t] /\ hnd'[t] = hnd[t]
    PROVE  UNCHANGED D!vars
<1>1. toBar' = toBar /\ boundBar' = boundBar
  BY KeysKept
<1>2. openBar' = openBar
  BY OpenKept
<1>3. usingBar' = usingBar
  BY UseKept
<1> QED
  BY <1>1, <1>2, <1>3 DEF D!vars

\* The response is written: the connection is given back.
LEMMA RefUse ==
    ASSUME PoolInv, RouteInv, Routed, NEW s \in Proc, Use(s) PROVE [D!Next]_D!vars
<1>0. /\ UNCHANGED <<conf, phase, byDSN, byName, conns>>
      /\ pc[s] = "use" /\ Finish(s)
  BY DEF Use, start, pools, handles
<1>1. /\ pc'[s] = "idle"
      /\ \A t \in Proc \ {s} : pc'[t] = pc[t] /\ arg'[t] = arg[t] /\ hnd'[t] = hnd[t]
  BY <1>0 DEF Finish, Goto, PoolInv, Typed
<1>2. Routed'
  BY <1>0, Configured
<1>3. toBar' = toBar /\ boundBar' = boundBar
  BY <1>0, KeysKept
<1>4. openBar' = openBar
  BY <1>0, OpenKept
<1>5. usingBar[s] # D!Idle
  <2>1. hnd[s] \in Handle
    BY <1>0 DEF PoolInv, Typed, HandleInUseIsOpen
  <2>2. hnd[s] \in Nat /\ hnd[s] # NoHandle /\ conns[hnd[s]] \in DSN
    BY <2>1, ElementType DEF Handle, PoolInv, Typed
  <2>3. <<hnd[s], conns[hnd[s]]>> \in Nat \X DSN
    BY <2>2
  <2>4. Connection(hnd[s]) # NoHandle
    BY <2>2, <2>3 DEF Connection
  <2>5. usingBar[s].conn = Connection(hnd[s])
    BY <1>0 DEF usingBar
  <2>6. D!Idle.conn = NoHandle
    BY DEF D!Idle
  <2> QED
    BY <2>4, <2>5, <2>6
<1>6. usingBar' = [usingBar EXCEPT ![s] = D!Idle]
  <2>1. usingBar'[s] = D!Idle
    BY <1>1 DEF usingBar, D!Idle
  <2>2. \A t \in Proc \ {s} : Connection(hnd[t])' = Connection(hnd[t])
    BY <1>0, <1>1 DEF Connection
  <2>3. \A t \in Proc \ {s} : usingBar'[t] = usingBar[t]
    BY <1>1, <1>2, <2>2 DEF usingBar
  <2>4. /\ usingBar = [t \in Proc |-> usingBar[t]]
        /\ usingBar' = [t \in Proc |-> usingBar'[t]]
    BY DEF usingBar
  <2> QED
    BY <2>1, <2>3, <2>4
<1>7. D!Release(s)
  BY <1>3, <1>4, <1>5, <1>6 DEF D!Release
<1> QED
  BY <1>7 DEF D!Next

\* The look-ups that hit, and the first critical section of AddDatabaseToPool.
LEMMA RefLookup ==
    ASSUME PoolInv, RouteInv, Routed, NEW s \in Proc, LookupHit(s) \/ AddFast(s)
    PROVE  [D!Next]_D!vars
<1>0. /\ UNCHANGED <<conf, phase, byDSN, byName, conns, arg>>
      /\ pc[s] \in {"lookup", "add"} /\ gp[s] = "got"
      /\ pc \in [Proc -> Label] /\ hnd \in [Proc -> Handle \cup {NoHandle}]
      /\ arg[s] \in NameOrEmpty
  BY DEF LookupHit, AddFast, start, pools, handles, PoolInv, Typed
<1>1. p[s] = Main
  BY <1>0, ServesFromMain DEF Routed, PoolInv, HasPool
<1>2. toBar' = toBar /\ boundBar' = boundBar
  BY <1>0, KeysKept
<1>3. CASE Find(Main, arg[s]) # NoHandle /\ pc' = [pc EXCEPT ![s] = "use"]
           /\ hnd' = [hnd EXCEPT ![s] = Find(Main, arg[s])]
  <2>1. /\ pc'[s] = "use" /\ hnd'[s] = Find(Main, arg[s])
        /\ \A t \in Proc \ {s} : pc'[t] = pc[t] /\ hnd'[t] = hnd[t]
    BY <1>0, <1>3
  <2>2. /\ boundBar[toBar[arg[s]]] = Connection(Find(Main, arg[s]))
        /\ boundBar[toBar[arg[s]]] # NoHandle
    BY <1>0, <1>3, FindLeads
  <2> QED
    BY <1>0, <1>2, <2>1, <2>2, AcquireStep
<1>4. CASE pc' = [pc EXCEPT ![s] = "open"] /\ hnd' = hnd
  BY <1>0, <1>4, Stutter
<1>5. CASE LookupHit(s)
  BY <1>1, <1>3, <1>5 DEF LookupHit, Goto
<1>6. CASE AddFast(s)
  <2>1. CASE byDSN[Main][GetURI(arg[s])] # NoHandle
    BY <1>1, <1>3, <1>6, <2>1 DEF AddFast, Goto, Find
  <2>2. CASE byDSN[Main][GetURI(arg[s])] = NoHandle
    BY <1>1, <1>4, <1>6, <2>2 DEF AddFast, Goto
  <2> QED
    BY <2>1, <2>2
<1> QED
  BY <1>5, <1>6

\* The second critical section: the winner binds the destination to the handle it
\* dialled, the loser takes what is bound.
LEMMA RefStore ==
    ASSUME PoolInv, RouteInv, Routed, NEW s \in Proc, Store(s) PROVE [D!Next]_D!vars
<1> DEFINE d == GetURI(arg[s])
<1>0. /\ UNCHANGED <<conf, phase, byName, conns, arg>>
      /\ pc[s] = "store" /\ pc' = [pc EXCEPT ![s] = "use"]
      /\ pc \in [Proc -> Label] /\ hnd \in [Proc -> Handle \cup {NoHandle}]
      /\ arg[s] \in NameOrEmpty /\ d \in DSN /\ Main \in PoolId
      /\ byDSN \in [PoolId -> [DSN -> Handle \cup {NoHandle}]]
  BY URIType DEF Store, StoreEnds, Goto, start, PoolInv, Typed, PoolId
<1>1. p[s] = Main
  BY <1>0, ServesFromMain DEF Routed, PoolInv, HasPool
<1>2. /\ pc'[s] = "use" /\ \A t \in Proc \ {s} : pc'[t] = pc[t] /\ hnd'[t] = hnd[t]
  BY <1>0 DEF Store
<1>3. CASE byDSN[Main][d] # NoHandle
  <2>1. UNCHANGED byDSN /\ hnd'[s] = byDSN[Main][d]
    BY <1>0, <1>1, <1>3 DEF Store
  <2>2. toBar' = toBar /\ boundBar' = boundBar
    BY <1>0, <2>1, KeysKept
  <2>3. Find(Main, arg[s]) = byDSN[Main][d]
    BY <1>3 DEF Find
  <2>4. /\ boundBar[toBar[arg[s]]] = Connection(byDSN[Main][d])
        /\ boundBar[toBar[arg[s]]] # NoHandle
    BY <1>0, <1>3, <2>3, FindLeads
  <2> QED
    BY <1>0, <1>2, <2>1, <2>2, <2>4, AcquireStep
<1>4. CASE byDSN[Main][d] = NoHandle
  <2>1. byDSN' = [byDSN EXCEPT ![Main][d] = hnd[s]] /\ hnd' = hnd
    BY <1>1, <1>4 DEF Store
  <2>2. \A e \in DSN : byDSN'[Main][e] = IF e = d THEN hnd[s] ELSE byDSN[Main][e]
    <3> HIDE DEF d
    <3> QED
      BY <1>0, <2>1
  <2>3. /\ hnd[s] \in Nat /\ hnd[s] # NoHandle /\ conns[hnd[s]] = d
        /\ \A e \in DSN : byDSN[Main][e] # hnd[s]
    <3>1. hnd[s] \in live /\ \A e \in DSN : byDSN[Main][e] # hnd[s]
      BY <1>0 DEF PoolInv, DialledPrivate
    <3>2. hnd[s] \in Nat
      <4>1. live \subseteq Nat
        BY DEF PoolInv, Typed, Handle
      <4> QED
        BY <3>1, <4>1
    <3>3. conns[hnd[s]] = d
      BY <1>0 DEF RouteInv, Keyed
    <3> QED
      BY <3>1, <3>2, <3>3
  <2>4. D!Bind(d) /\ boundBar'[d] = <<hnd[s], d>>
    BY <1>0, <1>4, <2>2, <2>3, BindStep
  <2>5. Routed' /\ \A n : GetURI(n)' = GetURI(n)
    BY <1>0, Configured
  <2>6. arg[s] = Empty \/ byName[Main][arg[s]] = NoHandle
    BY <1>0 DEF RouteInv, NoAliasDial
  <2>7. ASSUME NEW n \in NameOrEmpty PROVE Leads(n)' = Leads(n)
    <3>1. GetURI(n) \in DSN
      BY URIType
    <3>2. CASE n = Empty \/ byName[Main][n] = NoHandle
      BY <1>0, <2>2, <2>5, <3>1, <3>2 DEF Leads
    <3>3. CASE n \in Name /\ byName[Main][n] # NoHandle
      <4>1. n # PGDatabase /\ n # arg[s]
        BY <2>6, <3>3, DefaultUnnamed DEF PoolInv, RouteInv
      <4>2. GetURI(n) # d
        BY <1>0, <3>3, <4>1, SharedURI
      <4> QED
        BY <1>0, <2>2, <2>5, <3>1, <4>2 DEF Leads
    <3> QED
      BY <3>2, <3>3 DEF NameOrEmpty
  <2>8. toBar' = toBar
    BY <2>5, <2>7 DEF toBar
  <2>9. toBar[arg[s]] = d
    BY <1>0, <2>6 DEF toBar, Leads
  <2>10. Connection(hnd'[s]) = <<hnd[s], d>>
    BY <2>1, <2>3 DEF Connection
  <2> QED
    BY <1>0, <1>2, <2>4, <2>8, <2>9, <2>10, AcquireStep
<1> QED
  BY <1>3, <1>4

\* Every other step of a request leaves the directory as it is.
LEMMA RefLocal ==
    ASSUME PoolInv, RouteInv, Routed, NEW s \in Proc,
           \/ Arrive(s)
           \/ SetDatabase(s) \/ ScriptFails(s) \/ PoolTest(s) \/ Resolve(s) \/ BuildFails(s)
           \/ LookupMiss(s) \/ Reread(s) \/ OpenOK(s) \/ OpenFails(s)
    PROVE  UNCHANGED D!vars
<1>0. /\ pc \in [Proc -> Label] /\ arg \in [Proc -> NameOrEmpty]
      /\ hnd \in [Proc -> Handle \cup {NoHandle}]
      /\ conns \in Seq(DSN) /\ GetURI(arg[s]) \in DSN
  BY URIType DEF PoolInv, Typed
<1>1. CASE Arrive(s)
  <2>1. \E k, l, n : Begin(s, k, n, l) /\ l # "use"
    BY <1>1 DEF Arrive, TableRequest, PlainRequest, CurrentRequest,
       SelectFromTables, InsertInTables, DeleteFromTable, UpdateTable, BatchInsertInTables,
       GetTablesByDatabaseAndSchema, ShowTable, GetDatabases, GetSchemas, GetTables,
       CheckDBHealth, ExecuteFromScripts
  <2>2. PICK k, l, n : Begin(s, k, n, l) /\ l # "use"
    BY <2>1
  <2>3. /\ UNCHANGED <<conf, phase, byDSN, byName, conns>>
        /\ pc[s] # "use" /\ pc'[s] # "use"
        /\ \A t \in Proc \ {s} : pc'[t] = pc[t] /\ arg'[t] = arg[t] /\ hnd'[t] = hnd[t]
    BY <1>0, <2>2 DEF Begin, Goto, start, pools, handles
  <2> QED
    BY <2>3, Stutter
<1>2. CASE \/ SetDatabase(s) \/ PoolTest(s) \/ Resolve(s) \/ LookupMiss(s) \/ Reread(s)
  <2>1. /\ UNCHANGED <<conf, phase, byDSN, byName, conns>>
        /\ pc[s] # "use" /\ pc'[s] # "use"
        /\ \A t \in Proc \ {s} : pc'[t] = pc[t] /\ arg'[t] = arg[t] /\ hnd'[t] = hnd[t]
    BY <1>0, <1>2 DEF SetDatabase, PoolTest, Resolve, LookupMiss, Reread, Goto,
       CallsGetPool, start, pools, handles
  <2> QED
    BY <2>1, Stutter
<1>3. CASE ScriptFails(s) \/ BuildFails(s) \/ OpenFails(s)
  <2>1. /\ UNCHANGED <<conf, phase, byDSN, byName, conns>>
        /\ pc[s] # "use" /\ Finish(s)
    BY <1>3 DEF ScriptFails, BuildFails, OpenFails, start, pools, handles
  <2>2. /\ pc'[s] # "use"
        /\ \A t \in Proc \ {s} : pc'[t] = pc[t] /\ arg'[t] = arg[t] /\ hnd'[t] = hnd[t]
    BY <1>0, <2>1 DEF Finish, Goto
  <2> QED
    BY <2>1, <2>2, Stutter
<1>4. CASE OpenOK(s)
  <2>1. /\ UNCHANGED <<conf, phase, byDSN, byName>>
        /\ \A g \in Handle : conns'[g] = conns[g]
        /\ pc[s] # "use" /\ pc'[s] # "use"
        /\ \A t \in Proc \ {s} : pc'[t] = pc[t] /\ arg'[t] = arg[t] /\ hnd'[t] = hnd[t]
    BY <1>0, <1>4 DEF OpenOK, Open, Goto, Handle, start, pools
  <2> QED
    BY <2>1, Stutter
<1> QED
  BY <1>1, <1>2, <1>3, <1>4

\* Every step of the pool is a step of the directory or leaves it alone.
LEMMA RefNext == PoolInv /\ RouteInv /\ [Next]_vars => [D!Next]_D!vars
<1> SUFFICES ASSUME PoolInv, RouteInv, [Next]_vars PROVE [D!Next]_D!vars
  OBVIOUS
<1>1. UNCHANGED conf
  <2>1. CASE Startup
    BY <2>1 DEF Startup, RegisterURL, RegistrationDone, LoadSingle, LoadFails, LoadMulti
  <2>2. ASSUME NEW s \in Proc, Arrive(s) PROVE UNCHANGED conf
    BY <2>2 DEF Arrive, Begin, TableRequest, PlainRequest, CurrentRequest,
       SelectFromTables, InsertInTables, DeleteFromTable, UpdateTable, BatchInsertInTables,
       GetTablesByDatabaseAndSchema, ShowTable, GetDatabases, GetSchemas, GetTables,
       CheckDBHealth, ExecuteFromScripts, start
  <2>3. ASSUME NEW s \in Proc, Step(s) PROVE UNCHANGED conf
    BY <2>3 DEF Step, SetDatabase, ScriptFails, PoolTest, PoolCreate, Resolve, BuildFails,
       LookupHit, LookupMiss, Reread, AddFast, OpenOK, OpenFails, Store, StoreEnds, Use, start
  <2> QED
    BY <2>1, <2>2, <2>3 DEF Next, vars
<1>2. CASE ~Routed
  BY <1>1, <1>2, Unpromised
<1>3. CASE Routed
  <2>1. ASSUME NEW s \in Proc, Arrive(s) \/ Step(s) PROVE [D!Next]_D!vars
    <3>1. ~PoolCreate(s)
      BY <1>3, ServesFromMain DEF PoolCreate, CallsGetPool, Routed
    <3> QED
      BY <1>3, <2>1, <3>1, RefLocal, RefLookup, RefStore, RefUse DEF Step
  <2>2. CASE UNCHANGED vars
    <3>1. toBar' = toBar /\ boundBar' = boundBar /\ usingBar' = usingBar
      BY <2>2, KeysKept, UseKept DEF vars
    <3>2. openBar' = openBar
      BY <2>2, OpenKept DEF vars
    <3> QED
      BY <3>1, <3>2 DEF D!vars
  <2> QED
    BY <1>3, <2>1, <2>2, RefRegister, RefLoad DEF Next, Startup
<1> QED
  BY <1>2, <1>3

\* The pool implements Directory: with two keys per connection, dials outside the
\* lock, losers that close their handle and scripts that write the current name,
\* a name still leads to one connection for the life of the process, no two
\* destinations share one, and a request gets the one its name leads to.
THEOREM Refinement == Spec => ImplementsDirectory
  BY RouteInvariance, RefInit, RefNext, PTL DEF Spec, ImplementsDirectory, D!Spec
=============================================================================
