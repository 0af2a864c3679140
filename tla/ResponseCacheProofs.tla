------------------------ MODULE ResponseCacheProofs ------------------------
(***************************************************************************)
(* Theorems about ResponseCache for any URLs, files, callers, goroutines,  *)
(* numbers of writes and settings, restarts with another one included.     *)
(***************************************************************************)
EXTENDS ResponseCache, NumberLemmas

\* What an entry under u may be: no listing is ever stored, and what is stored
\* for a table or a script is the answer to a GET of u.
Cacheable(u, a) ==
    /\ Route[u] # "catalog"
    /\ Route[u] \in {"table", "script"} => a.url = u /\ a.method = "GET"

\* Every entry of a file is one.
AllCacheable(file) == \A u \in DOMAIN file : file[u] # NoEntry => Cacheable(u, file[u].val)

\* The entries of the files are, now and as the goroutines with an open file saw them.
EntriesRead == AllCacheable(store)
PastRead == \A s \in Proc : past[s] # NoFile => AllCacheable(past[s])

\* So is every answer on its way into a file, and it has its request's method.
AnswersRead ==
    \A s \in Proc : pc[s] \in {"set", "write"} =>
        /\ Cacheable(req[s].url, ans[s])
        /\ ans[s].method = req[s].method

\* The database never goes back.
SeenBehind == \A s \in Proc : pc[s] # "idle" => req[s].seen <= version

\* A plugin is only called after the variables of some request were put into it.
PluginReady ==
    \A s \in Proc : pc[s] = "call" => plugged \in URL /\ Route[req[s].url] = "plugin"

\* What exposure lets through.
Shown(u) == Prefix[u] # "none" /\ conf.expose.enabled => conf.expose[Prefix[u]]

\* No request for a hidden listing gets past the exposure middleware.
ListingExposed ==
    \A s \in Proc : pc[s] # "idle" => Shown(req[s].url)

Safe == HitIsSameRead /\ WritesCommit /\ HiddenListings

\* The inductive invariant.
CacheInv ==
    /\ TypeOK
    /\ EntriesRead
    /\ PastRead
    /\ AnswersRead
    /\ SeenBehind
    /\ PluginReady
    /\ ListingExposed
    /\ Safe

USE RoutesAssumption, BoundAssumption, SettingsAssumption

\* The time to live that EndpointRules gives is one of the configured ones: the
\* loop over cache.endpoints ends at an entry for the path or passes them all.
LEMMA TimeBounded ==
    ASSUME conf \in Settings, NEW path PROVE EndpointTime(path) \in 0 .. MaxTime
<1>1. CASE RulesFor(path) = {}
  BY <1>1 DEF EndpointTime
<1>2. CASE RulesFor(path) # {}
  <2>1. /\ RulesFor(path) \subseteq DOMAIN conf.endpoints
        /\ DOMAIN conf.endpoints = 1 .. Len(conf.endpoints) /\ Len(conf.endpoints) \in Nat
    BY DEF RulesFor, IsList
  <2>2. RulesFor(path) \subseteq Nat
    BY <2>1
  <2>3. Min(RulesFor(path)) \in RulesFor(path)
    BY <1>2, <2>2, MinMember
  <2>4. \A i \in DOMAIN conf.endpoints : conf.endpoints[i].time \in 0 .. MaxTime
    OBVIOUS
  <2> QED
    BY <1>2, <2>1, <2>3, <2>4 DEF EndpointTime
<1> QED
  BY <1>1, <1>2

\* The elements of a list have the type of its elements.
LEMMA RangeTyped == ASSUME NEW S, NEW q \in Seq(S) PROVE Range(q) \subseteq S
  BY DEF Range

\* The columns that fieldsByPermission allows are columns.
LEMMA AllowedColumns ==
    ASSUME conf \in Settings, NEW t, NEW op PROVE fieldsByPermission(t, op) \subseteq Column
<1> DEFINE entries == {i \in DOMAIN conf.tables :
                          conf.tables[i].name = t /\ op \in conf.tables[i].permissions}
<1>1. CASE entries = {}
  BY <1>1 DEF fieldsByPermission
<1>2. CASE entries # {}
  <2>1. /\ DOMAIN conf.tables = 1 .. Len(conf.tables) /\ Len(conf.tables) \in Nat
        /\ \A i \in DOMAIN conf.tables : conf.tables[i].fields \in Seq(Column)
    BY DEF IsList
  <2>2. entries \subseteq 0 .. Len(conf.tables) /\ entries \subseteq DOMAIN conf.tables
    BY <2>1
  <2>3. Max(entries) \in entries
    <3> HIDE DEF entries
    <3> QED
      BY <1>2, <2>1, <2>2, MaxMember
  <2>4. conf.tables[Max(entries)].fields \in Seq(Column)
    BY <2>1, <2>2, <2>3
  <2>5. Range(conf.tables[Max(entries)].fields) \subseteq Column
    BY <2>4, RangeTyped
  <2>6. fieldsByPermission(t, op) = Range(conf.tables[Max(entries)].fields)
    BY <1>2 DEF fieldsByPermission
  <2> QED
    BY <2>5, <2>6
<1> QED
  BY <1>1, <1>2

\* So are those of FieldsPermissions.
LEMMA PermittedColumns ==
    ASSUME conf \in Settings, NEW u \in URL, NEW op
    PROVE  FieldsPermissions(u, op) \subseteq Column
<1>1. Range(Selected[u]) \subseteq Column
  BY RangeTyped
<1>2. fieldsByPermission(Table[u], op) \subseteq Column
  BY AllowedColumns
<1> QED
  BY <1>1, <1>2 DEF FieldsPermissions

\* And those of the statement.
LEMMA SelectTyped ==
    ASSUME conf \in Settings, NEW u \in URL PROVE SelectColumns(u) \subseteq Column
<1>1. Range(Selected[u]) \subseteq Column
  BY RangeTyped
<1> QED
  BY <1>1, PermittedColumns DEF SelectColumns

\* An answer made for a request has its type.
LEMMA AnswerTyped ==
    ASSUME version \in 0 .. MaxVersion, NEW r \in Request, NEW u \in URL,
           NEW fields \in SUBSET Column, NEW who \in Caller \cup {Nobody}
    PROVE  /\ Answer(r, u, fields, who) \in AnswerType
           /\ Answer(r, u, fields, who).url = u
           /\ Answer(r, u, fields, who).method = r.method
  BY DEF Answer, AnswerType, Request

\* An entry holds what was stored and never more time than the longest setting.
LEMMA EntryTyped ==
    ASSUME NEW v \in AnswerType, NEW t \in 0 .. MaxTime
    PROVE  /\ Entry(v, t) \in EntryType \cup {NoEntry}
           /\ Entry(v, t) # NoEntry => Entry(v, t).val = v
  BY DEF Entry, EntryType

\* At the start the cache is empty and nothing runs.
LEMMA InitCache == Init => CacheInv
<1> SUFFICES ASSUME Init PROVE CacheInv
  OBVIOUS
<1>1. 0 \in 0 .. MaxVersion
  OBVIOUS
<1>2. TypeOK
  BY <1>1 DEF Init, TypeOK
<1>3. EntriesRead /\ PastRead /\ AnswersRead /\ SeenBehind /\ PluginReady /\ ListingExposed
  BY DEF Init, EntriesRead, PastRead, AllCacheable, AnswersRead, SeenBehind, PluginReady, ListingExposed
<1>4. Safe
  BY DEF Init, Safe, HitIsSameRead, WritesCommit, HiddenListings, Answered
<1> QED
  BY <1>2, <1>3, <1>4 DEF CacheInv

\* Without a reply there is nothing to say about it.
LEMMA Silent == ASSUME reply' = NoReply PROVE Safe'
  BY DEF Safe, HitIsSameRead, WritesCommit, HiddenListings, Answered

\* What a reply must satisfy.
LEMMA Replied ==
    ASSUME conf' = conf, NEW r, NEW ok \in BOOLEAN, NEW hit \in BOOLEAN, NEW a,
           reply' = [req |-> r, ok |-> ok, hit |-> hit, ans |-> a],
           ok /\ hit /\ Route[r.url] \in {"table", "script"} => a.url = r.url /\ a.method = "GET",
           ok /\ r.method = "POST" /\ Route[r.url] \in {"table", "script"} => version' > r.seen,
           ok /\ Route[r.url] = "catalog" => Shown(r.url)
    PROVE  Safe'
<1>1. reply'.req = r /\ reply'.ok = ok /\ reply'.hit = hit /\ reply'.ans = a
  OBVIOUS
<1>2. HitIsSameRead'
  BY <1>1 DEF HitIsSameRead, Answered
<1>3. WritesCommit'
  BY <1>1 DEF WritesCommit, Answered
<1>4. HiddenListings'
  BY <1>1 DEF HiddenListings, Answered, Shown
<1> QED
  BY <1>2, <1>3, <1>4 DEF Safe

\* What the goroutines with an open file know, when s is not or no longer one.
PastOf(t) ==
    /\ pc[t] = "write"
    /\ past'[t] \in [Filed(t) -> EntryType \cup {NoEntry}]
    /\ AllCacheable(past'[t])
PastAfter(s) == past'[s] = NoFile /\ \A t \in Proc \ {s} : past'[t] # NoFile => PastOf(t)

\* A step that is not a write leaves it as it is.
LEMMA PastKept ==
    ASSUME CacheInv, NEW s \in Proc, pc[s] # "write", UNCHANGED past PROVE PastAfter(s)
  BY DEF CacheInv, TypeOK, PastRead, PastAfter, PastOf

\* When s has moved on, it is so again.
LEMMA PastInv ==
    ASSUME NEW s \in Proc, PastAfter(s),
           \A t \in Proc \ {s} : pc'[t] = pc[t] /\ req'[t] = req[t]
    PROVE  /\ PastRead'
           /\ \A t \in Proc : past'[t] # NoFile =>
                 /\ pc'[t] = "write"
                 /\ past'[t] \in [Filed(t)' -> EntryType \cup {NoEntry}]
<1> SUFFICES ASSUME NEW t \in Proc, past'[t] # NoFile
             PROVE  /\ AllCacheable(past'[t]) /\ pc'[t] = "write"
                    /\ past'[t] \in [Filed(t)' -> EntryType \cup {NoEntry}]
  BY DEF PastRead, AllCacheable, Cacheable
<1>1. t # s
  BY DEF PastAfter
<1>2. Filed(t)' = Filed(t)
  BY <1>1 DEF Filed
<1> QED
  BY <1>1, <1>2 DEF PastAfter, PastOf

\* A request goes on to another step.
LEMMA GotoInv ==
    ASSUME CacheInv, NEW s \in Proc, pc[s] # "write", NEW l \in {"chain", "handle", "call", "set", "write"},
           NEW r \in Request, NEW a \in AnswerType \cup {NoAnswer}, Goto(s, l, r, a),
           UNCHANGED <<conf, work, version, store, broken, past>>,
           plugged' = plugged \/ plugged' \in URL,
           r.seen <= version,
           Shown(r.url),
           l = "call" => plugged' \in URL /\ Route[r.url] = "plugin",
           l \in {"set", "write"} =>
              /\ a \in AnswerType
              /\ Cacheable(r.url, a) /\ a.method = r.method
    PROVE  CacheInv'
<1>1. /\ pc' = [pc EXCEPT ![s] = l] /\ req' = [req EXCEPT ![s] = r]
      /\ ans' = [ans EXCEPT ![s] = a] /\ reply' = NoReply
  BY DEF Goto
<1>2. TypeOK
  BY DEF CacheInv
<1>3. /\ pc'[s] = l /\ req'[s] = r /\ ans'[s] = a
      /\ \A t \in Proc \ {s} : pc'[t] = pc[t] /\ req'[t] = req[t] /\ ans'[t] = ans[t]
  BY <1>1, <1>2 DEF TypeOK
<1>4. TypeOK'
  <2>1. /\ pc' \in [Proc -> {"idle", "chain", "handle", "call", "set", "write"}]
        /\ req' \in [Proc -> Request \cup {NoRequest}]
        /\ ans' \in [Proc -> AnswerType \cup {NoAnswer}]
    BY <1>1, <1>2 DEF TypeOK
  <2>2. \A t \in Proc :
          /\ pc'[t] # "idle" => req'[t] \in Request
          /\ pc'[t] \in {"set", "write"} => ans'[t] \in AnswerType
    BY <1>2, <1>3 DEF TypeOK
  <2>3. plugged' \in URL \cup {NoRequest}
    BY <1>2 DEF TypeOK
  <2>4. \A t \in Proc : past'[t] # NoFile =>
          /\ pc'[t] = "write"
          /\ past'[t] \in [Filed(t)' -> EntryType \cup {NoEntry}]
    BY <1>3, PastKept, PastInv
  <2> QED
    BY <1>1, <1>2, <2>1, <2>2, <2>3, <2>4 DEF TypeOK
<1>5. EntriesRead' /\ PastRead'
  <2>1. EntriesRead'
    BY DEF CacheInv, EntriesRead, AllCacheable, Cacheable
  <2>2. PastRead'
    BY <1>3, PastKept, PastInv
  <2> QED
    BY <2>1, <2>2
<1>6. AnswersRead'
  BY <1>3 DEF CacheInv, AnswersRead, Cacheable
<1>7. SeenBehind' /\ PluginReady' /\ ListingExposed'
  <2>1. SeenBehind'
    BY <1>3 DEF CacheInv, SeenBehind
  <2>2. PluginReady'
    BY <1>3 DEF CacheInv, PluginReady
  <2>3. ListingExposed'
    BY <1>3 DEF CacheInv, ListingExposed, Shown
  <2> QED
    BY <2>1, <2>2, <2>3
<1>8. Safe'
  BY <1>1, Silent
<1> QED
  BY <1>4, <1>5, <1>6, <1>7, <1>8 DEF CacheInv

\* A request gets its reply.
LEMMA SendInv ==
    ASSUME CacheInv, NEW s \in Proc, NEW r \in Request, NEW ok \in BOOLEAN, NEW hit \in BOOLEAN,
           NEW a \in AnswerType \cup {NoAnswer}, Send(s, r, ok, hit, a),
           UNCHANGED <<conf, work, plugged>>,
           version' \in 0 .. MaxVersion, version <= version',
           store' \in [URL -> EntryType \cup {NoEntry}], EntriesRead',
           broken' \subseteq Range(File), PastAfter(s),
           Safe'
    PROVE  CacheInv'
<1>1. /\ pc' = [pc EXCEPT ![s] = "idle"] /\ req' = [req EXCEPT ![s] = NoRequest]
      /\ ans' = [ans EXCEPT ![s] = NoAnswer]
      /\ reply' = [req |-> r, ok |-> ok, hit |-> hit, ans |-> a]
  BY DEF Send
<1>2. TypeOK
  BY DEF CacheInv
<1>3. /\ pc'[s] = "idle"
      /\ \A t \in Proc \ {s} : pc'[t] = pc[t] /\ req'[t] = req[t] /\ ans'[t] = ans[t]
  BY <1>1, <1>2 DEF TypeOK
<1>4. TypeOK'
  <2>1. /\ pc' \in [Proc -> {"idle", "chain", "handle", "call", "set", "write"}]
        /\ req' \in [Proc -> Request \cup {NoRequest}]
        /\ ans' \in [Proc -> AnswerType \cup {NoAnswer}]
    BY <1>1, <1>2 DEF TypeOK
  <2>2. \A t \in Proc :
          /\ pc'[t] # "idle" => req'[t] \in Request
          /\ pc'[t] \in {"set", "write"} => ans'[t] \in AnswerType
    BY <1>2, <1>3 DEF TypeOK
  <2>3. /\ reply'.req \in Request /\ reply'.ok \in BOOLEAN /\ reply'.hit \in BOOLEAN
        /\ reply'.ans \in AnswerType \cup {NoAnswer}
    BY <1>1
  <2>4. \A t \in Proc : past'[t] # NoFile =>
          /\ pc'[t] = "write"
          /\ past'[t] \in [Filed(t)' -> EntryType \cup {NoEntry}]
    BY <1>3, PastInv
  <2> QED
    BY <1>2, <2>1, <2>2, <2>3, <2>4 DEF TypeOK
<1>5. AnswersRead' /\ PastRead'
  <2>1. AnswersRead'
    BY <1>3 DEF CacheInv, AnswersRead, Cacheable
  <2>2. PastRead'
    BY <1>3, PastInv
  <2> QED
    BY <2>1, <2>2
<1>6. SeenBehind'
  <2>1. \A t \in Proc : pc[t] # "idle" => req[t].seen \in Int
    BY <1>2 DEF TypeOK, Request
  <2>2. version \in Int /\ version' \in Int
    BY <1>2 DEF TypeOK
  <2> QED
    BY <1>3, <2>1, <2>2 DEF CacheInv, SeenBehind
<1>7. PluginReady' /\ ListingExposed'
  <2>1. PluginReady'
    BY <1>3 DEF CacheInv, PluginReady
  <2>2. ListingExposed'
    BY <1>3 DEF CacheInv, ListingExposed, Shown
  <2> QED
    BY <2>1, <2>2
<1> QED
  BY <1>4, <1>5, <1>6, <1>7 DEF CacheInv

\* A request that is refused.
LEMMA RefuseInv ==
    ASSUME CacheInv, NEW s \in Proc, pc[s] # "write", NEW r \in Request, Refuse(s, r),
           UNCHANGED <<conf, work, version, store, broken, past, plugged>>
    PROVE  CacheInv'
<1>1. Send(s, r, FALSE, FALSE, NoAnswer)
  BY DEF Refuse
<1>2. Safe'
  BY <1>1, Replied DEF Send
<1>3. /\ version' \in 0 .. MaxVersion /\ version <= version'
      /\ store' \in [URL -> EntryType \cup {NoEntry}] /\ broken' \subseteq Range(File)
  BY DEF CacheInv, TypeOK
<1>4. EntriesRead'
  BY DEF CacheInv, EntriesRead, AllCacheable, Cacheable
<1> QED
  BY <1>1, <1>2, <1>3, <1>4, PastKept, SendInv

\* CacheMiddleware answers.
LEMMA CacheAnswersInv ==
    ASSUME CacheInv, NEW s \in Proc, pc[s] # "write", NEW r \in Request, CacheAnswers(s, r),
           UNCHANGED <<conf, work, version, store, broken, past, plugged>>
    PROVE  CacheInv'
<1>1. CASE Refuse(s, r)
  BY <1>1, RefuseInv
<1>2. ASSUME Consults(r), NEW v \in BuntGet(r.url), Send(s, r, TRUE, TRUE, v)
      PROVE  CacheInv'
  <2>0. r.url \in URL /\ r.method = "GET"
    BY <1>2 DEF Request, Consults
  <2>1. store[r.url] # NoEntry /\ v = store[r.url].val
    BY <1>2 DEF BuntGet
  <2>2. v \in AnswerType /\ Cacheable(r.url, v)
    BY <2>0, <2>1 DEF CacheInv, TypeOK, EntryType, EntriesRead, AllCacheable
  <2>3. Safe'
    BY <1>2, <2>0, <2>2, Replied DEF Send, Cacheable
  <2>4. /\ version' \in 0 .. MaxVersion /\ version <= version'
        /\ store' \in [URL -> EntryType \cup {NoEntry}] /\ broken' \subseteq Range(File)
    BY DEF CacheInv, TypeOK
  <2>5. EntriesRead'
    BY DEF CacheInv, EntriesRead, AllCacheable, Cacheable
  <2> QED
    BY <1>2, <2>2, <2>3, <2>4, <2>5, PastKept, SendInv
<1> QED
  BY <1>1, <1>2 DEF CacheAnswers

\* A request arrives.
LEMMA ArriveInv ==
    ASSUME CacheInv, NEW s \in Proc, NEW u \in URL, NEW c \in Caller, NEW m \in Method,
           Arrive(s, u, m, c)
    PROVE  CacheInv'
<1> DEFINE r == [url |-> u, method |-> m, caller |-> c, seen |-> version]
<1>1. r \in Request /\ r.seen <= version /\ r.url = u
  BY DEF CacheInv, TypeOK, Request
<1>2. pc[s] = "idle" /\ UNCHANGED <<conf, work, version, store, broken, past, plugged>>
  BY DEF Arrive
<1>3. CASE CacheAnswers(s, r) \/ Refuse(s, r)
  BY <1>1, <1>2, <1>3, CacheAnswersInv, RefuseInv
<1>4. CASE /\ ~(conf.expose.enabled /\ ExposureRefuses(u))
           /\ \E l \in {"chain", "handle"} : Goto(s, l, r, NoAnswer)
  <2>1. PICK l \in {"chain", "handle"} : Goto(s, l, r, NoAnswer)
    BY <1>4
  <2>2. Shown(r.url)
    BY <1>1, <1>4 DEF ExposureRefuses, Shown
  <2> HIDE DEF r
  <2>3. /\ pc[s] # "write" /\ plugged' = plugged
        /\ l \in {"chain", "handle", "call", "set", "write"}
        /\ l # "call" /\ l \notin {"set", "write"}
    BY <1>2, <2>1
  <2> QED
    BY <1>1, <1>2, <2>1, <2>2, <2>3, GotoInv
<1> QED
  BY <1>3, <1>4 DEF Arrive

\* The step a request is at knows its request.
LEMMA Running ==
    ASSUME CacheInv, NEW s \in Proc, pc[s] # "idle"
    PROVE  /\ req[s] \in Request /\ req[s].url \in URL /\ req[s].seen <= version
           /\ req[s].seen \in Int /\ version \in 0 .. MaxVersion
           /\ Shown(req[s].url)
           /\ conf \in Settings
<1>1. req[s] \in Request /\ version \in 0 .. MaxVersion /\ conf \in Settings
  BY DEF CacheInv, TypeOK
<1>2. req[s].seen <= version
  BY DEF CacheInv, SeenBehind
<1>3. Shown(req[s].url)
  BY DEF CacheInv, ListingExposed
<1>4. req[s].url \in URL /\ req[s].seen \in Int
  BY <1>1 DEF Request
<1> QED
  BY <1>1, <1>2, <1>3, <1>4

\* The chain of the table routes.
LEMMA TableChainInv == ASSUME CacheInv, NEW s \in Proc, TableChain(s) PROVE CacheInv'
<1>1. pc[s] = "chain" /\ UNCHANGED <<conf, work, version, store, broken, past, plugged>>
  BY DEF TableChain
<1>2. /\ req[s] \in Request /\ req[s].seen <= version
      /\ Shown(req[s].url)
  BY <1>1, Running
<1>3. CASE Refuse(s, req[s]) \/ CacheAnswers(s, req[s])
  BY <1>1, <1>2, <1>3, RefuseInv, CacheAnswersInv
<1>4. CASE Goto(s, "handle", req[s], NoAnswer)
  BY <1>1, <1>2, <1>4, GotoInv
<1> QED
  BY <1>3, <1>4 DEF TableChain

\* The handlers that compute an answer to be stored.
LEMMA ComputeInv ==
    ASSUME CacheInv, NEW s \in Proc, SelectFromTables(s) \/ ExecuteFromScripts(s) \/ PluginCall(s)
    PROVE  CacheInv'
<1>1. /\ pc[s] \in {"handle", "call"}
      /\ UNCHANGED <<conf, work, version, store, broken, past, plugged>>
  BY DEF SelectFromTables, ExecuteFromScripts, PluginCall, Handles
<1>2. /\ req[s] \in Request /\ req[s].url \in URL /\ req[s].seen <= version
      /\ req[s].seen \in Int /\ version \in 0 .. MaxVersion
      /\ Shown(req[s].url)
      /\ conf \in Settings
  BY <1>1, Running
<1>3. ASSUME NEW u \in URL, NEW f \in SUBSET Column, NEW w \in Caller \cup {Nobody},
             Goto(s, "set", req[s], Answer(req[s], u, f, w)),
             Route[req[s].url] # "catalog",
             Route[req[s].url] \in {"table", "script"} => u = req[s].url /\ req[s].method = "GET"
      PROVE  CacheInv'
  <2> DEFINE a == Answer(req[s], u, f, w)
  <2>1. a \in AnswerType /\ a.url = u /\ a.method = req[s].method
    BY <1>2, AnswerTyped
  <2>2. Cacheable(req[s].url, a)
    <3> HIDE DEF a
    <3> QED
      BY <1>2, <1>3, <2>1 DEF Cacheable
  <2>3. Goto(s, "set", req[s], a)
    BY <1>3
  <2> HIDE DEF a
  <2> QED
    BY <1>1, <1>2, <2>1, <2>2, <2>3, GotoInv
<1>4. CASE SelectFromTables(s)
  <2> DEFINE u == req[s].url
             f == SelectColumns(u)
             w == FilteredFor(u, req[s].caller)
  <2>1. /\ Goto(s, "set", req[s], Answer(req[s], u, f, w))
        /\ Route[req[s].url] = "table" /\ req[s].method = "GET"
    BY <1>4 DEF SelectFromTables, Handles
  <2>2. f \in SUBSET Column /\ w \in Caller \cup {Nobody}
    BY <1>2, SelectTyped DEF Request, FilteredFor
  <2> HIDE DEF f, w
  <2> QED
    BY <1>2, <1>3, <2>1, <2>2
<1>5. CASE ExecuteFromScripts(s)
  BY <1>2, <1>3, <1>5 DEF ExecuteFromScripts, Handles
<1>6. CASE PluginCall(s)
  <2>1. plugged \in URL /\ Route[req[s].url] = "plugin"
    BY <1>6 DEF PluginCall, CacheInv, PluginReady
  <2> QED
    BY <1>2, <1>3, <1>6, <2>1 DEF PluginCall
<1> QED
  BY <1>4, <1>5, <1>6

\* The handlers that reply and store nothing.
LEMMA HandlerInv ==
    ASSUME CacheInv, NEW s \in Proc, HandlerFails(s) \/ Write(s) \/ Catalog(s) PROVE CacheInv'
<1>1. pc[s] \in {"handle", "call"} /\ UNCHANGED <<conf, work, store, broken, past, plugged>>
  BY DEF HandlerFails, Write, Catalog, Handles
<1>2. /\ req[s] \in Request /\ req[s].url \in URL /\ req[s].seen <= version
      /\ req[s].seen \in Int /\ version \in 0 .. MaxVersion
      /\ Shown(req[s].url)
  BY <1>1, Running
<1>3. store' \in [URL -> EntryType \cup {NoEntry}] /\ broken' \subseteq Range(File)
  BY <1>1 DEF CacheInv, TypeOK
<1>4. EntriesRead' /\ PastAfter(s)
  BY <1>1, PastKept DEF CacheInv, EntriesRead, AllCacheable, Cacheable
<1>5. CASE HandlerFails(s)
  BY <1>1, <1>2, <1>5, RefuseInv DEF HandlerFails
<1>6. CASE Write(s)
  <2>1. /\ Send(s, req[s], TRUE, FALSE, NoAnswer) /\ req[s].method = "POST"
        /\ Route[req[s].url] \in {"table", "script"}
        /\ version < MaxVersion /\ version' = version + 1
    BY <1>6 DEF Write, Handles
  <2>2. version' \in 0 .. MaxVersion /\ version <= version' /\ version' > req[s].seen
    BY <1>2, <2>1
  <2>3. Safe'
    BY <1>1, <2>1, <2>2, Replied DEF Send
  <2> QED
    BY <1>1, <1>2, <1>3, <1>4, <2>1, <2>2, <2>3, SendInv
<1>7. CASE Catalog(s)
  <2> DEFINE a == Answer(req[s], req[s].url, {}, Nobody)
  <2>1. Send(s, req[s], TRUE, FALSE, a) /\ req[s].method = "GET" /\ UNCHANGED version
    BY <1>7 DEF Catalog, Handles
  <2>2. a \in AnswerType
    BY <1>2, AnswerTyped
  <2> HIDE DEF a
  <2>3. version' \in 0 .. MaxVersion /\ version <= version'
    BY <1>2, <2>1, <2>2
  <2>4. Safe'
    BY <1>1, <1>2, <2>1, <2>2, <2>3, Replied DEF Send
  <2> QED
    BY <1>1, <1>2, <1>3, <1>4, <2>1, <2>2, <2>3, <2>4, SendInv
<1> QED
  BY <1>5, <1>6, <1>7

\* loadFunc fills the variables of the plugin, BuntSet opens its file.
LEMMA PrepareInv ==
    ASSUME CacheInv, NEW s \in Proc, PluginVars(s) \/ BuntSetOpens(s) PROVE CacheInv'
<1>1. pc[s] \in {"handle", "set"} /\ UNCHANGED <<conf, work, version, store, broken, past>>
  BY DEF PluginVars, BuntSetOpens
<1>2. /\ req[s] \in Request /\ req[s].url \in URL /\ req[s].seen <= version
      /\ Shown(req[s].url)
  BY <1>1, Running
<1>3. CASE PluginVars(s)
  <2>1. /\ Goto(s, "call", req[s], NoAnswer) /\ plugged' = req[s].url
        /\ Route[req[s].url] = "plugin"
    BY <1>3 DEF PluginVars
  <2> QED
    BY <1>1, <1>2, <2>1, GotoInv
<1>4. CASE BuntSetOpens(s)
  <2>1. pc[s] = "set" /\ Goto(s, "write", req[s], ans[s]) /\ plugged' = plugged
    BY <1>4 DEF BuntSetOpens
  <2>2. /\ ans[s] \in AnswerType /\ Cacheable(req[s].url, ans[s])
        /\ ans[s].method = req[s].method
    BY <2>1 DEF CacheInv, TypeOK, AnswersRead
  <2> QED
    BY <1>1, <1>2, <2>1, <2>2, GotoInv
<1> QED
  BY <1>3, <1>4

\* What a write leaves in the files and what the others know of them.
LEMMA StoredInv ==
    ASSUME CacheInv, NEW s \in Proc, pc[s] = "write", NEW kept
    PROVE  /\ Stored(s, kept) \in [URL -> EntryType \cup {NoEntry}]
           /\ AllCacheable(Stored(s, kept))
<1>1. /\ req[s].url \in URL /\ conf \in Settings
  BY Running
<1>2. ans[s] \in AnswerType /\ Cacheable(req[s].url, ans[s])
  BY DEF CacheInv, TypeOK, AnswersRead
<1>3. store \in [URL -> EntryType \cup {NoEntry}] /\ AllCacheable(store)
  BY DEF CacheInv, TypeOK, EntriesRead
<1>4. past[s] # NoFile => past[s] \in [Filed(s) -> EntryType \cup {NoEntry}] /\ AllCacheable(past[s])
  BY DEF CacheInv, TypeOK, PastRead
<1> DEFINE e == Entry(ans[s], EndpointTime(KeyPath[req[s].url]))
           after(u) == IF u \notin Filed(s) \/ u \in kept THEN store[u]
                       ELSE IF u = req[s].url THEN e
                       ELSE IF past[s] # NoFile THEN past[s][u] ELSE store[u]
<1>5. e \in EntryType \cup {NoEntry} /\ (e # NoEntry => e.val = ans[s])
  BY <1>1, <1>2, TimeBounded, EntryTyped
<1>6. Stored(s, kept) = [u \in URL |-> after(u)]
  BY DEF Stored
<1>7. ASSUME NEW u \in URL
      PROVE  /\ after(u) \in EntryType \cup {NoEntry}
             /\ after(u) # NoEntry => Cacheable(u, after(u).val)
  <2> HIDE DEF e
  <2>1. store[u] \in EntryType \cup {NoEntry} /\ (store[u] # NoEntry => Cacheable(u, store[u].val))
    BY <1>3 DEF AllCacheable
  <2>2. past[s] # NoFile /\ u \in Filed(s) =>
          past[s][u] \in EntryType \cup {NoEntry} /\ (past[s][u] # NoEntry => Cacheable(u, past[s][u].val))
    BY <1>4 DEF AllCacheable
  <2> QED
    BY <1>2, <1>5, <2>1, <2>2
<1> HIDE DEF after
<1> QED
  BY <1>6, <1>7 DEF AllCacheable

LEMMA OvertakenInv ==
    ASSUME CacheInv, NEW s \in Proc, pc[s] = "write", past' = Overtaken(s) PROVE PastAfter(s)
<1>1. past'[s] = NoFile
  BY DEF Overtaken
<1>2. ASSUME NEW t \in Proc \ {s}, past'[t] # NoFile PROVE PastOf(t)
  <2>1. CASE pc[t] = "write" /\ past[t] = NoFile /\ File[req[t].url] = File[req[s].url]
    <3>1. past'[t] = [u \in Filed(s) |-> store[u]] /\ Filed(t) = Filed(s)
      BY <1>2, <2>1 DEF Overtaken, Filed
    <3>2. store \in [URL -> EntryType \cup {NoEntry}] /\ AllCacheable(store) /\ Filed(s) \subseteq URL
      BY DEF CacheInv, TypeOK, EntriesRead, Filed
    <3>3. AllCacheable(past'[t])
      BY <3>1, <3>2 DEF AllCacheable
    <3> QED
      BY <2>1, <3>1, <3>2, <3>3 DEF PastOf
  <2>2. CASE ~(pc[t] = "write" /\ past[t] = NoFile /\ File[req[t].url] = File[req[s].url])
    <3>1. past'[t] = past[t]
      BY <1>2, <2>2 DEF Overtaken
    <3> QED
      BY <1>2, <3>1 DEF PastOf, CacheInv, TypeOK, PastRead
  <2> QED
    BY <2>1, <2>2
<1> QED
  BY <1>1, <1>2 DEF PastAfter

\* BuntSet ends: the answer is in the file or not, and the reply is sent.
LEMMA BuntSetInv ==
    ASSUME CacheInv, NEW s \in Proc, BuntSetSkips(s) \/ BuntSetWrites(s) PROVE CacheInv'
<1>1. /\ pc[s] \in {"set", "write"} /\ UNCHANGED <<conf, work, version, plugged>>
      /\ Send(s, req[s], TRUE, FALSE, ans[s])
  BY DEF BuntSetSkips, BuntSetWrites
<1>2. /\ req[s] \in Request /\ req[s].url \in URL /\ version \in 0 .. MaxVersion
      /\ Shown(req[s].url)
  BY <1>1, Running
<1>3. /\ ans[s] \in AnswerType /\ Cacheable(req[s].url, ans[s])
      /\ ans[s].method = req[s].method
  BY <1>1 DEF CacheInv, TypeOK, AnswersRead
<1>4. store \in [URL -> EntryType \cup {NoEntry}] /\ broken \subseteq Range(File) /\ AllCacheable(store)
  BY DEF CacheInv, TypeOK, EntriesRead
<1>5. broken' \subseteq Range(File)
  <2>1. File[req[s].url] \in Range(File)
    BY <1>2 DEF Range
  <2>2. broken' \in {broken, broken \cup {File[req[s].url]}}
    BY DEF BuntSetSkips, BuntSetWrites
  <2> QED
    BY <1>4, <2>1, <2>2
<1>6. store' \in [URL -> EntryType \cup {NoEntry}] /\ EntriesRead' /\ PastAfter(s)
  <2>1. CASE BuntSetSkips(s)
    BY <1>4, <2>1, PastKept DEF BuntSetSkips, EntriesRead, AllCacheable, Cacheable
  <2>2. CASE BuntSetWrites(s)
    <3>1. pc[s] = "write" /\ past' = Overtaken(s)
      BY <2>2 DEF BuntSetWrites
    <3>2. store' = store \/ \E kept : store' = Stored(s, kept)
      BY <2>2 DEF BuntSetWrites
    <3>3. store' \in [URL -> EntryType \cup {NoEntry}] /\ AllCacheable(store')
      BY <1>4, <3>1, <3>2, StoredInv
    <3> QED
      BY <3>1, <3>3, OvertakenInv DEF EntriesRead, AllCacheable, Cacheable
  <2> QED
    BY <2>1, <2>2
<1>7. Safe'
  <2>1. Route[req[s].url] \in {"table", "script"} => req[s].method = "GET"
    BY <1>3 DEF Cacheable
  <2> QED
    BY <1>1, <1>2, <1>3, <2>1, Replied DEF Send
<1>8. version' \in 0 .. MaxVersion /\ version <= version'
  BY <1>1, <1>2
<1> QED
  BY <1>1, <1>2, <1>3, <1>5, <1>6, <1>7, <1>8, SendInv

\* An entry that has aged is the same entry.
LEMMA ExpireTyped ==
    ASSUME NEW e \in EntryType \cup {NoEntry}
    PROVE  /\ Expire(e) \in EntryType \cup {NoEntry}
           /\ Expire(e) # NoEntry => e # NoEntry /\ Expire(e).val = e.val
<1>1. CASE e = NoEntry
  BY <1>1 DEF Expire
<1>2. CASE e # NoEntry
  <2>1. e.val \in AnswerType /\ e.left - 1 \in 0 .. MaxTime
    BY <1>2 DEF EntryType
  <2>2. Expire(e) = Entry(e.val, e.left - 1)
    BY <1>2 DEF Expire
  <2> QED
    BY <1>2, <2>1, <2>2, EntryTyped
<1> QED
  BY <1>1, <1>2

LEMMA AgedTyped ==
    ASSUME NEW U, NEW file \in [U -> EntryType \cup {NoEntry}], AllCacheable(file)
    PROVE  Aged(file) \in [U -> EntryType \cup {NoEntry}] /\ AllCacheable(Aged(file))
<1>1. \A u \in U : file[u] \in EntryType \cup {NoEntry}
  OBVIOUS
<1>2. \A u \in U : Expire(file[u]) # NoEntry =>
        file[u] # NoEntry /\ Expire(file[u]).val = file[u].val
  BY <1>1, ExpireTyped
<1>3. Aged(file) = [u \in U |-> Expire(file[u])]
  BY DEF Aged
<1> QED
  BY <1>1, <1>2, <1>3, ExpireTyped DEF AllCacheable

\* Time passes.
LEMMA TickInv == CacheInv /\ Tick => CacheInv'
<1> SUFFICES ASSUME CacheInv, Tick PROVE CacheInv'
  OBVIOUS
<1>1. /\ store' = Aged(store) /\ reply' = NoReply
      /\ past' = [s \in Proc |-> IF past[s] = NoFile THEN NoFile ELSE Aged(past[s])]
      /\ UNCHANGED <<conf, work, version, broken, pc, req, ans, plugged>>
  BY DEF Tick
<1>2. store \in [URL -> EntryType \cup {NoEntry}] /\ AllCacheable(store)
  BY DEF CacheInv, TypeOK, EntriesRead
<1>3. store' \in [URL -> EntryType \cup {NoEntry}] /\ AllCacheable(store')
  BY <1>1, <1>2, AgedTyped
<1>4. ASSUME NEW s \in Proc, past'[s] # NoFile
      PROVE  /\ pc'[s] = "write" /\ past'[s] \in [Filed(s)' -> EntryType \cup {NoEntry}]
             /\ AllCacheable(past'[s])
  <2>1. past[s] # NoFile /\ past'[s] = Aged(past[s])
    BY <1>1, <1>4
  <2>2. pc[s] = "write" /\ past[s] \in [Filed(s) -> EntryType \cup {NoEntry}]
    BY <2>1 DEF CacheInv, TypeOK
  <2>3. AllCacheable(past[s])
    BY <2>1 DEF CacheInv, PastRead
  <2>4. Filed(s)' = Filed(s) /\ pc'[s] = pc[s]
    BY <1>1 DEF Filed
  <2> QED
    BY <2>1, <2>2, <2>3, <2>4, AgedTyped
<1>5. TypeOK' /\ EntriesRead' /\ PastRead'
  <2>1. TypeOK'
    BY <1>1, <1>3, <1>4 DEF CacheInv, TypeOK
  <2>2. EntriesRead' /\ PastRead'
    BY <1>3, <1>4 DEF EntriesRead, PastRead, AllCacheable, Cacheable
  <2> QED
    BY <2>1, <2>2
<1>6. AnswersRead' /\ SeenBehind' /\ PluginReady' /\ ListingExposed'
  BY <1>1 DEF CacheInv, AnswersRead, Cacheable, SeenBehind, PluginReady, ListingExposed, Shown
<1>7. Safe'
  BY <1>1, Silent
<1> QED
  BY <1>5, <1>6, <1>7 DEF CacheInv

\* The server restarts: the requests are gone, the files stay.
LEMMA RestartInv == CacheInv /\ Restart => CacheInv'
<1> SUFFICES ASSUME CacheInv, Restart PROVE CacheInv'
  OBVIOUS
<1>1. /\ pc' = [s \in Proc |-> "idle"] /\ req' = [s \in Proc |-> NoRequest]
      /\ ans' = [s \in Proc |-> NoAnswer] /\ conf' \in work.confs
      /\ plugged' = NoRequest /\ reply' = NoReply
      /\ past' = [s \in Proc |-> NoFile]
      /\ UNCHANGED <<work, version, store, broken>>
  BY DEF Restart
<1>2. TypeOK'
  <2>1. work \in Workloads
    BY DEF CacheInv, TypeOK
  <2>2. conf' \in Settings
    BY <1>1, <2>1
  <2> QED
    BY <1>1, <2>2 DEF CacheInv, TypeOK
<1>3. EntriesRead' /\ PastRead'
  BY <1>1 DEF CacheInv, EntriesRead, PastRead, AllCacheable, Cacheable
<1>4. AnswersRead' /\ SeenBehind' /\ PluginReady' /\ ListingExposed'
  BY <1>1 DEF AnswersRead, SeenBehind, PluginReady, ListingExposed
<1>5. Safe'
  BY <1>1, Silent
<1> QED
  BY <1>2, <1>3, <1>4, <1>5 DEF CacheInv

\* Every step of the system preserves the invariant.
LEMMA NextCache == CacheInv /\ [Next]_vars => CacheInv'
<1> SUFFICES ASSUME CacheInv, [Next]_vars PROVE CacheInv'
  OBVIOUS
<1>1. ASSUME NEW s \in Proc, NEW u \in work.urls, NEW c \in Caller, NEW m \in MethodsOf(u),
             Arrive(s, u, m, c)
      PROVE  CacheInv'
  <2>1. u \in URL
    BY DEF CacheInv, TypeOK
  <2>2. m \in Method
    BY DEF MethodsOf, Method
  <2> QED
    BY <1>1, <2>1, <2>2, ArriveInv
<1>2. ASSUME NEW s \in Proc, Step(s) PROVE CacheInv'
  BY <1>2, TableChainInv, HandlerInv, ComputeInv, PrepareInv, BuntSetInv DEF Step
<1>3. CASE UNCHANGED vars
  <2>1. TypeOK'
    <3>1. \A s \in Proc : Filed(s)' = Filed(s)
      BY <1>3 DEF vars, Filed
    <3> QED
      BY <1>3, <3>1 DEF vars, CacheInv, TypeOK
  <2>2. EntriesRead' /\ PastRead' /\ AnswersRead' /\ SeenBehind'
    BY <1>3 DEF vars, CacheInv, EntriesRead, PastRead, AllCacheable, AnswersRead, SeenBehind, Cacheable
  <2>3. PluginReady' /\ ListingExposed'
    BY <1>3 DEF vars, CacheInv, PluginReady, ListingExposed, Shown
  <2>4. Safe'
    BY <1>3 DEF vars, CacheInv, Safe, HitIsSameRead, WritesCommit,
       HiddenListings, Answered
  <2> QED
    BY <2>1, <2>2, <2>3, <2>4 DEF CacheInv
<1> QED
  BY <1>1, <1>2, <1>3, TickInv, RestartInv DEF Next

\* The invariant holds throughout: what is in the files was put there by a GET of
\* the URL it is filed under.
THEOREM CacheInvariance == Spec => []CacheInv
  BY InitCache, NextCache, PTL DEF Spec

\* Requests, answers and entries keep their types; an entry never has more time to
\* live than the longest one configured.
THEOREM CacheTyped == Spec => []TypeOK
  BY CacheInvariance, PTL DEF CacheInv

\* A hit on a table or a script is the answer to a GET of that URL, whatever files
\* URLs share and whatever plugins store.
THEOREM HitsAreReads == Spec => []HitIsSameRead
  BY CacheInvariance, PTL DEF CacheInv, Safe

\* An acknowledged write is in the database.
THEOREM WritesReachDatabase == Spec => []WritesCommit
  BY CacheInvariance, PTL DEF CacheInv, Safe

\* No hidden listing is given out, by the handlers or by the cache that is asked
\* before the exposure middleware.
THEOREM ListingsHidden == Spec => []HiddenListings
  BY CacheInvariance, PTL DEF CacheInv, Safe
=============================================================================
