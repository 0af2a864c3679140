-------------------------- MODULE StmtBoundProofs --------------------------
(***************************************************************************)
(* The statements that the cache leaves behind are bounded, for every      *)
(* number of requests in flight: the argument counts.                      *)
(*                                                                         *)
(* What has been prepared for a text does not say which request prepared   *)
(* it, so the invariant bounds it together with what may still be prepared *)
(* without another Stmt: by the requests that have missed an entry that is *)
(* there by now or a Stmt that was replaced (Late), and by those that may  *)
(* still miss the current Stmt (Fresh).  A Stmt allocated later adds a     *)
(* term for every request that is not still about to allocate one.         *)
(***************************************************************************)
EXTENDS StmtCacheProofs, FiniteSetTheorems

\* Where a request can be.
Label == {"idle", "get", "create", "return", "lookup", "prepare", "store", "exec"}

\* The requests that saw no Stmt and will allocate one.
Creating == {p \in Proc : pc[p] = "create"}

\* The statements prepared for a text outside transactions.
PreparedFor(x) == {i \in 1..Len(prepared) : prepared[i].text = x /\ ~prepared[i].tx}

\* The requests that will prepare x for the Stmt they hold, unless they fail.
Missing(p, x) ==
    /\ ~req[p].tx /\ req[p].text = x
    /\ pc[p] = "prepare" \/ (pc[p] = "lookup" /\ caches[s[p]][x] = 0)

\* The current Stmt has no entry for x.
Vacant(x) == Len(caches) # 0 /\ caches[Len(caches)][x] = 0

Late(x) == {p \in Proc : pc[p] \in {"lookup", "prepare"} /\ Missing(p, x)
                         /\ (Vacant(x) => s[p] # Len(caches))}
Fresh(x) ==
    {p \in Proc : /\ Vacant(x) /\ pc[p] # "create"
                  /\ ~(pc[p] = "store" /\ s[p] = Len(caches) /\ req[p].text = x)}

\* k*n - k*(k-1)/2 with k Stmts and n requests.
Most(k) == k * Cardinality(Proc) - (k * (k - 1)) \div 2

\* The global is the Stmt allocated last, and every request allocates at most one.
Allocations == stmts = Len(caches) /\ Len(caches) + Cardinality(Creating) <= Cardinality(Proc)

Counted == PGCache => \A x \in Text :
    Cardinality(PreparedFor(x)) + Cardinality(Late(x)) + Cardinality(Fresh(x))
        <= Most(Len(caches)) - Len(caches) * Cardinality(Creating)

BoundInv == CacheInv /\ Allocations /\ Counted

-----------------------------------------------------------------------------
\* Sets of requests are finite, and counted with natural numbers.
LEMMA RequestSets ==
    ASSUME NEW A \in SUBSET Proc
    PROVE  IsFiniteSet(A) /\ Cardinality(A) \in Nat /\ Cardinality(A) <= Cardinality(Proc)
  BY ProcAssumption, FS_Subset, FS_CardinalityType

\* A set of requests covered by two others is no larger than both.
LEMMA Covered ==
    ASSUME NEW A, NEW B \in SUBSET Proc, NEW C \in SUBSET Proc, A \subseteq B \cup C
    PROVE  Cardinality(A) <= Cardinality(B) + Cardinality(C)
<1>1. IsFiniteSet(B) /\ IsFiniteSet(C) /\ Cardinality(B) \in Nat /\ Cardinality(C) \in Nat
  BY RequestSets
<1>2. Cardinality(B \cap C) \in Nat
  <2>1. B \cap C \in SUBSET Proc
    OBVIOUS
  <2> QED
    BY <2>1, RequestSets
<1>3. /\ IsFiniteSet(B \cup C)
      /\ Cardinality(B \cup C) = Cardinality(B) + Cardinality(C) - Cardinality(B \cap C)
  BY <1>1, FS_Union
<1>4. Cardinality(A) <= Cardinality(B \cup C) /\ Cardinality(A) \in Nat
  BY <1>3, FS_Subset, FS_CardinalityType
<1> QED
  BY <1>1, <1>2, <1>3, <1>4

\* A set of requests that loses a member is smaller by one.
LEMMA OneLess ==
    ASSUME NEW A \in SUBSET Proc, NEW p \in A
    PROVE  Cardinality(A \ {p}) = Cardinality(A) - 1
  BY RequestSets, FS_RemoveElement

\* The sets that the invariant counts can be counted.
LEMMA Countable ==
    ASSUME TypeOK, NEW x \in Text
    PROVE  /\ Creating \in SUBSET Proc /\ Late(x) \in SUBSET Proc /\ Fresh(x) \in SUBSET Proc
           /\ Cardinality(Creating) \in Nat /\ Cardinality(Late(x)) \in Nat
           /\ Cardinality(Fresh(x)) \in Nat /\ Cardinality(Proc) \in Nat /\ Len(caches) \in Nat
           /\ IsFiniteSet(PreparedFor(x)) /\ Cardinality(PreparedFor(x)) \in Nat
<1>1. Creating \in SUBSET Proc /\ Late(x) \in SUBSET Proc /\ Fresh(x) \in SUBSET Proc
  BY DEF Creating, Late, Fresh
<1>2. IsFiniteSet(PreparedFor(x)) /\ Cardinality(PreparedFor(x)) \in Nat
  <2>1. Len(prepared) \in Nat /\ PreparedFor(x) \in SUBSET (1..Len(prepared))
    BY DEF TypeOK, PreparedFor
  <2>2. IsFiniteSet(1..Len(prepared))
    BY <2>1, FS_Interval
  <2> QED
    BY <2>1, <2>2, FS_Subset, FS_CardinalityType
<1>3. Proc \in SUBSET Proc /\ Len(caches) \in Nat
  BY DEF TypeOK
<1> QED
  BY <1>1, <1>2, <1>3, RequestSets

\* The bound grows by a term for every request but those that come with the
\* Stmts that there are.
LEMMA MostGrows ==
    ASSUME NEW k \in Nat, Cardinality(Proc) \in Nat
    PROVE  /\ Most(k) \in Int
           /\ Most(k + 1) = Most(k) + Cardinality(Proc) - k
<1> DEFINE n == Cardinality(Proc)
           a == k * (k - 1)
<1>1. a \in Int /\ (k + 1) * ((k + 1) - 1) = a + 2 * k /\ (k + 1) * n = k * n + n
  OBVIOUS
<1>2. (a + 2 * k) \div 2 = a \div 2 + k
  <2>1. a \in Int
    BY <1>1
  <2> HIDE DEF a
  <2> QED
    BY <2>1
<1>3. k * n \in Int /\ a \div 2 \in Int
  <2>1. k * n \in Int /\ a \in Int
    BY <1>1
  <2> HIDE DEF a
  <2> QED
    BY <2>1
<1>4. Most(k) = k * n - a \div 2 /\ Most(k + 1) = (k + 1) * n - (a + 2 * k) \div 2
  BY <1>1 DEF Most
<1> HIDE DEF a, n
<1>5. Most(k + 1) = k * n + n - (a \div 2 + k) /\ n \in Nat
  BY <1>1, <1>2, <1>4 DEF n
<1> QED
  BY <1>3, <1>4, <1>5 DEF n

-----------------------------------------------------------------------------
\* Where nothing is allocated, it is enough that the count does not grow.
LEMMA NoGrowth ==
    ASSUME TypeOK, Allocations, Counted, UNCHANGED <<PGCache, realName, stmts>>, Len(caches') = Len(caches),
           Creating' = Creating,
           PGCache => \A x \in Text :
               /\ Cardinality(PreparedFor(x)') \in Nat
               /\ Cardinality(PreparedFor(x)') + Cardinality(Late(x)') + Cardinality(Fresh(x)')
                      <= Cardinality(PreparedFor(x)) + Cardinality(Late(x)) + Cardinality(Fresh(x))
    PROVE  Allocations' /\ Counted'
<1>1. Allocations'
  BY DEF Allocations
<1>2. Counted'
  <2> SUFFICES ASSUME PGCache, NEW x \in Text
               PROVE  Cardinality(PreparedFor(x)') + Cardinality(Late(x)') + Cardinality(Fresh(x)')
                          <= Most(Len(caches)) - Len(caches) * Cardinality(Creating)
    BY DEF Counted, Most
  <2>1. Cardinality(PreparedFor(x)) + Cardinality(Late(x)) + Cardinality(Fresh(x))
            <= Most(Len(caches)) - Len(caches) * Cardinality(Creating)
    BY DEF Counted
  <2>2. /\ Cardinality(Late(x)) \in Nat /\ Cardinality(Fresh(x)) \in Nat
        /\ Cardinality(PreparedFor(x)) \in Nat
        /\ Len(caches) * Cardinality(Creating) \in Int /\ Most(Len(caches)) \in Int
    BY Countable, MostGrows
  <2>3. Cardinality(Late(x)') \in Nat /\ Cardinality(Fresh(x)') \in Nat
    <3>1. Late(x)' \in SUBSET Proc /\ Fresh(x)' \in SUBSET Proc
      BY DEF Late, Fresh
    <3> QED
      BY <3>1, RequestSets
  <2> QED
    BY <2>1, <2>2, <2>3
<1> QED
  BY <1>1, <1>2

\* Where nothing is allocated or prepared, it is enough that no request joins
\* those that may still prepare.
LEMMA NoneJoins ==
    ASSUME TypeOK, Allocations, Counted, UNCHANGED <<PGCache, realName, stmts, caches>>, Creating' = Creating,
           PGCache => \A x \in Text :
               /\ PreparedFor(x)' = PreparedFor(x)
               /\ Late(x)' \subseteq Late(x) /\ Fresh(x)' \subseteq Fresh(x)
    PROVE  Allocations' /\ Counted'
<1>1. ASSUME PGCache, NEW x \in Text
      PROVE  /\ Cardinality(Late(x)') \in Nat /\ Cardinality(Late(x)') <= Cardinality(Late(x))
             /\ Cardinality(Fresh(x)') \in Nat /\ Cardinality(Fresh(x)') <= Cardinality(Fresh(x))
             /\ Cardinality(Late(x)) \in Nat /\ Cardinality(Fresh(x)) \in Nat
             /\ Cardinality(PreparedFor(x)) \in Nat
  BY <1>1, Countable, RequestSets, FS_Subset
<1> QED
  BY <1>1, NoGrowth

\* A call, a lookup and a failed Prepare: a request that looks a text up in the
\* current Stmt was fresh for it before.
LEMMA QuietBound ==
    ASSUME CacheInv, Allocations, Counted, NEW p \in Proc,
           Arrive(p) \/ GetStmtReturn(p) \/ Lookup(p) \/ PrepareFails(p)
    PROVE  Allocations' /\ Counted'
<1>0. TypeOK /\ Allocated /\ pc \in [Proc -> Label]
  BY DEF Label, CacheInv, TypeOK
<1>1. UNCHANGED <<PGCache, realName, stmts, caches, prepared>>
  BY <1>0, ArriveCalls DEF Call, GetStmtReturn, Lookup, PrepareFails, Return
<1>2. Creating' = Creating
  BY <1>0, ArriveCalls DEF Call, GetStmtReturn, Lookup, PrepareFails, Return, Goto, Creating
<1>3. ASSUME PGCache, NEW x \in Text, NEW q \in Late(x)' PROVE q \in Late(x)
  <2>1. Len(caches) \in Nat /\ s \in [Proc -> 0..Len(caches)]
        /\ req \in [Proc -> Request \cup {None}] /\ q \in Proc
    BY <1>0, <1>3 DEF TypeOK, Late
  <2>2. CASE Arrive(p)
    BY <1>0, <1>1, <1>3, <2>1, <2>2, ArriveCalls DEF Call, Goto, Late, Missing, Vacant
  <2>3. CASE GetStmtReturn(p)
    <3>1. /\ pc' = [pc EXCEPT ![p] = IF Cached(p) THEN "lookup" ELSE "prepare"]
          /\ s' = [s EXCEPT ![p] = stmts] /\ UNCHANGED req
          /\ pc[p] = "return" \/ (pc[p] = "get" /\ stmts # 0)
      BY <2>3 DEF GetStmtReturn, Goto
    <3>2. stmts = Len(caches) /\ stmts # 0
      BY <1>0, <3>1 DEF Allocations, Allocated
    <3>3. q # p => q \in Late(x)
      BY <1>0, <1>1, <1>3, <2>1, <3>1 DEF Late, Missing, Vacant
    <3>4. q # p
      <4> SUFFICES ASSUME q = p PROVE FALSE
        OBVIOUS
      <4>1. s'[p] = Len(caches) /\ caches[Len(caches)][x] # 0 /\ ~req[p].tx
        BY <1>1, <1>3, <2>1, <3>1, <3>2 DEF Late, Missing, Vacant
      <4>2. pc'[p] = "prepare"
        BY <1>0, <1>1, <1>3, <4>1 DEF Late, Missing
      <4> QED
        BY <1>0, <1>3, <3>1, <4>1, <4>2 DEF Cached
    <3> QED
      BY <3>3, <3>4
  <2>4. CASE Lookup(p)
    BY <1>0, <1>1, <1>3, <2>1, <2>4 DEF Lookup, Goto, Late, Missing, Vacant
  <2>5. CASE PrepareFails(p)
    BY <1>0, <1>1, <1>3, <2>1, <2>5 DEF PrepareFails, Return, Goto, Late, Missing, Vacant
  <2> QED
    BY <2>2, <2>3, <2>4, <2>5
<1>4. ASSUME NEW x \in Text, NEW q \in Fresh(x)' PROVE q \in Fresh(x)
  <2>1. s \in [Proc -> 0..Len(caches)] /\ req \in [Proc -> Request \cup {None}] /\ q \in Proc
    BY <1>0, <1>4 DEF TypeOK, Fresh
  <2> QED
    BY <1>0, <1>1, <1>2, <1>4, <2>1, ArriveCalls
       DEF Call, GetStmtReturn, Lookup, PrepareFails, Return, Goto, Fresh, Vacant, Creating
<1>5. \A x \in Text : PreparedFor(x)' = PreparedFor(x)
  BY <1>1 DEF PreparedFor
<1> QED
  BY <1>0, <1>1, <1>2, <1>3, <1>4, <1>5, NoneJoins

\* The end of a request: a transaction closes its statement, which changes
\* neither the text of it nor how it was prepared.
LEMMA ExecBound ==
    ASSUME CacheInv, Allocations, Counted, NEW p \in Proc, Exec(p)
    PROVE  Allocations' /\ Counted'
<1>0. /\ TypeOK /\ pc \in [Proc -> Label]
      /\ prepared \in Seq(Statement) /\ statement[p] \in Stmts
  BY DEF Label, CacheInv, TypeOK, UsableStatement, Exec, Stmts
<1>1. UNCHANGED <<PGCache, realName, stmts, caches>> /\ pc[p] = "exec" /\ pc' = [pc EXCEPT ![p] = "idle"]
      /\ req' = [req EXCEPT ![p] = None] /\ s' = [s EXCEPT ![p] = 0]
  BY DEF Exec, Return, Goto
<1>2. Creating' = Creating
  BY <1>0, <1>1 DEF Creating
<1>3. /\ Len(prepared') = Len(prepared)
      /\ \A i \in Stmts : prepared'[i].text = prepared[i].text /\ prepared'[i].tx = prepared[i].tx
  <2>1. CASE ~req[p].tx
    BY <2>1 DEF Exec
  <2>2. CASE req[p].tx
    <3> DEFINE closed == [prepared[statement[p]] EXCEPT !.open = FALSE]
    <3>1. prepared' = [prepared EXCEPT ![statement[p]] = closed]
      BY <2>2 DEF Exec
    <3>2. prepared[statement[p]] \in Statement
      BY <1>0, ElementType DEF Stmts
    <3>3. closed.text = prepared[statement[p]].text /\ closed.tx = prepared[statement[p]].tx
      BY <3>2 DEF Statement
    <3> HIDE DEF closed
    <3> QED
      BY <1>0, <3>1, <3>3 DEF Stmts
  <2> QED
    BY <2>1, <2>2
<1>4. ASSUME NEW x \in Text PROVE PreparedFor(x)' = PreparedFor(x)
  BY <1>3 DEF PreparedFor, Stmts
<1>5. ASSUME NEW x \in Text, NEW q \in Late(x)' PROVE q \in Late(x)
  <2>1. s \in [Proc -> 0..Len(caches)] /\ req \in [Proc -> Request \cup {None}] /\ q \in Proc
    BY <1>0, <1>5 DEF TypeOK, Late
  <2> QED
    BY <1>0, <1>1, <1>5, <2>1 DEF Late, Missing, Vacant
<1>6. ASSUME NEW x \in Text, NEW q \in Fresh(x)' PROVE q \in Fresh(x)
  <2>1. s \in [Proc -> 0..Len(caches)] /\ req \in [Proc -> Request \cup {None}] /\ q \in Proc
    BY <1>0, <1>6 DEF TypeOK, Fresh
  <2> QED
    BY <1>0, <1>1, <1>6, <2>1 DEF Fresh, Vacant
<1> QED
  BY <1>0, <1>1, <1>2, <1>4, <1>5, <1>6, NoneJoins

\* Only while there is no Stmt does a request set out to allocate one; nothing
\* was prepared then.
LEMMA GetStmtNilBound ==
    ASSUME CacheInv, Allocations, Counted, NEW p \in Proc, GetStmtNil(p)
    PROVE  Allocations' /\ Counted'
<1>0. TypeOK /\ UNCHANGED <<PGCache, realName, stmts, caches, prepared, req, s>> /\ Len(caches) = 0
      /\ pc \in [Proc -> Label]
      /\ pc' = [pc EXCEPT ![p] = "create"]
  BY DEF Label, GetStmtNil, Goto, CacheInv, TypeOK, Allocations
<1>1. Creating' \in SUBSET Proc
  BY DEF Creating
<1>2. Cardinality(Creating') \in Nat /\ Cardinality(Creating') <= Cardinality(Proc)
  BY <1>1, RequestSets
<1>3. Allocations'
  BY <1>0, <1>2 DEF Allocations
<1>4. Counted'
  <2> SUFFICES ASSUME PGCache, NEW x \in Text
               PROVE  Cardinality(PreparedFor(x)') + Cardinality(Late(x)') + Cardinality(Fresh(x)')
                          <= Most(Len(caches)) - Len(caches) * Cardinality(Creating')
    BY <1>0 DEF Counted, Most
  <2>1. Cardinality(PreparedFor(x)) + Cardinality(Late(x)) + Cardinality(Fresh(x))
            <= Most(Len(caches)) - Len(caches) * Cardinality(Creating)
    BY DEF Counted
  <2>2. PreparedFor(x)' = PreparedFor(x) /\ Late(x)' = Late(x) /\ Fresh(x)' = Fresh(x)
    <3>1. PreparedFor(x)' = PreparedFor(x)
      BY <1>0 DEF PreparedFor
    <3>2. Late(x)' = Late(x)
      BY <1>0 DEF Late, Missing, Vacant, GetStmtNil
    <3>3. Fresh(x)' = Fresh(x)
      BY <1>0 DEF Fresh, Vacant
    <3> QED
      BY <3>1, <3>2, <3>3
  <2>3. Len(caches) * Cardinality(Creating') = 0 /\ Len(caches) * Cardinality(Creating) = 0
    BY <1>0, <1>2, Countable
  <2> QED
    BY <2>1, <2>2, <2>3
<1> QED
  BY <1>3, <1>4

\* A new Stmt: the requests that were fresh for the one it replaces may be late
\* by now, and all that do not allocate are fresh for the new one.
LEMMA GetStmtCreateBound ==
    ASSUME CacheInv, Allocations, Counted, NEW p \in Proc, GetStmtCreate(p)
    PROVE  Allocations' /\ Counted'
<1> DEFINE n == Cardinality(Proc)
           k == Len(caches)
           c == Cardinality(Creating)
<1>0. /\ TypeOK /\ UNCHANGED <<PGCache, realName, prepared, req, s>>
      /\ pc \in [Proc -> Label]
      /\ pc' = [pc EXCEPT ![p] = "return"] /\ pc[p] = "create"
      /\ caches \in Seq([Text -> 0..Len(prepared)]) /\ stmts' = Len(caches) + 1
      /\ caches' = Append(caches, [x \in Text |-> 0])
  BY DEF Label, GetStmtCreate, Goto, CacheInv, TypeOK
<1>1. Len(caches') = k + 1 /\ k \in Nat
      /\ caches'[k + 1] = [x \in Text |-> 0] /\ \A i \in 1..k : caches'[i] = caches[i]
  BY <1>0
<1>2. /\ Creating \in SUBSET Proc /\ p \in Creating /\ Creating' = Creating \ {p}
      /\ c \in Nat /\ n \in Nat /\ Cardinality(Creating') = c - 1
  <2>1. Creating \in SUBSET Proc /\ p \in Creating /\ Creating' = Creating \ {p}
    BY <1>0 DEF Creating
  <2> QED
    BY <2>1, OneLess, RequestSets
<1>3. Allocations'
  BY <1>0, <1>1, <1>2 DEF Allocations
<1>4. Counted'
  <2> SUFFICES ASSUME PGCache, NEW x \in Text
               PROVE  Cardinality(PreparedFor(x)') + Cardinality(Late(x)') + Cardinality(Fresh(x)')
                          <= Most(k + 1) - (k + 1) * (c - 1)
    BY <1>0, <1>1, <1>2 DEF Counted, Most
  <2> DEFINE N == Cardinality(PreparedFor(x))
             L == Cardinality(Late(x))
             F == Cardinality(Fresh(x))
  <2>1. N + L + F <= Most(k) - k * c
    BY DEF Counted
  <2>2. N \in Nat /\ L \in Nat /\ F \in Nat /\ Late(x) \in SUBSET Proc /\ Fresh(x) \in SUBSET Proc
    BY <1>0, Countable
  <2>3. PreparedFor(x)' = PreparedFor(x)
    BY <1>0 DEF PreparedFor
  <2>4. Cardinality(Late(x)') <= L + F
    <3>1. ASSUME NEW q \in Late(x)' PROVE q \in Late(x) \cup Fresh(x)
      <4>1. q \in Proc /\ q # p /\ pc[q] \in {"lookup", "prepare"}
        BY <1>0, <3>1 DEF Late
      <4>2. s[q] \in 1..k
        BY <1>0, <4>1 DEF TypeOK
      <4>3. Missing(q, x)
        BY <1>0, <1>1, <3>1, <4>1, <4>2 DEF Late, Missing
      <4> QED
        BY <4>1, <4>3 DEF Late, Fresh
    <3> QED
      BY <2>2, <3>1, Covered
  <2>5. Cardinality(Fresh(x)') <= n - (c - 1)
    <3>1. Fresh(x)' \subseteq Proc \ Creating'
      BY DEF Fresh, Creating
    <3>2. Creating' \in SUBSET Proc
      BY <1>2
    <3>3. IsFiniteSet(Proc \ Creating') /\ Cardinality(Proc \ Creating') = n - (c - 1)
      <4>1. Proc \cap Creating' = Creating'
        BY <3>2
      <4>2. /\ IsFiniteSet(Proc \ Creating')
            /\ Cardinality(Proc \ Creating') = n - Cardinality(Proc \cap Creating')
        BY ProcAssumption, FS_Difference
      <4> QED
        BY <1>2, <4>1, <4>2
    <3> QED
      BY <3>1, <3>3, FS_Subset
  <2>6. Cardinality(Late(x)') \in Nat /\ Cardinality(Fresh(x)') \in Nat
    <3>1. Late(x)' \in SUBSET Proc /\ Fresh(x)' \in SUBSET Proc
      BY DEF Late, Fresh
    <3> QED
      BY <3>1, RequestSets
  <2>7. Most(k) \in Int /\ Most(k + 1) = Most(k) + n - k
    BY <1>1, <1>2, MostGrows
  <2>8. k * c \in Int /\ (k + 1) * (c - 1) = k * c + c - k - 1
    <3>1. k \in Int /\ c \in Int
      BY <1>1, <1>2
    <3> HIDE DEF k, c
    <3> QED
      BY <3>1
  <2> HIDE DEF N, L, F, n, k, c
  <2>9. n \in Nat /\ c \in Nat /\ k \in Nat
    BY <1>1, <1>2 DEF k
  <2>10. Cardinality(PreparedFor(x)') = N
    BY <2>3 DEF N
  <2> QED
    BY <2>1, <2>2, <2>4, <2>5, <2>6, <2>7, <2>8, <2>9, <2>10
<1> QED
  BY <1>3, <1>4

\* A statement is prepared: the request that prepares it was late or fresh for
\* its text, and is neither afterwards.
LEMMA PrepareOKBound ==
    ASSUME CacheInv, Allocations, Counted, NEW p \in Proc, PrepareOK(p)
    PROVE  Allocations' /\ Counted'
<1> DEFINE new == Len(prepared) + 1
           stmt == [db |-> req[p].db, text |-> req[p].text, tx |-> req[p].tx, open |-> TRUE]
<1>0. /\ TypeOK /\ UNCHANGED <<PGCache, realName, stmts, caches, req, s>>
      /\ pc \in [Proc -> Label]
      /\ pc' = [pc EXCEPT ![p] = IF Cached(p) THEN "store" ELSE "exec"] /\ pc[p] = "prepare"
      /\ prepared' = Append(prepared, stmt) /\ prepared \in Seq(Statement) /\ req[p] \in Request
  BY RequestType DEF Label, PrepareOK, Goto, CacheInv, TypeOK
<1>1. Creating' = Creating
  BY <1>0 DEF Creating
<1>2. /\ Len(prepared') = new /\ Len(prepared) \in Nat
      /\ prepared'[new].text = req[p].text /\ prepared'[new].tx = req[p].tx
      /\ \A i \in 1..Len(prepared) : prepared'[i] = prepared[i]
  BY <1>0
<1>3. ASSUME PGCache, NEW x \in Text
      PROVE  /\ Cardinality(PreparedFor(x)') \in Nat
             /\ Cardinality(PreparedFor(x)') + Cardinality(Late(x)') + Cardinality(Fresh(x)')
                    <= Cardinality(PreparedFor(x)) + Cardinality(Late(x)) + Cardinality(Fresh(x))
  <2>0. /\ Late(x) \in SUBSET Proc /\ Fresh(x) \in SUBSET Proc /\ IsFiniteSet(PreparedFor(x))
        /\ Cardinality(PreparedFor(x)) \in Nat /\ Cardinality(Late(x)) \in Nat
        /\ Cardinality(Fresh(x)) \in Nat
    BY <1>0, Countable
  <2>1. Late(x)' \subseteq Late(x) \ {p}
    BY <1>0 DEF Late, Missing, Vacant
  <2>2. Fresh(x)' \subseteq Fresh(x)
    BY <1>0 DEF Fresh, Vacant
  <2>3. /\ Cardinality(Late(x)') \in Nat /\ Cardinality(Late(x)') <= Cardinality(Late(x))
        /\ Cardinality(Fresh(x)') \in Nat /\ Cardinality(Fresh(x)') <= Cardinality(Fresh(x))
    BY <2>0, <2>1, <2>2, RequestSets, FS_Subset
  <2>4. CASE req[p].tx \/ req[p].text # x
    <3>1. PreparedFor(x)' = PreparedFor(x)
      BY <1>2, <2>4 DEF PreparedFor
    <3> QED
      BY <2>0, <2>3, <3>1
  <2>5. CASE ~req[p].tx /\ req[p].text = x
    <3>1. PreparedFor(x)' = PreparedFor(x) \cup {new} /\ new \notin PreparedFor(x)
      BY <1>2, <2>5 DEF PreparedFor
    <3>2. Cardinality(PreparedFor(x)') = Cardinality(PreparedFor(x)) + 1
      BY <2>0, <3>1, FS_AddElement
    <3>3. pc'[p] = "store"
      BY <1>0, <1>3, <2>5 DEF Cached
    <3>4. CASE Vacant(x) /\ s[p] = Len(caches)
      <4>1. p \in Fresh(x) /\ Fresh(x)' \subseteq Fresh(x) \ {p}
        BY <1>0, <2>5, <3>3, <3>4 DEF Fresh, Vacant
      <4>2. /\ Cardinality(Fresh(x)') <= Cardinality(Fresh(x) \ {p})
            /\ Cardinality(Fresh(x) \ {p}) = Cardinality(Fresh(x)) - 1
        BY <2>0, <4>1, OneLess, RequestSets, FS_Subset
      <4> QED
        BY <2>0, <2>3, <3>2, <4>2
    <3>5. CASE ~(Vacant(x) /\ s[p] = Len(caches))
      <4>1. p \in Late(x)
        BY <1>0, <2>5, <3>5 DEF Late, Missing
      <4>2. /\ Cardinality(Late(x)') <= Cardinality(Late(x) \ {p})
            /\ Cardinality(Late(x) \ {p}) = Cardinality(Late(x)) - 1
        BY <2>0, <2>1, <4>1, OneLess, RequestSets, FS_Subset
      <4> QED
        BY <2>0, <2>3, <3>2, <4>2
    <3> QED
      BY <3>4, <3>5
  <2> QED
    BY <2>4, <2>5
<1> QED
  BY <1>0, <1>1, <1>3, NoGrowth

\* A statement is stored: the first in the current Stmt leaves no request fresh,
\* and those that have missed the Stmt are late.
LEMMA StoreBound ==
    ASSUME CacheInv, Allocations, Counted, NEW p \in Proc, Store(p)
    PROVE  Allocations' /\ Counted'
<1> DEFINE t == req[p].text
           m == [caches[s[p]] EXCEPT ![t] = statement[p]]
<1>0. /\ TypeOK /\ UNCHANGED <<PGCache, realName, stmts, prepared, req, s>>
      /\ pc \in [Proc -> Label]
      /\ pc' = [pc EXCEPT ![p] = "exec"] /\ pc[p] = "store" /\ caches' = [caches EXCEPT ![s[p]] = m]
      /\ caches \in Seq([Text -> 0..Len(prepared)]) /\ statement[p] # 0
  BY DEF Label, Store, Goto, CacheInv, TypeOK, UsableStatement
<1>1. /\ Len(caches) \in Nat /\ s[p] \in 1..Len(caches) /\ t \in Text
      /\ caches[s[p]] \in [Text -> 0..Len(prepared)]
  <2>1. req[p] \in Request
    BY <1>0, RequestType
  <2>2. Len(caches) \in Nat /\ s[p] \in 1..Len(caches)
    BY <1>0 DEF TypeOK
  <2> QED
    BY <1>0, <2>1, <2>2, ElementType DEF Request
<1>2. /\ Len(caches') = Len(caches) /\ Creating' = Creating
      /\ \A c \in 1..Len(caches), x \in Text :
             caches'[c][x] = IF c = s[p] /\ x = t THEN statement[p] ELSE caches[c][x]
  <2>1. Len(caches') = Len(caches) /\ Creating' = Creating
    BY <1>0, <1>1 DEF Creating
  <2>2. \A x \in Text : m[x] = IF x = t THEN statement[p] ELSE caches[s[p]][x]
    BY <1>1
  <2> HIDE DEF m
  <2> QED
    BY <1>0, <1>1, <2>1, <2>2
<1>3. ASSUME NEW x \in Text
      PROVE  /\ Cardinality(PreparedFor(x)') \in Nat
             /\ Cardinality(PreparedFor(x)') + Cardinality(Late(x)') + Cardinality(Fresh(x)')
                    <= Cardinality(PreparedFor(x)) + Cardinality(Late(x)) + Cardinality(Fresh(x))
  <2>0. /\ Late(x) \in SUBSET Proc /\ Fresh(x) \in SUBSET Proc
        /\ Cardinality(PreparedFor(x)) \in Nat /\ Cardinality(Late(x)) \in Nat
        /\ Cardinality(Fresh(x)) \in Nat
    BY <1>0, Countable
  <2>1. PreparedFor(x)' = PreparedFor(x)
    BY <1>0 DEF PreparedFor
  <2>2. ASSUME NEW q \in Late(x)' PROVE q \in Late(x) \cup Fresh(x)
    <3>1. q \in Proc /\ q # p /\ pc[q] \in {"lookup", "prepare"}
      BY <1>0, <2>2 DEF Late
    <3>2. s[q] \in 1..Len(caches)
      BY <1>0, <3>1 DEF TypeOK
    <3>3. Missing(q, x)
      BY <1>0, <1>2, <2>2, <3>1, <3>2 DEF Late, Missing
    <3> QED
      BY <3>1, <3>3 DEF Late, Fresh
  <2>3. CASE s[p] = Len(caches) /\ t = x
    <3>1. ~Vacant(x)'
      BY <1>0, <1>1, <1>2, <2>3 DEF Vacant
    <3>2. Fresh(x)' = {}
      BY <3>1 DEF Fresh
    <3>3. /\ Cardinality(Fresh(x)') = 0
          /\ Cardinality(Late(x)') <= Cardinality(Late(x)) + Cardinality(Fresh(x))
      BY <2>0, <2>2, <3>2, FS_EmptySet, Covered
    <3>4. Cardinality(Late(x)') \in Nat
      <4>1. Late(x)' \in SUBSET Proc
        BY DEF Late
      <4> QED
        BY <4>1, RequestSets
    <3> QED
      BY <2>0, <2>1, <3>3, <3>4
  <2>4. CASE ~(s[p] = Len(caches) /\ t = x)
    <3>1. Vacant(x)' = Vacant(x)
      BY <1>1, <1>2, <2>4 DEF Vacant
    <3>2. Fresh(x)' \subseteq Fresh(x)
      BY <1>0, <1>2, <2>4, <3>1 DEF Fresh
    <3>3. Late(x)' \subseteq Late(x)
      <4> SUFFICES ASSUME NEW q \in Late(x)' PROVE q \in Late(x)
        OBVIOUS
      <4>1. q \in Proc /\ q # p /\ pc[q] \in {"lookup", "prepare"}
        BY <1>0 DEF Late
      <4>2. s[q] \in 1..Len(caches)
        BY <1>0, <4>1 DEF TypeOK
      <4>3. Missing(q, x)
        BY <1>0, <1>2, <4>1, <4>2 DEF Late, Missing
      <4> QED
        BY <1>0, <1>2, <3>1, <4>1, <4>3 DEF Late
    <3>4. /\ Cardinality(Late(x)') \in Nat /\ Cardinality(Late(x)') <= Cardinality(Late(x))
          /\ Cardinality(Fresh(x)') \in Nat /\ Cardinality(Fresh(x)') <= Cardinality(Fresh(x))
      BY <2>0, <3>2, <3>3, RequestSets, FS_Subset
    <3> QED
      BY <2>0, <2>1, <3>4
  <2> QED
    BY <2>3, <2>4
<1> QED
  BY <1>0, <1>2, <1>3, NoGrowth

-----------------------------------------------------------------------------
\* At start-up there is no Stmt and no request that could prepare.
LEMMA InitBound == Init => BoundInv
<1> SUFFICES ASSUME Init PROVE BoundInv
  OBVIOUS
<1>1. CacheInv /\ TypeOK
  BY InitInv DEF CacheInv
<1>2. Creating = {} /\ Len(caches) = 0 /\ stmts = 0 /\ Len(prepared) = 0
  BY DEF Init, Creating
<1>3. Cardinality(Creating) = 0 /\ Cardinality(Proc) \in Nat
  BY <1>2, FS_EmptySet, ProcAssumption, FS_CardinalityType
<1>4. Allocations
  BY <1>2, <1>3 DEF Allocations
<1>5. Counted
  <2> SUFFICES ASSUME NEW x \in Text
               PROVE  Cardinality(PreparedFor(x)) + Cardinality(Late(x)) + Cardinality(Fresh(x))
                          <= Most(Len(caches)) - Len(caches) * Cardinality(Creating)
    BY DEF Counted
  <2>1. PreparedFor(x) = {} /\ Late(x) = {} /\ Fresh(x) = {}
    BY <1>2 DEF Init, PreparedFor, Late, Fresh, Vacant
  <2>2. Most(Len(caches)) = 0
    BY <1>2, <1>3 DEF Most
  <2> QED
    BY <1>2, <1>3, <2>1, <2>2, FS_EmptySet
<1> QED
  BY <1>1, <1>4, <1>5 DEF BoundInv

\* Every step preserves the count.
LEMMA NextBound == BoundInv /\ [Next]_vars => BoundInv'
<1> SUFFICES ASSUME BoundInv, [Next]_vars PROVE BoundInv'
  OBVIOUS
<1>1. CacheInv' /\ CacheInv /\ Allocations /\ Counted
  BY NextInv DEF BoundInv
<1>2. CASE UNCHANGED vars
  BY <1>1, <1>2 DEF BoundInv, vars, Allocations, Counted, Creating, PreparedFor, Late, Fresh,
     Missing, Vacant, Most
<1>3. CASE Next
  <2>1. PICK p \in Proc :
            \/ Arrive(p) \/ GetStmtNil(p) \/ GetStmtCreate(p) \/ GetStmtReturn(p)
            \/ Lookup(p) \/ PrepareOK(p) \/ PrepareFails(p) \/ Store(p) \/ Exec(p)
    BY <1>3 DEF Next
  <2>2. Allocations' /\ Counted'
    BY <1>1, <2>1, QuietBound, GetStmtNilBound, GetStmtCreateBound, PrepareOKBound, StoreBound,
       ExecBound
  <2> QED
    BY <1>1, <2>2 DEF BoundInv
<1> QED
  BY <1>2, <1>3

\* However many requests come, the cache leaves at most k*n - k*(k-1)/2 prepared
\* statements of a text behind with n requests in flight at a time, k <= n of
\* which raced through the unlocked GetStmt, and never more than n PrepareMaps.
THEOREM PreparedStatementsBounded == Spec => []PreparedBounded
<1>1. Spec => []BoundInv
  BY InitBound, NextBound, PTL DEF Spec
<1>2. BoundInv => PreparedBounded
  <2> SUFFICES ASSUME BoundInv PROVE PreparedBounded
    OBVIOUS
  <2>1. TypeOK /\ Allocations /\ Counted
    BY DEF BoundInv, CacheInv
  <2>2. /\ Creating \in SUBSET Proc /\ Len(caches) \in Nat
    BY <2>1 DEF Creating, TypeOK
  <2>3. Cardinality(Creating) \in Nat /\ Cardinality(Proc) \in Nat
    BY <2>2, RequestSets, ProcAssumption, FS_CardinalityType
  <2>4. Len(caches) <= Cardinality(Proc)
    BY <2>1, <2>2, <2>3 DEF Allocations
  <2>5. ASSUME PGCache, NEW x \in Text PROVE Cardinality(PreparedFor(x)) <= Most(Len(caches))
    <3>1. /\ Cardinality(PreparedFor(x)) \in Nat /\ Cardinality(Late(x)) \in Nat
          /\ Cardinality(Fresh(x)) \in Nat /\ Most(Len(caches)) \in Int
      BY <2>1, <2>2, <2>3, Countable, MostGrows
    <3>2. Cardinality(PreparedFor(x)) + Cardinality(Late(x)) + Cardinality(Fresh(x))
              <= Most(Len(caches)) - Len(caches) * Cardinality(Creating)
      BY <2>1, <2>5 DEF Counted
    <3>3. Len(caches) * Cardinality(Creating) \in Nat
      BY <2>2, <2>3
    <3> QED
      BY <3>1, <3>2, <3>3
  <2> QED
    BY <2>4, <2>5 DEF PreparedBounded, PreparedFor, Most
<1> QED
  BY <1>1, <1>2, PTL
=============================================================================
