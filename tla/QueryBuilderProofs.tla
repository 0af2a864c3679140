------------------------- MODULE QueryBuilderProofs -------------------------
(***************************************************************************)
(* The SQL text and its values agree, and the ownership filter holds, for  *)
(* every request: any number of conditions, columns and records.           *)
(***************************************************************************)
EXTENDS QueryBuilder, FiniteSetTheorems, TLAPS

Filtering == {"select", "delete", "update"}   \* the operations with a WHERE clause

\* Which operation is where, and what is still untouched then.
Phases ==
    /\ pc = "idle" => op = "none"
    /\ pc = "set" => op = "update"
    /\ pc \in {"where", "keys", "conds"} => op \in Filtering
    /\ pc \in {"insert", "fields"} => op = "insert"
    /\ pc \in {"batch", "record"} => op = "batch"
    /\ op = "none" => pid = 1
    /\ op # "update" => sets = {}
    /\ op \notin Filtering \/ pc \in {"set", "where"} => ands = {} /\ ors = {} /\ whereValues = <<>>
    /\ op \in {"none", "select", "delete"} \/ pc \in {"insert", "batch"} => values = <<>>
    /\ pc \notin {"record", "built"} \/ op \in Filtering => tuples = <<>>
    /\ pc \in {"idle", "insert"} => cols = <<>>
    /\ pc \in {"set", "fields"} => todo \subseteq DOMAIN body

\* The counter of placeholders is one ahead of the values collected.
Numbered == op \in Filtering => pid = Len(values) + Len(whereValues) + 1

\* The placeholders of a condition are those of its values.
ClausesBound ==
    \A c \in ands \cup ors : \A i \in DOMAIN c.ph :
        /\ c.ph[i] \in Len(values) + 1 .. Len(values) + Len(whereValues)
        /\ whereValues[c.ph[i] - Len(values)] = c.want[i]

FieldsBound ==
    \A f \in sets : f.col \in DOMAIN body /\ f.ph \in 1..Len(values) /\ values[f.ph] = body[f.col]

\* Every value collected so far has its place in the text.
ValuesUsed ==
    /\ op = "update" => \A n \in 1..Len(values) : \E f \in sets : f.ph = n
    /\ \A n \in 1..Len(whereValues) :
          \E c \in ands \cup ors : \E i \in DOMAIN c.ph : c.ph[i] = Len(values) + n
    /\ op = "batch" => \A n \in 1..Len(values) :
          \E i \in DOMAIN tuples : \E j \in DOMAIN tuples[i] : tuples[i][j] = n
    /\ op = "insert" /\ pc = "built" => tuples = <<createPlaceholders(1, Len(values))>>

\* Once WhereByRequest has started, the filter is among the conditions that
\* must all hold.
FilterThere ==
    op \in Filtering /\ pc \in {"keys", "conds", "built"} /\ Scope # Null =>
        /\ \E c \in ands : /\ c.src = (IF Scope = Ws THEN "tenant" ELSE "user")
                           /\ c.ph = <<Len(values) + 1>> /\ c.want = <<Scope>>
        /\ Scope = Uid /\ ResolveTenantCompat => \E c \in ands : c.src = "personal"

\* The columns of an INSERT and their values go together, the forced ones first
\* in the object and then in the row.
RowBuilt ==
    op = "insert" /\ pc \in {"fields", "built"} =>
        /\ DOMAIN Owned \subseteq DOMAIN body /\ \A c \in DOMAIN Owned : body[c] = Owned[c]
        /\ Len(cols) = Len(values)
        /\ \A j \in 1..Len(cols) : cols[j] \in DOMAIN body /\ values[j] = body[cols[j]]
        /\ \A c \in DOMAIN body : (pc = "fields" /\ c \in todo) \/ \E j \in 1..Len(cols) : cols[j] = c

BuildInv ==
    /\ TypeOK /\ Phases /\ Numbered /\ ClausesBound /\ FieldsBound /\ ValuesUsed /\ FilterThere
    /\ RowBuilt

-----------------------------------------------------------------------------
\* A function on 1..n is a sequence of that length.
LEMMA SeqOf ==
    ASSUME NEW S, NEW n \in Nat, NEW f \in [1..n -> S]
    PROVE  f \in Seq(S) /\ Len(f) = n /\ DOMAIN f = 1..n
OBVIOUS

\* Where the parts of a concatenation end up.
LEMMA ConcatIndex ==
    ASSUME NEW S, NEW s \in Seq(S), NEW t \in Seq(S)
    PROVE  /\ s \o t \in Seq(S) /\ Len(s \o t) = Len(s) + Len(t)
           /\ \A j \in 1..Len(s) : (s \o t)[j] = s[j]
           /\ \A i \in 1..Len(t) : (s \o t)[Len(s) + i] = t[i]
OBVIOUS

\* What clients send is well formed.
LEMMA InputsTyped ==
    /\ Queries \subseteq [Key -> Seq(Conds)]
    /\ \A b \in Objects : IsObject(b)
    /\ \A a \in Arrays : /\ \A i \in DOMAIN a : IsObject(a[i])
                         /\ Len(a) \in Nat /\ DOMAIN a = 1..Len(a)
    /\ IsObject(Empty) /\ [k \in Key |-> <<>>] \in [Key -> Seq(Conds)]
<1>1. Queries \subseteq [Key -> Seq(Conds)]
  BY DEF Queries
<1>2. \A b \in Objects : IsObject(b)
  BY ColumnsAssumption DEF Objects, IsObject, Token, Sent
<1>3. \A a \in Arrays : \A i \in DOMAIN a : IsObject(a[i])
  <2> SUFFICES ASSUME NEW m \in 0..MaxRecords, NEW B \in [1..m -> Bodies], NEW i \in 1..m
               PROVE  IsObject([c \in B[i] |-> <<c, i, 1>>])
    BY DEF Arrays
  <2>1. B[i] \subseteq Column /\ i \in Nat
    BY ColumnsAssumption, BoundsAssumption
  <2> QED
    BY <2>1 DEF IsObject, Token, Sent
<1>4. IsObject(Empty)
  BY DEF IsObject, Empty
<1>5. [k \in Key |-> <<>>] \in [Key -> Seq(Conds)]
  <2>1. <<>> \in Seq(Conds)
    OBVIOUS
  <2> QED
    BY <2>1, Zenon
<1>6. \A a \in Arrays : Len(a) \in Nat /\ DOMAIN a = 1..Len(a)
  <2> SUFFICES ASSUME NEW m \in 0..MaxRecords, NEW B \in [1..m -> Bodies]
               PROVE  LET a == [i \in 1..m |-> [c \in B[i] |-> <<c, i, 1>>]]
                      IN  Len(a) \in Nat /\ DOMAIN a = 1..Len(a)
    BY DEF Arrays
  <2> DEFINE a == [i \in 1..m |-> [c \in B[i] |-> <<c, i, 1>>]]
             S == {a[i] : i \in 1..m}
  <2>1. m \in Nat /\ a \in [1..m -> S]
    BY BoundsAssumption
  <2> HIDE DEF a, S
  <2>2. Len(a) = m /\ DOMAIN a = 1..m
    BY <2>1, SeqOf
  <2> QED
    BY <2>1, <2>2 DEF a
<1> QED
  BY <1>1, <1>2, <1>3, <1>4, <1>5, <1>6

\* Before the first request nothing is built.
LEMMA InitInv == Init => BuildInv
<1> SUFFICES ASSUME Init PROVE BuildInv
  OBVIOUS
<1>0. query \in [Key -> Seq(Conds)]
  BY InputsTyped, Zenon DEF Init
<1>1. TypeOK
  <2>1. IsObject(body) /\ DOMAIN records = 1..Len(records) /\ Len(records) = 0
    BY InputsTyped DEF Init
  <2>2. /\ cols \in Seq(Column) /\ tuples \in Seq(Seq(Nat))
        /\ values \in Seq(Token) /\ whereValues \in Seq(Token)
    BY DEF Init
  <2>3. key \in Key /\ idx \in Nat \ {0} /\ pid \in Nat \ {0}
    BY ColumnsAssumption DEF Init
  <2>4. /\ op \in {"none", "select", "delete", "update", "insert", "batch"}
        /\ pc \in Label
    BY DEF Init, Label
  <2>5. /\ rules = {} /\ uid = FALSE /\ ws = FALSE /\ todo = {} /\ sets = {}
        /\ ands = {} /\ ors = {}
    BY DEF Init
  <2>6. /\ Len(records) \in Nat
        /\ \A i \in DOMAIN records : IsObject(records[i])
    BY <2>1
  <2> QED
    BY <1>0, <2>1, <2>2, <2>3, <2>4, <2>5, <2>6 DEF TypeOK
<1> QED
  BY <1>1 DEF Init, BuildInv, Phases, Numbered, ClausesBound, FieldsBound, ValuesUsed, FilterThere,
     RowBuilt, Filtering

\* A request that ends leaves the initial state behind.
LEMMA ResetInv == Reset => BuildInv'
<1> SUFFICES ASSUME Reset PROVE BuildInv'
  OBVIOUS
<1>0. query' \in [Key -> Seq(Conds)]
  BY InputsTyped, Zenon DEF Reset
<1>1. TypeOK'
  <2>1. IsObject(body') /\ DOMAIN records' = 1..Len(records') /\ Len(records') = 0
    BY InputsTyped DEF Reset
  <2>2. /\ cols' \in Seq(Column) /\ tuples' \in Seq(Seq(Nat))
        /\ values' \in Seq(Token) /\ whereValues' \in Seq(Token)
    BY DEF Reset
  <2>3. key' \in Key /\ idx' \in Nat \ {0} /\ pid' \in Nat \ {0}
    BY ColumnsAssumption DEF Reset
  <2>4. /\ op' \in {"none", "select", "delete", "update", "insert", "batch"}
        /\ pc' \in Label
    BY DEF Reset, Label
  <2>5. /\ rules' = {} /\ uid' = FALSE /\ ws' = FALSE /\ todo' = {} /\ sets' = {}
        /\ ands' = {} /\ ors' = {}
    BY DEF Reset
  <2>6. /\ Len(records') \in Nat
        /\ \A i \in DOMAIN records' : IsObject(records'[i])
    BY <2>1
  <2> QED
    BY <1>0, <2>1, <2>2, <2>3, <2>4, <2>5, <2>6 DEF TypeOK
<1> QED
  BY <1>1 DEF Reset, BuildInv, Phases, Numbered, ClausesBound, FieldsBound, ValuesUsed, FilterThere,
     RowBuilt, Filtering

\* A request reaches its handler: nothing is built yet.
LEMMA ReceiveInv ==
    ASSUME BuildInv,
           \/ SelectFromTables \/ DeleteFromTable \/ UpdateTable \/ InsertInTables
           \/ BatchInsertInTables
    PROVE  BuildInv'
<1> DEFINE Plain == [k \in Key |-> <<>>]
<1>1. PICK o, l :
        /\ <<o, l>> \in {<<"select", "where">>, <<"delete", "where">>, <<"update", "set">>,
                        <<"insert", "insert">>, <<"batch", "batch">>}
        /\ pc = "idle" /\ pc' = l /\ op' = o
        /\ rules' \in SUBSET {"user", "compat"} /\ uid' \in BOOLEAN /\ ws' \in BOOLEAN
        /\ query' \in Queries \cup {Plain} /\ body' \in Objects \cup {Empty}
        /\ records' \in Arrays \cup {<<>>}
        /\ todo' = DOMAIN body' /\ pid' = 1
        /\ UNCHANGED <<key, idx, sets, cols, tuples, ands, ors, values, whereValues>>
  BY DEF SelectFromTables, DeleteFromTable, UpdateTable, InsertInTables, BatchInsertInTables,
     Receive, Goto
<1>2. query' \in [Key -> Seq(Conds)]
  BY <1>1, InputsTyped, Zenon
<1>3. /\ IsObject(body') /\ \A i \in DOMAIN records' : IsObject(records'[i])
      /\ Len(records') \in Nat /\ DOMAIN records' = 1..Len(records')
  BY <1>1, InputsTyped
<1>4. todo' \subseteq Column
  BY <1>1, <1>3 DEF IsObject
<1>5. TypeOK'
  BY <1>1, <1>2, <1>3, <1>4 DEF BuildInv, TypeOK, Label
<1>6. op = "none" /\ pid = 1 /\ sets = {} /\ ands = {} /\ ors = {} /\ whereValues = <<>>
      /\ values = <<>> /\ tuples = <<>> /\ cols = <<>>
  BY <1>1 DEF BuildInv, Phases, Filtering
<1>7. Phases' /\ Numbered'
  BY <1>1, <1>6 DEF Phases, Numbered, Filtering
<1>8. ClausesBound' /\ FieldsBound' /\ ValuesUsed' /\ FilterThere' /\ RowBuilt'
  BY <1>1, <1>6 DEF ClausesBound, FieldsBound, ValuesUsed, FilterThere, RowBuilt
<1> QED
  BY <1>5, <1>7, <1>8 DEF BuildInv

\* The steps that only move on: what they leave alone is all that matters.
LEMMA QuietInv ==
    ASSUME BuildInv,
           SetDone \/ (\E k \in Key : NextKey(k)) \/ KeyDone \/ WhereDone \/ BatchDone
    PROVE  BuildInv'
<1> USE DEF BuildInv
<1>1. UNCHANGED <<op, rules, uid, ws, query, body, records, sets, cols, tuples, ands, ors, values,
                  whereValues>>
  BY DEF SetDone, NextKey, KeyDone, WhereDone, BatchDone, input
<1>2. /\ <<pc, pc'>> \in {<<"set", "where">>, <<"keys", "conds">>, <<"conds", "keys">>,
                         <<"keys", "built">>, <<"record", "built">>}
      /\ todo' \subseteq todo
      /\ key' \in Key /\ idx' \in Nat \ {0}
  BY DEF SetDone, NextKey, KeyDone, WhereDone, BatchDone, Goto, TypeOK
<1>3. pid' = pid \/ (pc = "set" /\ pid' = Len(values) + 1)
  BY DEF SetDone, NextKey, KeyDone, WhereDone, BatchDone
<1>4. pid' \in Nat \ {0}
  BY <1>3 DEF TypeOK
<1>5. TypeOK'
  BY <1>1, <1>2, <1>4 DEF TypeOK, Label, IsObject
<1>6. Phases' /\ Numbered'
  <2>1. Phases'
    <3>1. op # "none" /\ pc # "idle"
      BY <1>2 DEF Phases, Filtering
    <3>2. pc = "record" => op = "batch"
      BY DEF Phases
    <3>3. pc # "record" => op \in Filtering /\ (pc = "set" => op = "update")
      BY <1>2 DEF Phases, Filtering
    <3> QED
      BY <1>1, <1>2, <3>1, <3>2, <3>3 DEF Phases, Filtering
  <2>2. CASE pc = "set"
    <3>1. whereValues = <<>> /\ Len(values) \in Nat
      BY <2>2 DEF Phases, TypeOK
    <3>2. pid = Len(values) + 1
      BY <2>2, <3>1 DEF Phases, Numbered, Filtering
    <3> QED
      BY <1>1, <1>3, <2>1, <3>1, <3>2 DEF Numbered
  <2>3. CASE pc # "set"
    BY <1>1, <1>3, <2>1, <2>3 DEF Numbered
  <2> QED
    BY <2>1, <2>2, <2>3
<1>7. ClausesBound' /\ FieldsBound'
  BY <1>1 DEF ClausesBound, FieldsBound
<1>8. ValuesUsed' /\ RowBuilt'
  BY <1>1, <1>2 DEF ValuesUsed, RowBuilt, Phases, Filtering
<1>9. FilterThere'
  <2>1. Scope' = Scope /\ (ResolveTenantCompat' <=> ResolveTenantCompat)
    BY <1>1 DEF Scope, ResolveTenantCompat, ResolveUserIDColumn
  <2>2. CASE pc \in {"keys", "conds"}
    BY <1>1, <2>1, <2>2 DEF FilterThere
  <2>3. CASE pc \notin {"keys", "conds"}
    <3>1. pc' = "where" \/ op' = "batch"
      BY <1>1, <1>2, <2>3 DEF Phases
    <3> QED
      BY <3>1 DEF FilterThere, Filtering
  <2> QED
    BY <2>2, <2>3
<1> QED
  BY <1>5, <1>6, <1>7, <1>8, <1>9

\* SetByRequest takes a field: its placeholder is the place of its value.
LEMMA SetFieldInv ==
    ASSUME BuildInv, NEW c \in Column, SetField(c)
    PROVE  BuildInv'
<1> USE DEF BuildInv
<1>1. /\ op = "update" /\ pc = "set" /\ pc' = pc /\ c \in DOMAIN body
      /\ ands = {} /\ ors = {} /\ whereValues = <<>> /\ tuples = <<>>
      /\ pid = Len(values) + 1
  BY DEF SetField, Phases, Numbered, Filtering, TypeOK
<1>2. /\ sets' = sets \cup {[col |-> c, ph |-> pid]} /\ pid' = pid + 1
      /\ values' = Append(values, body[c]) /\ todo' = todo \ {c}
      /\ UNCHANGED <<op, rules, uid, ws, query, body, records, key, idx, cols, tuples, ands, ors,
                     whereValues>>
  BY DEF SetField, input
<1>3. body[c] \in Token
  BY <1>1 DEF TypeOK, IsObject
<1>4. /\ values' \in Seq(Token) /\ Len(values') = Len(values) + 1
      /\ \A i \in 1..Len(values) : values'[i] = values[i]
      /\ values'[Len(values) + 1] = body[c]
  BY <1>2, <1>3 DEF TypeOK
<1>5. TypeOK'
  BY <1>1, <1>2, <1>4 DEF TypeOK, Label, IsObject, Field
<1>6. Phases' /\ Numbered'
  BY <1>1, <1>2, <1>4 DEF Phases, Numbered, Filtering, TypeOK
<1>7. ClausesBound' /\ FilterThere' /\ RowBuilt'
  BY <1>1, <1>2 DEF ClausesBound, FilterThere, RowBuilt
<1>8. FieldsBound'
  BY <1>1, <1>2, <1>4 DEF FieldsBound, TypeOK
<1>9. ValuesUsed'
  <2>1. ASSUME NEW n \in 1..Len(values') PROVE \E f \in sets' : f.ph = n
    <3>1. CASE n \in 1..Len(values)
      BY <1>1, <1>2, <3>1 DEF ValuesUsed
    <3>2. CASE n = Len(values) + 1
      <4>1. [col |-> c, ph |-> pid] \in sets' /\ [col |-> c, ph |-> pid].ph = n
        BY <1>1, <1>2, <3>2
      <4> QED
        BY <4>1
    <3> QED
      BY <1>4, <3>1, <3>2 DEF TypeOK
  <2> QED
    BY <1>1, <1>2, <2>1 DEF ValuesUsed
<1> QED
  BY <1>5, <1>6, <1>7, <1>8, <1>9

\* The ownership filter takes the first placeholder of the WHERE clause.
LEMMA WhereOwnerInv == ASSUME BuildInv, WhereOwner PROVE BuildInv'
<1> USE DEF BuildInv
<1> DEFINE n0 == Len(values)
           src == IF Scope = Ws THEN "tenant" ELSE "user"
           first == [src |-> src, ph |-> <<pid>>, want |-> <<Scope>>]
           personal == [src |-> "personal", ph |-> <<>>, want |-> <<>>]
<1>1. /\ op \in Filtering /\ ands = {} /\ ors = {} /\ whereValues = <<>> /\ tuples = <<>>
      /\ pid = n0 + 1 /\ n0 \in Nat /\ pc' = "keys"
  BY DEF WhereOwner, Goto, Phases, Numbered, Filtering, TypeOK
<1>2. UNCHANGED <<op, rules, uid, ws, query, body, records, key, idx, sets, cols, tuples, ors, values>>
  BY DEF WhereOwner, input
<1>3. todo' \subseteq Key
  BY DEF WhereOwner
<1>4. Scope' = Scope /\ (ResolveTenantCompat' <=> ResolveTenantCompat) /\ Scope \in {Ws, Uid, Null}
  BY <1>2 DEF Scope, ResolveTenantCompat, ResolveUserIDColumn
<1>5. CASE Scope = Null
  <2>1. ands' = {} /\ whereValues' = <<>> /\ pid' = pid
    BY <1>5 DEF WhereOwner
  <2>2. TypeOK'
    BY <1>1, <1>2, <1>3, <2>1 DEF TypeOK, Label, IsObject
  <2>3. Phases' /\ Numbered' /\ FieldsBound' /\ ClausesBound'
    BY <1>1, <1>2, <2>1 DEF Phases, Numbered, FieldsBound, ClausesBound, Filtering
  <2>4. ValuesUsed' /\ RowBuilt' /\ FilterThere'
    BY <1>1, <1>2, <1>4, <1>5, <2>1 DEF ValuesUsed, RowBuilt, FilterThere, Filtering
  <2> QED
    BY <2>2, <2>3, <2>4
<1>6. CASE Scope # Null
  <2>1. /\ ands' = {first} \cup (IF Scope = Uid /\ ResolveTenantCompat THEN {personal} ELSE {})
        /\ whereValues' = <<Scope>> /\ pid' = pid + 1
    BY <1>6 DEF WhereOwner
  <2>2. Scope \in Token /\ first \in Clause /\ personal \in Clause
    BY <1>1, <1>4 DEF Token, Clause
  <2>3. TypeOK'
    <3>1. ands' \subseteq Clause /\ whereValues' \in Seq(Token) /\ pid' \in Nat \ {0}
      BY <1>1, <2>1, <2>2
    <3> QED
      BY <1>1, <1>2, <1>3, <3>1 DEF TypeOK, Label, IsObject
  <2>4. Phases' /\ Numbered' /\ FieldsBound'
    BY <1>1, <1>2, <2>1 DEF Phases, Numbered, FieldsBound, Filtering
  <2>5. ClausesBound'
    BY <1>1, <1>2, <2>1 DEF ClausesBound
  <2>6. first \in ands' /\ first.ph = <<n0 + 1>> /\ first.want = <<Scope>> /\ first.src = src
    BY <1>1, <2>1
  <2>7. ValuesUsed'
    <3>1. ASSUME NEW n \in 1..Len(whereValues')
          PROVE  \E c \in ands' \cup ors' : \E i \in DOMAIN c.ph : c.ph[i] = n0 + n
      <4>1. n = 1 /\ 1 \in DOMAIN first.ph /\ first.ph[1] = n0 + 1
        BY <2>1, <2>6
      <4> QED
        BY <2>6, <4>1
    <3>2. op' = "update" => \A n \in 1..Len(values') : \E f \in sets' : f.ph = n
      BY <1>2 DEF ValuesUsed
    <3> QED
      BY <1>1, <1>2, <3>1, <3>2 DEF ValuesUsed, Filtering
  <2>8. FilterThere'
    <3>1. Scope = Uid /\ ResolveTenantCompat => \E c \in ands' : c.src = "personal"
      <4>1. personal.src = "personal"
        OBVIOUS
      <4> QED
        BY <2>1, <4>1
    <3>2. \E c \in ands' : /\ c.src = (IF Scope = Ws THEN "tenant" ELSE "user")
                           /\ c.ph = <<n0 + 1>> /\ c.want = <<Scope>>
      BY <2>6
    <3> QED
      BY <1>2, <1>4, <3>1, <3>2 DEF FilterThere
  <2>9. RowBuilt'
    BY <1>1, <1>2 DEF RowBuilt, Filtering
  <2> QED
    BY <2>3, <2>4, <2>5, <2>7, <2>8, <2>9
<1> QED
  BY <1>5, <1>6

\* A condition takes the next placeholders, as many as it has values.
LEMMA TakeCondInv == ASSUME BuildInv, TakeCond PROVE BuildInv'
<1> USE DEF BuildInv
<1> DEFINE c == query[key][idx]
           n == whereKeyAndValue(c)
           ph == [i \in 1..n |-> pid + i - 1]
           want == [i \in 1..n |-> <<key, idx, i>>]
           clause == [src |-> "client", ph |-> ph, want |-> want]
           v == Len(values)
           w == Len(whereValues)
<1>1. /\ pc = "conds" /\ pc' = pc /\ idx <= Len(query[key])
      /\ ands' \cup ors' = ands \cup ors \cup {clause} /\ ands \subseteq ands'
      /\ ands' \subseteq ands \cup {clause} /\ ors' \subseteq ors \cup {clause}
      /\ whereValues' = whereValues \o want /\ pid' = pid + n /\ idx' = idx + 1
      /\ UNCHANGED <<op, rules, uid, ws, query, body, records, todo, key, sets, cols, tuples,
                     values>>
  BY DEF TakeCond, input
<1>2. op \in Filtering /\ tuples = <<>>
  BY <1>1 DEF Phases, Filtering
<1>3. v \in Nat /\ w \in Nat /\ pid = v + w + 1 /\ idx \in Nat \ {0} /\ key \in Key
  BY <1>2 DEF Numbered, TypeOK
<1>4. n \in Nat
  <2>1. c \in Conds
    BY <1>1, <1>3 DEF TypeOK
  <2>2. c.n \in Nat
    BY <2>1, CondsAssumption
  <2> QED
    BY <2>2 DEF whereKeyAndValue
<1> HIDE DEF c, n
<1>5. /\ ph \in Seq(Nat) /\ want \in Seq(Token)
      /\ Len(want) = n /\ DOMAIN ph = 1..n /\ clause \in Clause
  <2>1. \A i \in 1..n : pid + i - 1 \in Nat /\ <<key, idx, i>> \in Token
    BY <1>3, <1>4 DEF Token, Sent
  <2>2. ph \in Seq(Nat) /\ want \in Seq(Token) /\ Len(want) = n /\ DOMAIN ph = 1..n
    <3>1. ph \in [1..n -> Nat] /\ want \in [1..n -> Token]
      BY <2>1
    <3> QED
      BY <1>4, <3>1, SeqOf
  <2> QED
    BY <2>2 DEF Clause
<1>6. /\ whereValues' \in Seq(Token) /\ Len(whereValues') = w + n
      /\ \A j \in 1..w : whereValues'[j] = whereValues[j]
      /\ \A i \in 1..n : whereValues'[w + i] = want[i]
  <2> HIDE DEF want
  <2>1. whereValues \in Seq(Token) /\ want \in Seq(Token)
    BY <1>5 DEF TypeOK
  <2>2. /\ whereValues \o want \in Seq(Token) /\ Len(whereValues \o want) = w + Len(want)
        /\ \A j \in 1..w : (whereValues \o want)[j] = whereValues[j]
        /\ \A i \in 1..Len(want) : (whereValues \o want)[w + i] = want[i]
    BY <2>1, ConcatIndex
  <2> QED
    BY <1>1, <1>5, <2>2
<1>7. clause.ph = ph /\ clause.want = want
  OBVIOUS
<1> HIDE DEF clause
<1>8. TypeOK'
  <2>1. ands' \subseteq Clause /\ ors' \subseteq Clause /\ pid' \in Nat \ {0} /\ idx' \in Nat \ {0}
    BY <1>1, <1>3, <1>4, <1>5 DEF TypeOK
  <2> QED
    BY <1>1, <1>6, <2>1 DEF TypeOK, IsObject
<1>9. Phases' /\ Numbered'
  BY <1>1, <1>2, <1>3, <1>4, <1>6 DEF Phases, Numbered, Filtering
<1>10. ClausesBound'
  <2> SUFFICES ASSUME NEW d \in ands' \cup ors', NEW i \in DOMAIN d.ph
               PROVE  /\ d.ph[i] \in v + 1 .. v + Len(whereValues')
                      /\ whereValues'[d.ph[i] - v] = d.want[i]
    BY <1>1 DEF ClausesBound
  <2>1. CASE d \in ands \cup ors
    <3>1. d.ph[i] \in v + 1 .. v + w /\ whereValues[d.ph[i] - v] = d.want[i]
      BY <2>1 DEF ClausesBound
    <3>2. d.ph[i] - v \in 1..w
      BY <1>3, <3>1
    <3> QED
      BY <1>3, <1>4, <1>6, <3>1, <3>2
  <2>2. CASE d = clause
    <3>1. i \in 1..n /\ d.ph[i] = v + w + i /\ d.want[i] = want[i]
      <4>1. i \in 1..n
        BY <1>5, <1>7, <2>2
      <4>2. ph[i] = pid + i - 1
        BY <4>1
      <4> HIDE DEF ph, want
      <4> QED
        BY <1>3, <1>4, <1>7, <2>2, <4>1, <4>2
    <3>2. d.ph[i] - v = w + i /\ d.ph[i] \in v + 1 .. v + (w + n)
      BY <1>3, <1>4, <3>1
    <3>3. whereValues'[w + i] = d.want[i]
      BY <1>6, <3>1
    <3> HIDE DEF v, w
    <3> QED
      BY <1>6, <3>2, <3>3
  <2> QED
    BY <1>1, <2>1, <2>2
<1>11. ValuesUsed'
  <2>1. ASSUME NEW m \in 1..Len(whereValues')
        PROVE  \E d \in ands' \cup ors' : \E i \in DOMAIN d.ph : d.ph[i] = v + m
    <3>1. CASE m \in 1..w
      BY <1>1, <3>1 DEF ValuesUsed
    <3>2. CASE m \in w + 1 .. w + n
      <4>1. m - w \in 1..n
        BY <1>3, <1>4, <3>2
      <4>2. ph[m - w] = pid + (m - w) - 1
        BY <4>1
      <4> HIDE DEF ph, want
      <4>3. ph[m - w] = v + m /\ m - w \in DOMAIN ph
        BY <1>3, <1>5, <3>2, <4>1, <4>2
      <4>4. clause \in ands' \cup ors'
        BY <1>1
      <4> QED
        BY <1>7, <4>3, <4>4
    <3>3. m \in 1..w \/ m \in w + 1 .. w + n
      BY <1>3, <1>4, <1>6
    <3> QED
      BY <3>1, <3>2, <3>3
  <2>2. op' = "update" => \A m \in 1..Len(values') : \E f \in sets' : f.ph = m
    BY <1>1 DEF ValuesUsed
  <2>3. v = Len(values') /\ op' \notin {"batch", "insert"}
    BY <1>1, <1>2 DEF Filtering
  <2> HIDE DEF v
  <2> QED
    BY <2>1, <2>2, <2>3 DEF ValuesUsed
<1>12. FilterThere'
  <2>1. Scope' = Scope /\ (ResolveTenantCompat' <=> ResolveTenantCompat)
    BY <1>1 DEF Scope, ResolveTenantCompat, ResolveUserIDColumn
  <2> QED
    BY <1>1, <2>1 DEF FilterThere
<1>13. FieldsBound' /\ RowBuilt'
  BY <1>1, <1>2 DEF FieldsBound, RowBuilt, Filtering
<1> QED
  BY <1>8, <1>9, <1>10, <1>11, <1>12, <1>13

\* The ownership columns replace what the client sent under these names.
LEMMA ForceOwnerInv == ASSUME BuildInv, ForceOwner PROVE BuildInv'
<1> USE DEF BuildInv
<1>1. /\ pc = "insert" /\ pc' = "fields" /\ todo' = DOMAIN body'
      /\ body' = [c \in DOMAIN body \cup DOMAIN Owned |->
                     IF c \in DOMAIN Owned THEN Owned[c] ELSE body[c]]
      /\ UNCHANGED <<op, rules, uid, ws, query, records, key, idx, pid, sets, cols, tuples, ands,
                     ors, values, whereValues>>
  BY DEF ForceOwner, Goto
<1>2. /\ op = "insert" /\ sets = {} /\ ands = {} /\ ors = {} /\ whereValues = <<>>
      /\ values = <<>> /\ tuples = <<>> /\ cols = <<>>
  BY <1>1 DEF Phases, Filtering
<1>3. IsObject(Owned)
  BY ColumnsAssumption DEF Owned, IsObject, Empty, Token
<1>4. DOMAIN body \subseteq Column /\ \A c \in DOMAIN body : body[c] \in Token
  BY DEF TypeOK, IsObject
<1>5. DOMAIN Owned \subseteq Column /\ \A c \in DOMAIN Owned : Owned[c] \in Token
  BY <1>3 DEF IsObject
<1>6. Owned' = Owned
  BY <1>1 DEF Owned, ResolveTenantCompat, ResolveUserIDColumn
<1> HIDE DEF Owned
<1>7. IsObject(body')
  <2>1. DOMAIN body' = DOMAIN body \cup DOMAIN Owned
    BY <1>1
  <2> QED
    BY <1>1, <1>4, <1>5, <2>1 DEF IsObject
<1>8. TypeOK'
  BY <1>1, <1>7 DEF TypeOK, IsObject, Label
<1>9. Phases' /\ Numbered'
  BY <1>1, <1>2 DEF Phases, Numbered, Filtering
<1>10. ClausesBound' /\ FieldsBound' /\ ValuesUsed' /\ FilterThere'
  BY <1>1, <1>2 DEF ClausesBound, FieldsBound, ValuesUsed, FilterThere, Filtering
<1>11. RowBuilt'
  <2>1. DOMAIN Owned \subseteq DOMAIN body' /\ \A c \in DOMAIN Owned : body'[c] = Owned[c]
    BY <1>1
  <2>2. Len(cols') = 0 /\ Len(values') = 0
    BY <1>1, <1>2
  <2> QED
    BY <1>1, <1>6, <2>1, <2>2 DEF RowBuilt
<1> QED
  BY <1>8, <1>9, <1>10, <1>11

\* ParseInsertRequest takes a field: column and value get the same place.
LEMMA InsertFieldInv == ASSUME BuildInv, NEW c \in Column, InsertField(c) PROVE BuildInv'
<1> USE DEF BuildInv
<1>1. /\ pc = "fields" /\ pc' = pc /\ c \in todo /\ todo' = todo \ {c}
      /\ cols' = Append(cols, c) /\ values' = Append(values, body[c])
      /\ UNCHANGED <<op, rules, uid, ws, query, body, records, key, idx, pid, sets, tuples, ands,
                     ors, whereValues>>
  BY DEF InsertField, input
<1>2. /\ op = "insert" /\ sets = {} /\ ands = {} /\ ors = {} /\ whereValues = <<>>
      /\ tuples = <<>> /\ c \in DOMAIN body
  BY <1>1 DEF Phases, Filtering
<1>3. body[c] \in Token
  BY <1>2 DEF TypeOK, IsObject
<1>4. /\ values' \in Seq(Token) /\ Len(values') = Len(values) + 1
      /\ \A i \in 1..Len(values) : values'[i] = values[i]
      /\ values'[Len(values) + 1] = body[c]
  BY <1>1, <1>3 DEF TypeOK
<1>5. /\ cols' \in Seq(Column) /\ Len(cols') = Len(cols) + 1
      /\ \A i \in 1..Len(cols) : cols'[i] = cols[i]
      /\ cols'[Len(cols) + 1] = c
  BY <1>1 DEF TypeOK
<1>6. TypeOK'
  BY <1>1, <1>4, <1>5 DEF TypeOK, IsObject
<1>7. Phases' /\ Numbered'
  BY <1>1, <1>2 DEF Phases, Numbered, Filtering
<1>8. ClausesBound' /\ FieldsBound' /\ ValuesUsed' /\ FilterThere'
  BY <1>1, <1>2 DEF ClausesBound, FieldsBound, ValuesUsed, FilterThere, Filtering
<1>9. RowBuilt'
  <2> DEFINE l == Len(cols)
  <2>1. l \in Nat /\ Len(values) = l /\ l + 1 \in 1..Len(cols')
    BY <1>1, <1>2, <1>5 DEF RowBuilt, TypeOK
  <2>2. Owned' = Owned
    BY <1>1 DEF Owned, ResolveTenantCompat, ResolveUserIDColumn
  <2>3. DOMAIN Owned \subseteq DOMAIN body /\ \A d \in DOMAIN Owned : body[d] = Owned[d]
    BY <1>1, <1>2 DEF RowBuilt
  <2>4. ASSUME NEW j \in 1..Len(cols')
        PROVE  cols'[j] \in DOMAIN body /\ values'[j] = body[cols'[j]]
    <3>1. CASE j \in 1..l
      BY <1>1, <1>2, <1>4, <1>5, <2>1, <3>1 DEF RowBuilt
    <3>2. CASE j = l + 1
      BY <1>2, <1>4, <1>5, <2>1, <3>2
    <3> QED
      BY <1>5, <2>1, <3>1, <3>2
  <2>5. ASSUME NEW d \in DOMAIN body
        PROVE  d \in todo' \/ \E j \in 1..Len(cols') : cols'[j] = d
    <3>1. CASE d = c
      BY <1>5, <2>1, <3>1
    <3>2. CASE d # c /\ d \in todo
      BY <1>1, <3>2
    <3>3. CASE d \notin todo
      <4>1. PICK j \in 1..l : cols[j] = d
        BY <1>1, <1>2, <3>3 DEF RowBuilt
      <4> QED
        BY <1>5, <2>1, <4>1
    <3> QED
      BY <3>1, <3>2, <3>3
  <2> HIDE DEF l
  <2>6. Len(cols') = Len(values')
    BY <1>4, <1>5, <2>1 DEF l
  <2> QED
    BY <1>1, <2>2, <2>3, <2>4, <2>5, <2>6 DEF RowBuilt
<1> QED
  BY <1>6, <1>7, <1>8, <1>9

\* createPlaceholders numbers the values from one.
LEMMA InsertDoneInv == ASSUME BuildInv, InsertDone PROVE BuildInv'
<1> USE DEF BuildInv
<1>1. /\ pc = "fields" /\ pc' = "built" /\ todo = {}
      /\ tuples' = <<createPlaceholders(1, Len(values))>>
      /\ UNCHANGED <<op, rules, uid, ws, query, body, records, todo, key, idx, pid, sets, cols,
                     ands, ors, values, whereValues>>
  BY DEF InsertDone, Goto, input
<1>2. op = "insert" /\ sets = {} /\ ands = {} /\ ors = {} /\ whereValues = <<>>
  BY <1>1 DEF Phases, Filtering
<1>3. createPlaceholders(1, Len(values)) \in Seq(Nat)
  BY DEF createPlaceholders, TypeOK
<1>4. TypeOK'
  BY <1>1, <1>3 DEF TypeOK, IsObject, Label
<1>5. Phases' /\ Numbered'
  BY <1>1, <1>2 DEF Phases, Numbered, Filtering
<1>6. ClausesBound' /\ FieldsBound' /\ ValuesUsed' /\ FilterThere'
  BY <1>1, <1>2 DEF ClausesBound, FieldsBound, ValuesUsed, FilterThere, Filtering
<1>7. RowBuilt'
  <2>1. Owned' = Owned
    BY <1>1 DEF Owned, ResolveTenantCompat, ResolveUserIDColumn
  <2> QED
    BY <1>1, <1>2, <2>1 DEF RowBuilt
<1> QED
  BY <1>4, <1>5, <1>6, <1>7

\* The columns of a batch are those of its first record.
LEMMA tableKeysInv == ASSUME BuildInv, tableKeys PROVE BuildInv'
<1> USE DEF BuildInv
<1>1. /\ pc = "batch" /\ pc' = "record" /\ idx' = 1 /\ records # <<>>
      /\ UNCHANGED <<op, rules, uid, ws, query, body, records, todo, key, pid, sets, tuples, ands,
                     ors, values, whereValues>>
  BY DEF tableKeys, Goto, input
<1>2. /\ op = "batch" /\ sets = {} /\ ands = {} /\ ors = {} /\ whereValues = <<>>
      /\ values = <<>> /\ tuples = <<>>
  BY <1>1 DEF Phases, Filtering
<1>3. cols' \in Seq(Column)
  <2> DEFINE K == DOMAIN records[1]
  <2>1. IsObject(records[1])
    <3>1. Len(records) # 0
      BY <1>1 DEF TypeOK
    <3> QED
      BY <3>1 DEF TypeOK
  <2>2. K \subseteq Column /\ Cardinality(K) \in Nat
    BY <2>1, ColumnsAssumption, FS_Subset, FS_CardinalityType DEF IsObject
  <2>3. cols' \in [1..Cardinality(K) -> K]
    BY DEF tableKeys
  <2> HIDE DEF K
  <2>4. cols' \in Seq(K)
    BY <2>2, <2>3, SeqOf
  <2> QED
    BY <2>2, <2>4
<1>4. TypeOK'
  BY <1>1, <1>3 DEF TypeOK, IsObject, Label
<1>5. Phases' /\ Numbered'
  BY <1>1, <1>2 DEF Phases, Numbered, Filtering
<1>6. ClausesBound' /\ FieldsBound' /\ ValuesUsed' /\ FilterThere' /\ RowBuilt'
  BY <1>1, <1>2 DEF ClausesBound, FieldsBound, ValuesUsed, FilterThere, RowBuilt, Filtering
<1> QED
  BY <1>4, <1>5, <1>6

\* A record adds its row and the placeholders of that row.
LEMMA operationValuesInv == ASSUME BuildInv, operationValues PROVE BuildInv'
<1> USE DEF BuildInv
<1> DEFINE row == [j \in DOMAIN cols |-> Cell(idx, cols[j])]
           v == Len(values)
           r == Len(cols)
           ph == createPlaceholders(v + 1, v + r)
<1>1. /\ pc = "record" /\ pc' = pc /\ idx <= Len(records) /\ idx' = idx + 1
      /\ values' = values \o row
      /\ tuples' = Append(tuples, createPlaceholders(v + 1, v + Len(row)))
      /\ UNCHANGED <<op, rules, uid, ws, query, body, records, todo, key, pid, sets, cols, ands,
                     ors, whereValues>>
  BY DEF operationValues, input
<1>2. op = "batch" /\ sets = {} /\ ands = {} /\ ors = {} /\ whereValues = <<>>
  BY <1>1 DEF Phases, Filtering
<1>3. idx \in Nat \ {0} /\ v \in Nat /\ r \in Nat /\ DOMAIN cols = 1..r
  BY DEF TypeOK
<1>4. row \in Seq(Token) /\ Len(row) = r
  <2>1. IsObject(records[idx])
    <3>1. idx \in DOMAIN records
      BY <1>1, <1>3 DEF TypeOK
    <3> QED
      BY <3>1 DEF TypeOK
  <2>2. \A c : Cell(idx, c) \in Token
    BY <2>1 DEF IsObject, Cell, Token
  <2>3. row \in [1..r -> Token]
    BY <1>3, <2>2
  <2> HIDE DEF row
  <2> QED
    BY <1>3, <2>3, SeqOf
<1> HIDE DEF row
<1>5. values' \in Seq(Token) /\ Len(values') = v + r
  <2>1. values \in Seq(Token)
    BY DEF TypeOK
  <2> QED
    BY <1>1, <1>4, <2>1, ConcatIndex
<1>6. ph \in Seq(Nat) /\ DOMAIN ph = 1..r /\ \A i \in 1..r : ph[i] = v + i
  <2>1. ph = [i \in 1..r |-> v + i]
    BY <1>3 DEF createPlaceholders
  <2>2. ph \in [1..r -> Nat]
    BY <1>3, <2>1
  <2> HIDE DEF ph
  <2>3. ph \in Seq(Nat) /\ DOMAIN ph = 1..r
    BY <1>3, <2>2, SeqOf
  <2> QED
    BY <2>1, <2>3
<1>7. tuples' = Append(tuples, ph)
  BY <1>1, <1>4
<1> HIDE DEF ph
<1>8. /\ tuples' \in Seq(Seq(Nat)) /\ Len(tuples') = Len(tuples) + 1
      /\ \A i \in 1..Len(tuples) : tuples'[i] = tuples[i]
      /\ tuples'[Len(tuples) + 1] = ph
  <2>1. tuples \in Seq(Seq(Nat))
    BY DEF TypeOK
  <2> QED
    BY <1>6, <1>7, <2>1
<1>9. Len(tuples) \in Nat /\ DOMAIN tuples = 1..Len(tuples) /\ DOMAIN tuples' = 1..Len(tuples) + 1
  BY <1>8 DEF TypeOK
<1>10. TypeOK'
  <2>1. idx' \in Nat \ {0}
    BY <1>1, <1>3
  <2>2. IsObject(body)' /\ (\A i \in DOMAIN records : IsObject(records[i]))'
    BY <1>1 DEF TypeOK, IsObject
  <2>3. (Len(records) \in Nat /\ DOMAIN records = 1..Len(records))'
    BY <1>1 DEF TypeOK
  <2> QED
    BY <1>1, <1>5, <1>8, <2>1, <2>2, <2>3 DEF TypeOK
<1>11. Phases' /\ Numbered'
  BY <1>1, <1>2 DEF Phases, Numbered, Filtering
<1>12. ClausesBound' /\ FieldsBound' /\ FilterThere' /\ RowBuilt'
  BY <1>1, <1>2 DEF ClausesBound, FieldsBound, FilterThere, RowBuilt, Filtering
<1>13. ValuesUsed'
  <2>1. ASSUME NEW n \in 1..Len(values')
        PROVE  \E i \in DOMAIN tuples' : \E j \in DOMAIN tuples'[i] : tuples'[i][j] = n
    <3>1. CASE n \in 1..v
      <4>1. PICK i \in DOMAIN tuples : \E j \in DOMAIN tuples[i] : tuples[i][j] = n
        BY <1>2, <3>1 DEF ValuesUsed
      <4>2. i \in DOMAIN tuples' /\ tuples'[i] = tuples[i]
        BY <1>8, <1>9
      <4> QED
        BY <4>1, <4>2
    <3>2. CASE n \in v + 1 .. v + r
      <4>1. n - v \in 1..r /\ ph[n - v] = n
        BY <1>3, <1>6, <3>2
      <4>2. Len(tuples) + 1 \in DOMAIN tuples'
        BY <1>9
      <4> QED
        BY <1>6, <1>8, <4>1, <4>2
    <3> QED
      BY <1>3, <1>5, <3>1, <3>2
  <2> QED
    BY <1>1, <1>2, <2>1 DEF ValuesUsed
<1> QED
  BY <1>10, <1>11, <1>12, <1>13

\* Every step preserves the invariant.
LEMMA NextInv == BuildInv /\ [Next]_vars => BuildInv'
<1> SUFFICES ASSUME BuildInv, [Next]_vars PROVE BuildInv'
  OBVIOUS
<1>1. CASE \/ SelectFromTables \/ DeleteFromTable \/ UpdateTable \/ InsertInTables
           \/ BatchInsertInTables
  BY <1>1, ReceiveInv
<1>2. CASE BodyEmpty \/ CondInvalid \/ Execute \/ \E c \in Column : FieldInvalid(c)
  BY <1>2, ResetInv DEF BodyEmpty, CondInvalid, Execute, FieldInvalid
<1>3. CASE SetDone \/ (\E k \in Key : NextKey(k)) \/ KeyDone \/ WhereDone \/ BatchDone
  BY <1>3, QuietInv
<1>4. CASE \E c \in Column : SetField(c)
  BY <1>4, SetFieldInv
<1>5. CASE \E c \in Column : InsertField(c)
  BY <1>5, InsertFieldInv
<1>6. CASE WhereOwner
  BY <1>6, WhereOwnerInv
<1>7. CASE TakeCond
  BY <1>7, TakeCondInv
<1>8. CASE ForceOwner
  BY <1>8, ForceOwnerInv
<1>9. CASE InsertDone
  BY <1>9, InsertDoneInv
<1>10. CASE tableKeys
  BY <1>10, tableKeysInv
<1>11. CASE operationValues
  BY <1>11, operationValuesInv
<1>12. CASE UNCHANGED vars
  <2>1. TypeOK' /\ Phases' /\ Numbered'
    BY <1>12 DEF vars, BuildInv, TypeOK, IsObject, Phases, Numbered
  <2>2. ClausesBound' /\ FieldsBound' /\ ValuesUsed'
    BY <1>12 DEF vars, BuildInv, ClausesBound, FieldsBound, ValuesUsed
  <2>3. Scope' = Scope /\ Owned' = Owned /\ (ResolveTenantCompat' <=> ResolveTenantCompat)
    BY <1>12 DEF vars, Scope, ResolveTenantCompat, ResolveUserIDColumn, Owned
  <2>4. FilterThere'
    BY <1>12, <2>3 DEF vars, BuildInv, FilterThere
  <2>5. RowBuilt'
    BY <1>12, <2>3 DEF vars, BuildInv, RowBuilt
  <2> QED
    BY <2>1, <2>2, <2>4, <2>5 DEF BuildInv
<1> QED
  BY <1>1, <1>2, <1>3, <1>4, <1>5, <1>6, <1>7, <1>8, <1>9, <1>10, <1>11, <1>12 DEF Next

-----------------------------------------------------------------------------
\* The invariant holds throughout, for any number of columns, keys, conditions and
\* records: text and values agree while they grow.
THEOREM Invariance == Spec => []BuildInv
  BY InitInv, NextInv, PTL DEF Spec

\* Every variable of the builder keeps its type (TypeOK).
THEOREM TypeCorrect == Spec => []TypeOK
<1>1. BuildInv => TypeOK
  BY DEF BuildInv
<1> QED
  BY <1>1, Invariance, PTL

\* What the adapter is sent is the values of SET followed by those of WHERE.
LEMMA ArgsSplit ==
    ASSUME BuildInv
    PROVE  /\ Args \in Seq(Token)
           /\ \A n \in 1..Len(values) : n \in DOMAIN Args /\ Args[n] = values[n]
           /\ ands \cup ors # {} =>
                 \A n \in 1..Len(whereValues) :
                    /\ Len(values) + n \in DOMAIN Args
                    /\ Args[Len(values) + n] = whereValues[n]
           /\ \A n \in DOMAIN Args :
                 \/ n \in 1..Len(values)
                 \/ n - Len(values) \in 1..Len(whereValues)
<1>1. values \in Seq(Token) /\ whereValues \in Seq(Token)
  BY DEF BuildInv, TypeOK
<1>2. CASE ands \cup ors = {}
  BY <1>1, <1>2 DEF Args
<1>3. CASE ands \cup ors # {}
  <2> DEFINE a == values \o whereValues
  <2>1. Args = a
    BY <1>3 DEF Args
  <2>2. /\ a \in Seq(Token) /\ Len(a) = Len(values) + Len(whereValues)
        /\ \A j \in 1..Len(values) : a[j] = values[j]
        /\ \A i \in 1..Len(whereValues) : a[Len(values) + i] = whereValues[i]
    BY <1>1, ConcatIndex
  <2>3. Len(values) \in Nat /\ Len(whereValues) \in Nat
    BY <1>1
  <2> HIDE DEF a
  <2>4. DOMAIN a = 1..Len(values) + Len(whereValues)
    BY <2>2, <2>3
  <2> QED
    BY <2>1, <2>2, <2>3, <2>4
<1> QED
  BY <1>2, <1>3

\* No placeholder of SET or WHERE is bound to the value of another field or
\* condition (PlaceholdersBound), whatever order the maps are visited in.
THEOREM Bound == Spec => []PlaceholdersBound
<1>1. BuildInv => PlaceholdersBound
  <2> SUFFICES ASSUME BuildInv PROVE PlaceholdersBound
    OBVIOUS
  <2>0. Len(values) \in Nat /\ Len(whereValues) \in Nat
    BY DEF BuildInv, TypeOK
  <2>1. ASSUME NEW c \in ands \cup ors, NEW i \in DOMAIN c.ph
        PROVE  c.ph[i] \in DOMAIN Args /\ Args[c.ph[i]] = c.want[i]
    <3> DEFINE n == c.ph[i] - Len(values)
    <3>1. /\ c.ph[i] \in Len(values) + 1 .. Len(values) + Len(whereValues)
          /\ whereValues[n] = c.want[i]
      BY DEF BuildInv, ClausesBound
    <3>2. n \in 1..Len(whereValues) /\ c.ph[i] = Len(values) + n
      BY <2>0, <3>1
    <3> HIDE DEF n
    <3> QED
      BY <3>1, <3>2, ArgsSplit
  <2>2. ASSUME NEW f \in sets
        PROVE  f.ph \in DOMAIN Args /\ Args[f.ph] = body[f.col]
    BY ArgsSplit DEF BuildInv, FieldsBound
  <2> QED
    BY <2>1, <2>2 DEF PlaceholdersBound
<1> QED
  BY <1>1, Invariance, PTL

\* The SQL text has a placeholder for every value it is sent with (EveryValueUsed).
THEOREM Used == Spec => []EveryValueUsed
<1>1. BuildInv => EveryValueUsed
  <2> SUFFICES ASSUME BuildInv, pc = "built", NEW n \in DOMAIN Args
               PROVE  \/ \E c \in ands \cup ors : \E i \in DOMAIN c.ph : c.ph[i] = n
                      \/ \E f \in sets : f.ph = n
                      \/ \E i \in DOMAIN tuples : \E j \in DOMAIN tuples[i] : tuples[i][j] = n
    BY DEF EveryValueUsed
  <2>0. Len(values) \in Nat /\ n \in Int
    BY ArgsSplit DEF BuildInv, TypeOK
  <2>1. CASE n \in 1..Len(values)
    <3>1. op \notin {"none", "select", "delete"}
      BY <2>1 DEF BuildInv, Phases, TypeOK
    <3>2. CASE op = "update" \/ op = "batch"
      BY <2>1, <3>2 DEF BuildInv, ValuesUsed
    <3>3. CASE op = "insert"
      <4>1. tuples = <<createPlaceholders(1, Len(values))>>
        BY <3>3 DEF BuildInv, ValuesUsed
      <4>2. 1 \in DOMAIN tuples /\ tuples[1] = [i \in 1..Len(values) |-> i]
        BY <2>0, <4>1 DEF createPlaceholders
      <4> QED
        BY <2>1, <4>2
    <3> QED
      BY <3>1, <3>2, <3>3 DEF BuildInv, TypeOK
  <2>2. CASE n - Len(values) \in 1..Len(whereValues)
    <3> DEFINE m == n - Len(values)
    <3>1. n = Len(values) + m
      BY <2>0
    <3> HIDE DEF m
    <3>2. \E c \in ands \cup ors : \E i \in DOMAIN c.ph : c.ph[i] = Len(values) + m
      BY <2>2 DEF BuildInv, ValuesUsed, m
    <3> QED
      BY <3>1, <3>2
  <2> QED
    BY <2>1, <2>2, ArgsSplit
<1> QED
  BY <1>1, Invariance, PTL

\* The ownership filter is part of every alternative of the WHERE clause, bound to
\* the caller's identity or tenant (Confined).
THEOREM FilterHolds == Spec => []Confined
<1>1. BuildInv => Confined
  <2> SUFFICES ASSUME BuildInv, pc = "built", op \in {"select", "update", "delete"}, Scope # Null,
                      NEW alternative \in whereSyntax
               PROVE  /\ \E c \in alternative :
                            /\ c.src = (IF Scope = Ws THEN "tenant" ELSE "user")
                            /\ Args[c.ph[1]] = Scope
                      /\ Scope = Uid /\ ResolveTenantCompat =>
                            \E c \in alternative : c.src = "personal"
    BY DEF Confined
  <2>1. ands \subseteq alternative
    BY DEF whereSyntax
  <2>2. PICK c \in ands : /\ c.src = (IF Scope = Ws THEN "tenant" ELSE "user")
                          /\ c.ph = <<Len(values) + 1>> /\ c.want = <<Scope>>
    BY DEF BuildInv, FilterThere, Filtering
  <2>3. /\ 1 \in DOMAIN c.ph /\ c.ph[1] = Len(values) + 1 /\ c.want[1] = Scope
    BY <2>2
  <2>4. /\ c.ph[1] \in Len(values) + 1 .. Len(values) + Len(whereValues)
        /\ whereValues[c.ph[1] - Len(values)] = Scope
    BY <2>2, <2>3 DEF BuildInv, ClausesBound
  <2>5. Len(values) \in Nat /\ Len(whereValues) \in Nat
    BY DEF BuildInv, TypeOK
  <2>6. 1 \in 1..Len(whereValues) /\ whereValues[1] = Scope
    BY <2>3, <2>4, <2>5
  <2>7. Args[c.ph[1]] = Scope
    BY <2>2, <2>3, <2>6, ArgsSplit
  <2>8. Scope = Uid /\ ResolveTenantCompat => \E d \in ands : d.src = "personal"
    BY DEF BuildInv, FilterThere, Filtering
  <2> QED
    BY <2>1, <2>2, <2>7, <2>8
<1> QED
  BY <1>1, Invariance, PTL

\* What the client sent is still in the object, but for the forced columns.
ClientBody ==
    op = "insert" => \A c \in DOMAIN body :
        pc = "insert" \/ c \notin DOMAIN Owned => body[c] = <<c, 1, 1>>

\* Only a new request and ForceOwner change the object of an insert.
LEMMA NextClient == BuildInv /\ ClientBody /\ [Next]_vars => ClientBody'
<1> SUFFICES ASSUME BuildInv, ClientBody, [Next]_vars PROVE ClientBody'
  OBVIOUS
<1> USE DEF BuildInv
<1>1. ASSUME UNCHANGED <<op, rules, uid, ws, body>>, pc' # "insert" \/ pc' = pc PROVE ClientBody'
  <2>1. Owned' = Owned
    BY <1>1 DEF Owned, ResolveTenantCompat, ResolveUserIDColumn
  <2> QED
    BY <1>1, <2>1 DEF ClientBody
<1>2. CASE UNCHANGED vars
  BY <1>1, <1>2 DEF vars
<1>3. CASE ForceOwner
  <2>1. /\ pc = "insert" /\ pc' = "fields" /\ UNCHANGED <<op, rules, uid, ws>>
        /\ body' = [c \in DOMAIN body \cup DOMAIN Owned |->
                       IF c \in DOMAIN Owned THEN Owned[c] ELSE body[c]]
    BY <1>3 DEF ForceOwner, Goto
  <2>2. Owned' = Owned /\ op = "insert"
    BY <2>1 DEF Owned, ResolveTenantCompat, ResolveUserIDColumn, Phases
  <2> HIDE DEF Owned
  <2> QED
    BY <2>1, <2>2 DEF ClientBody
<1>4. CASE InsertInTables
  <2>1. body' \in Objects
    BY <1>4 DEF InsertInTables, Receive
  <2> QED
    BY <2>1 DEF ClientBody, Objects
<1>5. CASE \/ SelectFromTables \/ DeleteFromTable \/ UpdateTable \/ BatchInsertInTables
           \/ BodyEmpty \/ CondInvalid \/ Execute \/ \E c \in Column : FieldInvalid(c)
  BY <1>5 DEF SelectFromTables, DeleteFromTable, UpdateTable, BatchInsertInTables, Receive,
     BodyEmpty, CondInvalid, Execute, FieldInvalid, Reset, ClientBody
<1>6. CASE \/ (\E c \in Column : SetField(c) \/ InsertField(c)) \/ SetDone \/ WhereOwner
           \/ (\E k \in Key : NextKey(k)) \/ TakeCond \/ KeyDone \/ WhereDone
           \/ InsertDone \/ tableKeys \/ operationValues \/ BatchDone
  BY <1>1, <1>6 DEF SetField, InsertField, SetDone, WhereOwner, NextKey, TakeCond, KeyDone, WhereDone,
     InsertDone, tableKeys, operationValues, BatchDone, Goto, input
<1> QED
  BY <1>2, <1>3, <1>4, <1>5, <1>6 DEF Next

\* The row of a single insert is the caller's in the ownership columns and the
\* client's in all others, for any columns in any order (SingleInsertOwned).
\* Batches are not covered: ParseBatchInsertRequest forces no column.
THEOREM Forced == Spec => []SingleInsertOwned
<1>1. Init => ClientBody
  BY DEF Init, ClientBody
<1>2. Spec => []ClientBody
  BY <1>1, Invariance, NextClient, PTL DEF Spec
<1>3. BuildInv /\ ClientBody => SingleInsertOwned
  <2> DEFINE owned == uid /\ rules # {}
             scoped == uid /\ ResolveTenantCompat
  <2> SUFFICES ASSUME BuildInv, ClientBody, pc = "built", op = "insert"
               PROVE  /\ Len(tuples) = 1 /\ Len(tuples[1]) = Len(cols)
                      /\ owned => \E j \in DOMAIN cols : cols[j] = UserColumn
                      /\ scoped => \E j \in DOMAIN cols : cols[j] = TenantColumn
                      /\ \A j \in DOMAIN cols :
                            Args[tuples[1][j]] = IF owned /\ cols[j] = UserColumn THEN Uid
                                                 ELSE IF scoped /\ cols[j] = TenantColumn
                                                      THEN IF ws THEN Ws ELSE Null
                                                      ELSE <<cols[j], 1, 1>>
    BY DEF SingleInsertOwned
  <2>1. /\ DOMAIN Owned \subseteq DOMAIN body /\ \A c \in DOMAIN Owned : body[c] = Owned[c]
        /\ Len(cols) = Len(values)
        /\ \A j \in 1..Len(cols) : cols[j] \in DOMAIN body /\ values[j] = body[cols[j]]
        /\ \A c \in DOMAIN body : \E j \in 1..Len(cols) : cols[j] = c
    BY DEF BuildInv, RowBuilt
  <2>2. Len(values) \in Nat /\ DOMAIN cols = 1..Len(values)
    BY <2>1 DEF BuildInv, TypeOK
  <2>3. /\ Len(tuples) = 1 /\ tuples[1] = [i \in 1..Len(values) |-> i]
        /\ Len(tuples[1]) = Len(cols)
    BY <2>1, <2>2, SeqOf DEF BuildInv, ValuesUsed, createPlaceholders
  <2>4. ASSUME NEW j \in DOMAIN cols PROVE Args[tuples[1][j]] = body[cols[j]] /\ cols[j] \in DOMAIN body
    BY <2>1, <2>2, <2>3, ArgsSplit
  <2>5. owned => UserColumn \in DOMAIN Owned /\ Owned[UserColumn] = Uid
    BY ColumnsAssumption DEF BuildInv, TypeOK, Owned, ResolveTenantCompat, ResolveUserIDColumn
  <2>6. scoped => TenantColumn \in DOMAIN Owned /\ Owned[TenantColumn] = IF ws THEN Ws ELSE Null
    BY ColumnsAssumption DEF BuildInv, TypeOK, Owned
  <2>7. \A c \in DOMAIN Owned : (owned /\ c = UserColumn) \/ (scoped /\ c = TenantColumn)
    BY DEF BuildInv, TypeOK, Owned, Empty, ResolveTenantCompat, ResolveUserIDColumn
  <2>8. \A c \in DOMAIN body \ DOMAIN Owned : body[c] = <<c, 1, 1>>
    BY DEF ClientBody
  <2> HIDE DEF owned, scoped
  <2>9. /\ owned => \E j \in DOMAIN cols : cols[j] = UserColumn
        /\ scoped => \E j \in DOMAIN cols : cols[j] = TenantColumn
    BY <2>1, <2>2, <2>5, <2>6
  <2>10. ASSUME NEW j \in DOMAIN cols
         PROVE  Args[tuples[1][j]] = IF owned /\ cols[j] = UserColumn THEN Uid
                                     ELSE IF scoped /\ cols[j] = TenantColumn
                                          THEN IF ws THEN Ws ELSE Null
                                          ELSE <<cols[j], 1, 1>>
    <3>1. Args[tuples[1][j]] = body[cols[j]] /\ cols[j] \in DOMAIN body
      BY <2>4
    <3>2. CASE owned /\ cols[j] = UserColumn
      BY <2>1, <2>5, <3>1, <3>2
    <3>3. CASE ~(owned /\ cols[j] = UserColumn) /\ scoped /\ cols[j] = TenantColumn
      <4>1. body[cols[j]] = IF ws THEN Ws ELSE Null
        BY <2>1, <2>6, <3>3
      <4> QED
        BY <3>1, <3>3, <4>1
    <3>4. CASE ~(owned /\ cols[j] = UserColumn) /\ ~(scoped /\ cols[j] = TenantColumn)
      <4>1. body[cols[j]] = <<cols[j], 1, 1>>
        BY <2>7, <2>8, <3>1, <3>4
      <4> QED
        BY <3>1, <3>4, <4>1
    <3> QED
      BY <3>2, <3>3, <3>4
  <2> QED
    BY <2>3, <2>9, <2>10
<1> QED
  BY <1>2, <1>3, Invariance, PTL

-----------------------------------------------------------------------------
(***************************************************************************)
(* The rows of a batch: the number of a placeholder is a product, so the   *)
(* arithmetic comes first.                                                 *)
(***************************************************************************)
\* The place of column j of row i among rows of m values.
Place(m, i, j) == (i - 1) * m + j

\* The records visited have their rows, one value for every column of the first.
RowsBuilt ==
    op = "batch" /\ pc \in {"record", "built"} =>
        /\ Len(tuples) = idx - 1 /\ idx <= Len(records) + 1
        /\ pc = "built" => idx = Len(records) + 1
        /\ Len(values) = (idx - 1) * Len(cols)
        /\ \A i \in 1..(idx - 1) :
              /\ Len(tuples[i]) = Len(cols)
              /\ \A j \in 1..Len(cols) :
                    /\ tuples[i][j] = Place(Len(cols), i, j)
                    /\ values[Place(Len(cols), i, j)] = Cell(i, cols[j])

\* Rows of the same length fill the values without gaps.
LEMMA PlaceRange ==
    ASSUME NEW m \in Nat, NEW r \in Nat, NEW i \in 1..r, NEW j \in 1..m
    PROVE  Place(m, i, j) \in 1..(r * m)
<1>1. (i - 1) * m \in Nat /\ (i - 1) * m + m = i * m
  OBVIOUS
<1>2. (r - i) * m \in Nat /\ i * m + (r - i) * m = r * m
  OBVIOUS
<1>3. i * m \in Int /\ r * m \in Int
  OBVIOUS
<1> QED
  BY <1>1, <1>2, <1>3 DEF Place

\* copyRows finds out the number of rows again.
LEMMA WholeRows ==
    ASSUME NEW m \in Nat \ {0}, NEW r \in Nat
    PROVE  (r * m) \div m = r
<1> DEFINE a == r * m
           q == a \div m
<1>1. a \in Int /\ q \in Int
  OBVIOUS
<1>2. m * q <= a /\ a < m * q + m
  OBVIOUS
<1>3. m * (r - q) = a - m * q
  BY <1>1
<1>4. r - q >= 1 => m * (r - q) >= m
  BY <1>1
<1>5. r - q <= -1 => m * (r - q) <= -m
  BY <1>1
<1> HIDE DEF a, q
<1> QED
  BY <1>1, <1>2, <1>3, <1>4, <1>5 DEF q, a

\* A record adds its row after those of the records before it.
LEMMA operationValuesRows ==
    ASSUME BuildInv, BuildInv', RowsBuilt, operationValues PROVE RowsBuilt'
<1> DEFINE row == [j \in DOMAIN cols |-> Cell(idx, cols[j])]
           v == Len(values)
           m == Len(cols)
           r == idx - 1
           ph == createPlaceholders(v + 1, v + m)
<1>1. /\ pc = "record" /\ pc' = pc /\ idx <= Len(records) /\ idx' = idx + 1
      /\ values' = values \o row
      /\ tuples' = Append(tuples, createPlaceholders(v + 1, v + Len(row)))
      /\ UNCHANGED <<op, records, cols>>
  BY DEF operationValues, input
<1>2. /\ op = "batch" /\ Len(tuples) = r /\ v = r * m /\ idx <= Len(records) + 1
      /\ \A i \in 1..r : /\ Len(tuples[i]) = m
                         /\ \A j \in 1..m : /\ tuples[i][j] = Place(m, i, j)
                                            /\ values[Place(m, i, j)] = Cell(i, cols[j])
  <2>1. op = "batch"
    BY <1>1 DEF BuildInv, Phases
  <2> QED
    BY <1>1, <2>1 DEF RowsBuilt
<1>3. /\ idx \in Nat \ {0} /\ r \in Nat /\ v \in Nat /\ m \in Nat /\ DOMAIN cols = 1..m
      /\ values \in Seq(Token) /\ tuples \in Seq(Seq(Nat)) /\ Len(records) \in Nat
  BY DEF BuildInv, TypeOK
<1>4. row \in Seq(Token) /\ Len(row) = m /\ \A j \in 1..m : row[j] = Cell(idx, cols[j])
  <2>1. IsObject(records[idx])
    <3>1. idx \in DOMAIN records
      BY <1>1, <1>3 DEF BuildInv, TypeOK
    <3> QED
      BY <3>1 DEF BuildInv, TypeOK
  <2>2. \A c : Cell(idx, c) \in Token
    BY <2>1 DEF IsObject, Cell, Token
  <2>3. row \in [1..m -> Token] /\ \A j \in 1..m : row[j] = Cell(idx, cols[j])
    BY <1>3, <2>2
  <2> HIDE DEF row
  <2> QED
    BY <1>3, <2>3, SeqOf
<1> HIDE DEF row
<1>5. /\ Len(values') = v + m /\ \A n \in 1..v : values'[n] = values[n]
      /\ \A j \in 1..m : values'[v + j] = row[j]
  <2>1. /\ Len(values \o row) = v + Len(row)
        /\ \A n \in 1..v : (values \o row)[n] = values[n]
        /\ \A j \in 1..Len(row) : (values \o row)[v + j] = row[j]
    <3>1. values \in Seq(Token) /\ row \in Seq(Token)
      BY <1>3, <1>4
    <3> QED
      BY <3>1, ConcatIndex
  <2> QED
    BY <1>1, <1>4, <2>1
<1>6. ph \in Seq(Nat) /\ Len(ph) = m /\ \A j \in 1..m : ph[j] = v + j
  <2>1. ph = [i \in 1..m |-> v + i]
    BY <1>3 DEF createPlaceholders
  <2>2. ph \in [1..m -> Nat]
    BY <1>3, <2>1
  <2> HIDE DEF ph
  <2>3. ph \in Seq(Nat) /\ Len(ph) = m
    BY <1>3, <2>2, SeqOf
  <2> QED
    BY <2>1, <2>3
<1>7. tuples' = Append(tuples, ph)
  BY <1>1, <1>4
<1> HIDE DEF ph
<1>8. /\ Len(tuples') = r + 1 /\ tuples'[r + 1] = ph
      /\ \A i \in 1..r : tuples'[i] = tuples[i]
  BY <1>2, <1>3, <1>6, <1>7
<1>9. idx' - 1 = r + 1 /\ Len(values') = (r + 1) * m /\ idx' <= Len(records) + 1
  <2>1. (r + 1) * m = r * m + m
    <3>1. r \in Int /\ m \in Int
      BY <1>3
    <3> HIDE DEF r, m
    <3> QED
      BY <3>1
  <2>2. idx' - 1 = r + 1 /\ idx' <= Len(records) + 1
    BY <1>1, <1>3
  <2>3. Len(values') = (r + 1) * m
    BY <1>2, <1>5, <2>1
  <2> QED
    BY <2>2, <2>3
<1>10. ASSUME NEW i \in 1..(r + 1)
       PROVE  /\ Len(tuples'[i]) = m
              /\ \A j \in 1..m : /\ tuples'[i][j] = Place(m, i, j)
                                 /\ values'[Place(m, i, j)] = Cell(i, cols[j])
  <2>1. CASE i \in 1..r
    <3>1. ASSUME NEW j \in 1..m PROVE values'[Place(m, i, j)] = Cell(i, cols[j])
      <4>1. Place(m, i, j) \in 1..v
        BY <1>2, <1>3, <2>1, PlaceRange
      <4> QED
        BY <1>2, <1>5, <2>1, <4>1
    <3> QED
      BY <1>2, <1>8, <2>1, <3>1
  <2>2. CASE i = r + 1
    <3>1. \A j \in 1..m : Place(m, i, j) = v + j
      BY <1>2, <1>3, <2>2 DEF Place
    <3>2. i = idx
      BY <1>3, <2>2
    <3> QED
      BY <1>4, <1>5, <1>6, <1>8, <2>2, <3>1, <3>2
  <2> QED
    BY <1>3, <2>1, <2>2
<1>11. \A i, c : Cell(i, c)' = Cell(i, c)
  BY <1>1 DEF Cell
<1> HIDE DEF r, m, v
<1>12. cols' = cols /\ Len(cols) = m /\ pc' = "record" /\ op' = "batch" /\ records' = records
  BY <1>1, <1>2 DEF m
<1> QED
  BY <1>8, <1>9, <1>10, <1>11, <1>12 DEF RowsBuilt

\* The rows of a batch grow record by record, and nothing else touches them.
LEMMA NextRows == BuildInv /\ BuildInv' /\ RowsBuilt /\ [Next]_vars => RowsBuilt'
<1> SUFFICES ASSUME BuildInv, BuildInv', RowsBuilt, [Next]_vars, op' = "batch",
                    pc' \in {"record", "built"}
             PROVE  RowsBuilt'
  BY DEF RowsBuilt
<1>1. CASE operationValues
  BY <1>1, operationValuesRows
<1>2. CASE tableKeys
  <2>1. /\ pc = "batch" /\ pc' = "record" /\ idx' = 1 /\ UNCHANGED <<tuples, values, records>>
    BY <1>2 DEF tableKeys, Goto, input
  <2>2. values = <<>> /\ tuples = <<>>
    BY <2>1 DEF BuildInv, Phases, Filtering
  <2>3. Len(cols') \in Nat /\ Len(records') \in Nat
    BY DEF BuildInv, TypeOK
  <2> QED
    BY <2>1, <2>2, <2>3 DEF RowsBuilt
<1>3. CASE BatchDone \/ UNCHANGED vars
  <2>1. UNCHANGED <<op, records, idx, cols, tuples, values>>
    BY <1>3 DEF BatchDone, vars, input
  <2>2. pc' = pc \/ (pc = "record" /\ pc' = "built" /\ idx > Len(records))
    BY <1>3 DEF BatchDone, vars, Goto
  <2>3. idx \in Nat /\ Len(records) \in Nat /\ pc \in {"record", "built"}
    BY <2>2 DEF BuildInv, TypeOK
  <2>4. \A i, c : Cell(i, c)' = Cell(i, c)
    BY <2>1 DEF Cell
  <2> QED
    BY <2>1, <2>2, <2>3, <2>4 DEF RowsBuilt
<1>4. CASE \/ SelectFromTables \/ DeleteFromTable \/ UpdateTable \/ InsertInTables
           \/ BatchInsertInTables \/ BodyEmpty \/ CondInvalid \/ Execute
           \/ \E c \in Column : FieldInvalid(c)
  BY <1>4 DEF SelectFromTables, DeleteFromTable, UpdateTable, InsertInTables, BatchInsertInTables,
     Receive, Goto, BodyEmpty, CondInvalid, Execute, FieldInvalid, Reset
<1>5. CASE \/ (\E c \in Column : SetField(c) \/ InsertField(c)) \/ SetDone \/ WhereOwner
           \/ (\E k \in Key : NextKey(k)) \/ TakeCond \/ KeyDone \/ WhereDone \/ ForceOwner
           \/ InsertDone
  <2>1. op' = op /\ pc \in {"set", "fields", "where", "keys", "conds", "insert"}
    BY <1>5 DEF SetField, InsertField, SetDone, WhereOwner, NextKey, TakeCond, KeyDone, WhereDone,
       ForceOwner, InsertDone, input
  <2> QED
    BY <2>1 DEF BuildInv, Phases, Filtering
<1> QED
  BY <1>1, <1>2, <1>3, <1>4, <1>5 DEF Next

\* Whatever columns the records of a batch have, and however many records there
\* are, every column of the first gets in row i what record i has for it, by
\* VALUES and by COPY (RowsAligned).
THEOREM RowsCorrect == Spec => []RowsAligned
<1>1. Init => RowsBuilt
  BY DEF Init, RowsBuilt
<1>2. Spec => []RowsBuilt
  BY <1>1, Invariance, NextRows, PTL DEF Spec
<1>3. BuildInv /\ RowsBuilt => RowsAligned
  <2> SUFFICES ASSUME BuildInv, RowsBuilt, pc = "built", op = "batch"
               PROVE  /\ Len(tuples) = Len(records)
                      /\ \A i \in DOMAIN tuples :
                            /\ Len(tuples[i]) = Len(cols)
                            /\ \A j \in DOMAIN cols :
                                  /\ Args[tuples[i][j]] = Cell(i, cols[j])
                                  /\ ~copyRefused => i \in DOMAIN copyRows /\ copyRows[i][j] = Cell(i, cols[j])
    BY DEF RowsAligned
  <2> DEFINE m == Len(cols)
             r == Len(records)
  <2>1. /\ r \in Nat /\ m \in Nat /\ idx - 1 = r /\ DOMAIN cols = 1..m
        /\ values \in Seq(Token) /\ tuples \in Seq(Seq(Nat)) /\ cols \in Seq(Column)
    BY DEF BuildInv, TypeOK, RowsBuilt
  <2>2. /\ Len(tuples) = r /\ Len(values) = r * m
        /\ \A i \in 1..r : /\ Len(tuples[i]) = m
                           /\ \A j \in 1..m : /\ tuples[i][j] = Place(m, i, j)
                                              /\ values[Place(m, i, j)] = Cell(i, cols[j])
    BY <2>1 DEF RowsBuilt
  <2>3. DOMAIN tuples = 1..r
    BY <2>1, <2>2
  <2>4. ASSUME NEW i \in 1..r, NEW j \in 1..m
        PROVE  /\ Args[tuples[i][j]] = Cell(i, cols[j])
               /\ ~copyRefused => i \in DOMAIN copyRows /\ copyRows[i][j] = Cell(i, cols[j])
    <3>1. Place(m, i, j) \in 1..Len(values)
      BY <2>1, <2>2, PlaceRange
    <3>2. Args[Place(m, i, j)] = values[Place(m, i, j)]
      BY <3>1, ArgsSplit
    <3>3. m # 0 /\ cols # <<>>
      BY <2>1
    <3>4. Len(values) \div m = r
      BY <2>1, <2>2, <3>3, WholeRows
    <3>5. ~copyRefused => copyRows = [k \in 1..r |-> [l \in 1..m |-> values[(k - 1) * m + l]]]
      BY <3>3, <3>4 DEF copyRows
    <3>6. ~copyRefused => i \in DOMAIN copyRows /\ copyRows[i][j] = values[Place(m, i, j)]
      BY <3>5 DEF Place
    <3> QED
      BY <2>2, <3>2, <3>6
  <2> HIDE DEF m, r
  <2>5. \A i \in 1..r : Len(tuples[i]) = m
    BY <2>2
  <2> QED
    BY <2>1, <2>2, <2>3, <2>4, <2>5 DEF m, r
<1> QED
  BY <1>2, <1>3, Invariance, PTL
=============================================================================
