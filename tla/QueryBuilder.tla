---------------------------- MODULE QueryBuilder ----------------------------
(***************************************************************************)
(* How the PostgreSQL adapter turns a request on a table into SQL text     *)
(* with numbered placeholders and the list of values bound to them:        *)
(* WhereByRequest, SetByRequest, ParseInsertRequest and                    *)
(* ParseBatchInsertRequest, as the handlers of controllers/tables.go call  *)
(* them.                                                                   *)
(*                                                                         *)
(* The maps of the request (the query string, a JSON object) are ranged    *)
(* over in whatever order the Go runtime picks: one step takes any entry   *)
(* that is left.  A value is a token that says where the client put it, so *)
(* that a placeholder that gets the value of another column shows.         *)
(***************************************************************************)
EXTENDS Integers, Sequences, FiniteSets

CONSTANTS
    Column,       \* the columns clients name
    Invalid,      \* those ident.IsValid refuses
    Commas,       \* those with a comma in their name
    UserColumn, TenantColumn,  \* the ownership columns of the filter rules
    Key,          \* keys of the query string that filter, and "_or"
    Or,           \* the key "_or"
    Conds,        \* the conditions clients send: see CondsAssumption
    MaxConds,     \* bound: conditions under one key
    MaxRecords,   \* bound: records of a batch
    Bodies,       \* the sets of columns clients send
    Uid, Ws,      \* the identity and the active tenant of the caller
    Null          \* SQL NULL

\* How whereKeyAndValue writes a condition: the operators with a list (IN), the
\* ones with one array value (ANY, SOME, ALL), the ones that take no value (IS
\* NULL and its like, and full-text search, which inlines its text), all others
\* (one value), and the conditions it refuses.
Shape == {"list", "array", "nullary", "compare", "invalid"}

\* n: how many comma-separated values the client gives.
ASSUME CondsAssumption == Conds \subseteq [shape : Shape, n : Nat \ {0}]
ASSUME ColumnsAssumption ==
    /\ {UserColumn, TenantColumn} \subseteq Column \ Invalid
    /\ UserColumn # TenantColumn
    /\ Or \in Key
    /\ IsFiniteSet(Column)
    /\ Bodies \subseteq SUBSET Column
    /\ Commas \subseteq Column
ASSUME BoundsAssumption == MaxConds \in Nat /\ MaxRecords \in Nat

\* <<where the client put it, which entry there, which part of the entry>>
Sent == (Key \cup Column) \X Nat \X Nat
Token == Sent \cup {Uid, Ws, Null}

ASSUME TokensAssumption ==
    /\ Uid \notin Sent /\ Ws \notin Sent /\ Null \notin Sent
    /\ Uid # Ws /\ Uid # Null /\ Ws # Null

VARIABLES
    op,        \* the handler
    rules,     \* the filter rules that match the table: "user", "compat"
    uid, ws,   \* does the context have an identity, an active tenant
    query,     \* the query string: the conditions under each key
    body,      \* the JSON object: a value for each of its columns
    records,   \* the JSON array of a batch
    pc,
    todo,      \* the entries the current range has not visited
    key, idx,  \* the key whose conditions are visited, and the next of them
    pid,       \* the next placeholder of the WHERE clause
    sets,      \* the fields of SET or of the INSERT: column and placeholder
    cols,      \* recordKeys
    tuples,    \* the placeholders of each row of a batch
    ands, ors, \* whereKey and orClauses
    values,    \* the values of SET, of the INSERT or of the batch
    whereValues

input == <<op, rules, uid, ws, query, body, records>>
vars == <<op, rules, uid, ws, query, body, records, pc, todo, key, idx, pid, sets, cols,
          tuples, ands, ors, values, whereValues>>

\* A condition in the SQL text: its placeholders, and the values it is about.
Clause == [src : {"user", "tenant", "personal", "client"}, ph : Seq(Nat), want : Seq(Token)]
Field == [col : Column, ph : Nat]
IsObject(f) == DOMAIN f \subseteq Column /\ f \in [DOMAIN f -> Token]

Empty == [c \in {} |-> Null]

Init ==
    /\ op = "none" /\ rules = {} /\ uid = FALSE /\ ws = FALSE
    /\ query = [k \in Key |-> <<>>] /\ body = Empty /\ records = <<>>
    /\ pc = "idle" /\ todo = {} /\ key = Or /\ idx = 1 /\ pid = 1
    /\ sets = {} /\ cols = <<>> /\ tuples = <<>> /\ ands = {} /\ ors = {}
    /\ values = <<>> /\ whereValues = <<>>

-----------------------------------------------------------------------------
Goto(label) == pc' = label

\* The statement runs, or an error is answered; nothing is kept.
Reset ==
    /\ op' = "none" /\ rules' = {} /\ uid' = FALSE /\ ws' = FALSE
    /\ query' = [k \in Key |-> <<>>] /\ body' = Empty /\ records' = <<>>
    /\ pc' = "idle" /\ todo' = {} /\ key' = Or /\ idx' = 1 /\ pid' = 1
    /\ sets' = {} /\ cols' = <<>> /\ tuples' = <<>> /\ ands' = {} /\ ors' = {}
    /\ values' = <<>> /\ whereValues' = <<>>

\* The inputs: conditions under each key, a JSON object, a JSON array.
Queries == [Key -> UNION {[1..m -> Conds] : m \in 0..MaxConds}]
Objects == {[c \in B |-> <<c, 1, 1>>] : B \in Bodies}
Arrays == UNION {{[i \in 1..m |-> [c \in B[i] |-> <<c, i, 1>>]] : B \in [1..m -> Bodies]} :
                 m \in 0..MaxRecords}

\* A request reaches its handler, which numbers placeholders from ph on.  The
\* middlewares put the identity and the active tenant in the context when their
\* headers are there.
Receive(o, label, ph, Q, B, R) ==
    /\ pc = "idle" /\ Goto(label)
    /\ op' = o
    /\ rules' \in SUBSET {"user", "compat"}
    /\ uid' \in BOOLEAN /\ ws' \in BOOLEAN
    /\ query' \in Q /\ body' \in B /\ records' \in R
    /\ todo' = DOMAIN body' /\ pid' = ph
    /\ UNCHANGED <<key, idx, sets, cols, tuples, ands, ors, values, whereValues>>

\* Mutant of SelectFromTables: it calls WhereByRequest(r, 0).
SelectFromZero == Receive("select", "where", 0, Queries, {Empty}, {<<>>})

SelectFromTables == Receive("select", "where", 1, Queries, {Empty}, {<<>>})
DeleteFromTable == Receive("delete", "where", 1, Queries, {Empty}, {<<>>})
UpdateTable == Receive("update", "set", 1, Queries, Objects, {<<>>})
InsertInTables == Receive("insert", "insert", 1, {[k \in Key |-> <<>>]}, Objects, {<<>>})
BatchInsertInTables == Receive("batch", "batch", 1, {[k \in Key |-> <<>>]}, {Empty}, Arrays)

-----------------------------------------------------------------------------
(***************************************************************************)
(* SetByRequest, then WhereByRequest from the next placeholder on.         *)
(***************************************************************************)
\* ErrBodyEmpty.
BodyEmpty ==
    /\ \/ pc \in {"set", "insert"} /\ DOMAIN body = {}
       \/ pc = "batch" /\ records = <<>>
    /\ Reset

SetField(c) ==
    /\ pc = "set" /\ c \in todo \ Invalid
    /\ sets' = sets \cup {[col |-> c, ph |-> pid]}
    /\ values' = Append(values, body[c])
    /\ pid' = pid + 1
    /\ todo' = todo \ {c}
    /\ UNCHANGED <<input, pc, key, idx, cols, tuples, ands, ors, whereValues>>

\* ErrInvalidIdentifier, from SetByRequest or ParseInsertRequest.
FieldInvalid(c) == pc \in {"set", "fields"} /\ c \in todo \cap Invalid /\ Reset

\* Mutant of SetDone: the placeholders of WHERE start one too early.
SetDoneOffByOne ==
    /\ pc = "set" /\ DOMAIN body # {} /\ todo = {}
    /\ pid' = Len(values)
    /\ Goto("where")
    /\ UNCHANGED <<input, todo, key, idx, sets, cols, tuples, ands, ors, values, whereValues>>

\* UpdateTable numbers the placeholders of WHERE after those of SET.
SetDone ==
    /\ pc = "set" /\ DOMAIN body # {} /\ todo = {}
    /\ pid' = Len(values) + 1
    /\ Goto("where")
    /\ UNCHANGED <<input, todo, key, idx, sets, cols, tuples, ands, ors, values, whereValues>>

\* The filter rules: a compat rule replaces a user_id rule.
ResolveTenantCompat == "compat" \in rules
ResolveUserIDColumn == "user" \in rules

\* Whose rows the request is confined to (Null: no filter).
Scope ==
    IF ResolveTenantCompat /\ ws THEN Ws
    ELSE IF uid /\ (ResolveTenantCompat \/ ResolveUserIDColumn) THEN Uid ELSE Null

\* The conditions WhereByRequest puts first; in personal mode the tenant column
\* must also be NULL.
WhereOwner ==
    /\ pc = "where"
    /\ ands' = IF Scope = Null THEN {}
               ELSE {[src |-> IF Scope = Ws THEN "tenant" ELSE "user",
                      ph |-> <<pid>>, want |-> <<Scope>>]}
                    \cup IF Scope = Uid /\ ResolveTenantCompat
                         THEN {[src |-> "personal", ph |-> <<>>, want |-> <<>>]} ELSE {}
    /\ whereValues' = IF Scope = Null THEN <<>> ELSE <<Scope>>
    /\ pid' = IF Scope = Null THEN pid ELSE pid + 1
    /\ todo' = {k \in Key : query[k] # <<>>}
    /\ Goto("keys")
    /\ UNCHANGED <<input, key, idx, sets, cols, tuples, ors, values>>

\* The range over the query string reaches a key, _or included.
NextKey(k) ==
    /\ pc = "keys" /\ k \in todo
    /\ key' = k /\ idx' = 1
    /\ todo' = todo \ {k}
    /\ Goto("conds")
    /\ UNCHANGED <<input, pid, sets, cols, tuples, ands, ors, values, whereValues>>

\* The number of placeholders of a condition.
whereKeyAndValue(c) ==
    IF c.shape = "list" THEN c.n ELSE IF c.shape = "nullary" THEN 0 ELSE 1

\* Mutant of TakeCond: the placeholder counter advances by one for a list too.
TakeCondOneStep ==
    LET c == query[key][idx]
        n == whereKeyAndValue(c)
        clause == [src |-> "client", ph |-> [i \in 1..n |-> pid + i - 1],
                   want |-> [i \in 1..n |-> <<key, idx, i>>]]
    IN  /\ pc = "conds" /\ idx <= Len(query[key]) /\ c.shape # "invalid"
        /\ IF key = Or THEN ors' = ors \cup {clause} /\ UNCHANGED ands
           ELSE ands' = ands \cup {clause} /\ UNCHANGED ors
        /\ whereValues' = whereValues \o clause.want
        /\ pid' = pid + 1
        /\ idx' = idx + 1
        /\ UNCHANGED <<input, pc, todo, key, sets, cols, tuples, values>>

TakeCond ==
    LET c == query[key][idx]
        n == whereKeyAndValue(c)
        clause == [src |-> "client", ph |-> [i \in 1..n |-> pid + i - 1],
                   want |-> [i \in 1..n |-> <<key, idx, i>>]]
    IN  /\ pc = "conds" /\ idx <= Len(query[key]) /\ c.shape # "invalid"
        /\ IF key = Or THEN ors' = ors \cup {clause} /\ UNCHANGED ands
           ELSE ands' = ands \cup {clause} /\ UNCHANGED ors
        /\ whereValues' = whereValues \o clause.want
        /\ pid' = pid + n
        /\ idx' = idx + 1
        /\ UNCHANGED <<input, pc, todo, key, sets, cols, tuples, values>>

CondInvalid ==
    /\ pc = "conds" /\ idx <= Len(query[key]) /\ query[key][idx].shape = "invalid"
    /\ Reset

KeyDone ==
    /\ pc = "conds" /\ idx > Len(query[key])
    /\ Goto("keys")
    /\ UNCHANGED <<input, todo, key, idx, pid, sets, cols, tuples, ands, ors, values, whereValues>>

WhereDone ==
    /\ pc = "keys" /\ todo = {}
    /\ Goto("built")
    /\ UNCHANGED <<input, todo, key, idx, pid, sets, cols, tuples, ands, ors, values, whereValues>>

\* Mutant of whereSyntax: the _or group has no parentheses around it.
whereSyntaxBare ==
    IF ors = {} THEN {ands}
    ELSE LET first == CHOOSE o \in ors : TRUE
         IN  {ands \cup {first}} \cup {{o} : o \in ors \ {first}}

\* The WHERE clause as SQL reads it: the alternatives, each a set of conditions
\* that must all hold.
whereSyntax == IF ors = {} THEN {ands} ELSE {ands \cup {o} : o \in ors}

-----------------------------------------------------------------------------
(***************************************************************************)
(* ParseInsertRequest and ParseBatchInsertRequest.                         *)
(***************************************************************************)
\* The ownership columns and the values ParseInsertRequest gives them.
Owned ==
    IF ~uid THEN Empty
    ELSE IF ResolveTenantCompat
         THEN [c \in {UserColumn, TenantColumn} |->
                  IF c = UserColumn THEN Uid ELSE IF ws THEN Ws ELSE Null]
         ELSE IF ResolveUserIDColumn THEN [c \in {UserColumn} |-> Uid] ELSE Empty

\* Mutant of ForceOwner: a column the client sent is left alone.
ForceOwnerMissing ==
    /\ pc = "insert" /\ DOMAIN body # {}
    /\ body' = [c \in DOMAIN body \cup DOMAIN Owned |->
                   IF c \in DOMAIN body THEN body[c] ELSE Owned[c]]
    /\ todo' = DOMAIN body'
    /\ Goto("fields")
    /\ UNCHANGED <<op, rules, uid, ws, query, records, key, idx, pid, sets, cols, tuples, ands,
                   ors, values, whereValues>>

ForceOwner ==
    /\ pc = "insert" /\ DOMAIN body # {}
    /\ body' = [c \in DOMAIN body \cup DOMAIN Owned |->
                   IF c \in DOMAIN Owned THEN Owned[c] ELSE body[c]]
    /\ todo' = DOMAIN body'
    /\ Goto("fields")
    /\ UNCHANGED <<op, rules, uid, ws, query, records, key, idx, pid, sets, cols, tuples, ands,
                   ors, values, whereValues>>

InsertField(c) ==
    /\ pc = "fields" /\ c \in todo \ Invalid
    /\ cols' = Append(cols, c)
    /\ values' = Append(values, body[c])
    /\ todo' = todo \ {c}
    /\ UNCHANGED <<input, pc, key, idx, pid, sets, tuples, ands, ors, whereValues>>

createPlaceholders(initial, lenValues) ==
    [i \in 1..(lenValues - initial + 1) |-> initial + i - 1]

InsertDone ==
    /\ pc = "fields" /\ todo = {}
    /\ tuples' = <<createPlaceholders(1, Len(values))>>
    /\ Goto("built")
    /\ UNCHANGED <<input, todo, key, idx, pid, sets, cols, ands, ors, values, whereValues>>

\* tableKeys: the columns of the first record, in one order for all records.
tableKeys ==
    /\ pc = "batch" /\ records # <<>>
    /\ LET K == DOMAIN records[1]
       IN  \E ks \in [1..Cardinality(K) -> K] :
              /\ \A c \in K : \E i \in DOMAIN ks : ks[i] = c
              /\ cols' = ks
    /\ idx' = 1
    /\ Goto("record")
    /\ UNCHANGED <<input, todo, key, pid, sets, tuples, ands, ors, values, whereValues>>

\* The value of a column in record i; a record without the column gives NULL.
Cell(i, c) == IF c \in DOMAIN records[i] THEN records[i][c] ELSE Null

\* Mutant of operationValues: a column the record lacks is skipped.
operationValuesSkip ==
    /\ pc = "record" /\ idx <= Len(records)
    /\ LET present == SelectSeq(cols, LAMBDA c : c \in DOMAIN records[idx])
           row == [j \in DOMAIN present |-> Cell(idx, present[j])]
       IN  /\ values' = values \o row
           /\ tuples' = Append(tuples, createPlaceholders(Len(values) + 1, Len(values) + Len(row)))
    /\ idx' = idx + 1
    /\ UNCHANGED <<input, pc, todo, key, pid, sets, cols, ands, ors, whereValues>>

operationValues ==
    /\ pc = "record" /\ idx <= Len(records)
    /\ LET row == [j \in DOMAIN cols |-> Cell(idx, cols[j])]
       IN  /\ values' = values \o row
           /\ tuples' = Append(tuples, createPlaceholders(Len(values) + 1, Len(values) + Len(row)))
    /\ idx' = idx + 1
    /\ UNCHANGED <<input, pc, todo, key, pid, sets, cols, ands, ors, whereValues>>

BatchDone ==
    /\ pc = "record" /\ idx > Len(records)
    /\ Goto("built")
    /\ UNCHANGED <<input, todo, key, idx, pid, sets, cols, tuples, ands, ors, values, whereValues>>

\* Prest-Batch-Method: copy.  The names come joined with commas and are split
\* again: the first part of a name that has a comma is no quoted string, and
\* copyRows returns an error instead of rows.
copyRefused == \E j \in DOMAIN cols : cols[j] \in Commas

\* The rows COPY sends instead of the SQL text; without columns the split of the
\* empty text gives one name.
copyRows ==
    LET nCols == IF cols = <<>> THEN 1 ELSE Len(cols)
    IN  IF copyRefused THEN <<>>
        ELSE [i \in 1..(Len(values) \div nCols) |->
                 [j \in 1..nCols |-> values[(i - 1) * nCols + j]]]

-----------------------------------------------------------------------------
\* The adapter gets the SQL text and the values, unless a later part of the text
\* (RETURNING, ORDER BY, GROUP BY, the page) is refused: either way the request ends.
Execute == pc = "built" /\ Reset

\* The values it gets: UpdateTable appends those of WHERE only if there is one.
Args == IF ands \cup ors = {} THEN values ELSE values \o whereValues

Next ==
    \/ SelectFromTables \/ DeleteFromTable \/ UpdateTable \/ InsertInTables
    \/ BatchInsertInTables
    \/ BodyEmpty \/ \E c \in Column : SetField(c) \/ FieldInvalid(c) \/ InsertField(c)
    \/ SetDone \/ WhereOwner \/ \E k \in Key : NextKey(k)
    \/ TakeCond \/ CondInvalid \/ KeyDone \/ WhereDone
    \/ ForceOwner \/ InsertDone
    \/ tableKeys \/ operationValues \/ BatchDone
    \/ Execute

Spec == Init /\ [][Next]_vars

-----------------------------------------------------------------------------
Label == {"idle", "set", "where", "keys", "conds", "insert", "fields", "batch", "record", "built"}

\* Every variable has its type; placeholders are numbered from 1, as PostgreSQL
\* has no $0.
TypeOK ==
    /\ op \in {"none", "select", "delete", "update", "insert", "batch"}
    /\ rules \subseteq {"user", "compat"} /\ uid \in BOOLEAN /\ ws \in BOOLEAN
    /\ query \in [Key -> Seq(Conds)]
    /\ IsObject(body)
    /\ Len(records) \in Nat /\ DOMAIN records = 1..Len(records)
    /\ \A i \in DOMAIN records : IsObject(records[i])
    /\ pc \in Label
    /\ todo \subseteq Column \cup Key
    /\ key \in Key /\ idx \in Nat \ {0} /\ pid \in Nat \ {0}
    /\ sets \subseteq Field
    /\ cols \in Seq(Column) /\ tuples \in Seq(Seq(Nat))
    /\ ands \subseteq Clause /\ ors \subseteq Clause
    /\ values \in Seq(Token) /\ whereValues \in Seq(Token)

\* Every placeholder of SET and WHERE is bound to the value the client gave for
\* that field or condition (or to the identity, for the filter the adapter adds),
\* whatever the order in which the maps were visited.
PlaceholdersBound ==
    pc = "built" =>
        /\ \A c \in ands \cup ors : \A i \in DOMAIN c.ph :
              c.ph[i] \in DOMAIN Args /\ Args[c.ph[i]] = c.want[i]
        /\ \A f \in sets : f.ph \in DOMAIN Args /\ Args[f.ph] = body[f.col]

\* The SQL text uses every value it is sent with: PostgreSQL refuses a bind
\* message with more values than the statement has parameters.
EveryValueUsed ==
    pc = "built" =>
        \A n \in DOMAIN Args :
            \/ \E c \in ands \cup ors : \E i \in DOMAIN c.ph : c.ph[i] = n
            \/ \E f \in sets : f.ph = n
            \/ \E i \in DOMAIN tuples : \E j \in DOMAIN tuples[i] : tuples[i][j] = n

\* A read, update or delete by an identified caller on a table with a filter rule
\* matches only rows of the caller (or of the active tenant): the filter is part
\* of every alternative of the WHERE clause, whatever conditions, _or groups
\* included, the client adds.
Confined ==
    pc = "built" /\ op \in {"select", "update", "delete"} /\ Scope # Null =>
        \A alternative \in whereSyntax :
            /\ \E c \in alternative :
                  c.src = (IF Scope = Ws THEN "tenant" ELSE "user") /\ Args[c.ph[1]] = Scope
            /\ Scope = Uid /\ ResolveTenantCompat => \E c \in alternative : c.src = "personal"

\* The row of a single insert, however the fields are visited: on a table with a
\* filter rule an identified caller owns it, with the tenant column set to the
\* active tenant or NULL, whatever the client sent in these columns
\* (ParseInsertRequest: "FORCE the ownership columns to the authenticated identity,
\* overriding any client-supplied value"), and every other column gets what the
\* client sent for it.  ParseBatchInsertRequest forces nothing: its rows are the
\* client's, as RowsAligned says.
SingleInsertOwned ==
    pc = "built" /\ op = "insert" =>
        LET owned == uid /\ rules # {}
            scoped == uid /\ ResolveTenantCompat
        IN  /\ Len(tuples) = 1 /\ Len(tuples[1]) = Len(cols)
            /\ owned => \E j \in DOMAIN cols : cols[j] = UserColumn
            /\ scoped => \E j \in DOMAIN cols : cols[j] = TenantColumn
            /\ \A j \in DOMAIN cols :
                  Args[tuples[1][j]] = IF owned /\ cols[j] = UserColumn THEN Uid
                                       ELSE IF scoped /\ cols[j] = TenantColumn
                                            THEN IF ws THEN Ws ELSE Null
                                            ELSE <<cols[j], 1, 1>>

\* In a batch, by VALUES or by COPY, column c of row i gets what record i has for
\* c and nothing else, the ownership columns too, although only the first record
\* says which columns there are; COPY sends no rows if a name has a comma.
RowsAligned ==
    pc = "built" /\ op = "batch" =>
        /\ Len(tuples) = Len(records)
        /\ \A i \in DOMAIN tuples :
              /\ Len(tuples[i]) = Len(cols)
              /\ \A j \in DOMAIN cols :
                    /\ Args[tuples[i][j]] = Cell(i, cols[j])
                    /\ ~copyRefused => i \in DOMAIN copyRows /\ copyRows[i][j] = Cell(i, cols[j])
=============================================================================
