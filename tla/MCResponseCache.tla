-------------------------- MODULE MCResponseCache --------------------------
(***************************************************************************)
(* Instances of ResponseCache for TLC.  Two URLs of one table,             *)
(*   orders       /db/public/orders?_select=id,sum:total&_groupby=id&_count=   *)
(*   ordersCount  /db/public/orders?_select=id,sum:total&_groupby=id&_count=*  *)
(* have the same slug; the script has a path that is escaped.              *)
(***************************************************************************)
EXTENDS ResponseCache

CONSTANTS orders, ordersCount, script, plugin, databases, tablesX,  \* URLs
          t1, id, total, sumTotal, countAll

MCRoute ==
    [u \in URL |-> CASE u \in {orders, ordersCount, tablesX} -> "table"
                     [] u = script -> "script"
                     [] u = plugin -> "plugin"
                     [] u = databases -> "catalog"]
MCPrefix == [u \in URL |-> CASE u = databases -> "databases"
                            [] u = tablesX -> "tables"
                            [] OTHER -> "none"]
MCPath == [u \in URL |-> IF u = ordersCount THEN orders ELSE u]
MCKeyPath == [u \in URL |-> IF u = script THEN "escaped" ELSE MCPath[u]]
MCFile == [u \in URL |-> IF u = ordersCount THEN orders ELSE u]
MCTable == [u \in URL |-> t1]
MCSelected == [u \in URL |-> IF MCPath[u] = orders THEN <<id, sumTotal>> ELSE << >>]
MCCounted == [u \in URL |-> IF u = ordersCount THEN {countAll} ELSE {}]
MCField == [c \in Column |-> IF c = sumTotal THEN total ELSE c]

Exposed == [enabled |-> FALSE, databases |-> TRUE, tables |-> TRUE, schemas |-> TRUE]
Base == [enabled |-> TRUE, time |-> 1, endpoints |-> << >>,
         whitelist |-> [u \in URL |-> "none"], expose |-> Exposed,
         restrict |-> FALSE, tables |-> << >>, filtered |-> {}]

\* read restricted to one column, a user filter, times to live per path
Restricted ==
    [Base EXCEPT !.restrict = TRUE,
                 !.tables = <<[name |-> t1, permissions |-> {"read"}, fields |-> <<id>>]>>,
                 !.filtered = {t1},
                 !.endpoints = <<[endpoint |-> orders, enabled |-> TRUE, time |-> 2],
                                 [endpoint |-> script, enabled |-> FALSE, time |-> 1]>>]
\* cached except what the whitelist matches, the list of databases hidden
Whitelisted ==
    [Base EXCEPT !.whitelist = [u \in URL |-> IF u \in {script, tablesX} THEN "match" ELSE "none"],
                 !.expose = [Exposed EXCEPT !.enabled = TRUE, !.databases = FALSE]]
\* nothing cached, and an invalid expression after the one that matches the script
Invalid ==
    [Base EXCEPT !.enabled = FALSE,
                 !.whitelist = [u \in URL |-> IF u = script THEN "match" ELSE "error"]]
\* /tables hidden, in the chain of the table routes only
Hidden == [Base EXCEPT !.expose = [Exposed EXCEPT !.tables = FALSE]]

MCSettings == {Base, Restricted, Whitelisted, Invalid, Hidden}
MCWorkloads ==
    {[urls |-> {orders, ordersCount}, confs |-> {Base, Restricted}],
     [urls |-> {script}, confs |-> {Base, Restricted, Whitelisted, Invalid}],
     [urls |-> {plugin}, confs |-> {Base, Restricted}],
     [urls |-> {databases, tablesX}, confs |-> MCSettings]}

MCFiltered == {[Base EXCEPT !.filtered = {t1}]}
MCOneTable == {[urls |-> {orders}, confs |-> MCFiltered]}
=============================================================================
