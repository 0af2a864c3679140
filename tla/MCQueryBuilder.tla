--------------------------- MODULE MCQueryBuilder ---------------------------
(***************************************************************************)
(* An instance of QueryBuilder for TLC.                                    *)
(***************************************************************************)
EXTENDS QueryBuilder

CONSTANTS title, user_id, tenant_id, bad

MCColumn == {title, user_id, tenant_id, bad}
MCBodies == {{}, {title}, {title, user_id}, {user_id, tenant_id}, {title, bad}}
MCConds == {[shape |-> "list", n |-> 2], [shape |-> "array", n |-> 2],
            [shape |-> "nullary", n |-> 1], [shape |-> "compare", n |-> 1],
            [shape |-> "invalid", n |-> 1]}
=============================================================================
