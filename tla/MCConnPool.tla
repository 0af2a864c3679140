----------------------------- MODULE MCConnPool -----------------------------
(***************************************************************************)
(* Instances of ConnPool for TLC.  plano is an alias, prest is the default *)
(* database, db1 another one.                                              *)
(***************************************************************************)
EXTENDS ConnPool

CONSTANTS plano, prest, db1

MCDSN == {"pghost", "host1"} \X NameOrEmpty
MCDerived == [n \in NameOrEmpty |-> <<"pghost", n>>]
MCRealDB == [d \in MCDSN |-> d[2]]

Setting(s, us) == [single |-> s, urls |-> us, legacy |-> FALSE]

\* an alias for a database on another host that has the default name
AliasURL == <<[name |-> plano, dsn |-> <<"host1", prest>>]>>
\* an entry without a name is named after its database
UnnamedURL == <<[name |-> db1, dsn |-> <<"host1", db1>>]>>

\* two aliases, one of them the default name, for one database
SharedURLs == AliasURL \o <<[name |-> prest, dsn |-> <<"host1", prest>>]>>

MCAlias ==
    {Setting(s, us) : s \in BOOLEAN, us \in {AliasURL, << >>}} \cup {Setting(FALSE, SharedURLs)}

MCUnnamed == {Setting(FALSE, UnnamedURL)}
MCNoURL == {Setting(FALSE, << >>)}
=============================================================================
