----------------------------- MODULE MCStmtCache -----------------------------
(***************************************************************************)
(* Instances of StmtCache for TLC: the default database prest and plano,   *)
(* which pg.urls adds.                                                     *)
(***************************************************************************)
EXTENDS StmtCache, TLC

CONSTANTS prest, plano, db1

\* plano is an alias of the database db1
NamedEntry == prest :> Empty @@ plano :> db1
\* the entry of plano has no name of its own, so its queries name prest
UnnamedEntry == prest :> Empty @@ plano :> Empty
MCRealNames == {NamedEntry, UnnamedEntry}
MCNamed == {NamedEntry}

MCMaxPrep == FALSE :> 2 @@ TRUE :> 4

MCSymmetry == Permutations(Proc)
=============================================================================
