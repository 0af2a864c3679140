SPECIFICATION Spec
CONSTANTS
    Proc = {r1, r2}
    Main = main
    plano = plano
    prest = prest
    db1 = db1
    Name = {prest, db1}
    Empty = empty
    PGDatabase = prest
    DSN <- MCDSN
    Derived <- MCDerived
    RealDB <- MCRealDB
    Settings <- MCUnnamed
    MaxDials = 3
    NoPool = NoPool
    NoHandle = NoHandle
INVARIANT QualifiedByBoundDatabase
CHECK_DEADLOCK FALSE
