SPECIFICATION Spec
CONSTANTS
    Proc = {r1, r2}
    Main = main
    plano = plano
    prest = prest
    db1 = db1
    Name = {prest, db1}
    Empty = empty
    PGDatabase = prest
    DSN <- MCDSN
    Derived <- MCDerived
    RealDB <- MCRealDB
    Settings <- MCNoURL
    MaxDials = 3
    NoPool = NoPool
    NoHandle = NoHandle
INVARIANT DuplicatesClosed
CHECK_DEADLOCK FALSE
