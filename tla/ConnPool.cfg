SPECIFICATION Spec
CONSTANTS
    Proc = {r1, r2}
    Main = main
    plano = plano
    prest = prest
    db1 = db1
    Name = {plano, prest}
    Empty = empty
    PGDatabase = prest
    DSN <- MCDSN
    Derived <- MCDerived
    RealDB <- MCRealDB
    Settings <- MCAlias
    MaxDials = 2
    NoPool = NoPool
    NoHandle = NoHandle
INVARIANTS TypeOK HandleInUseIsOpen NoOrphan RoutedAsConfigured PathlessOnDefault
PROPERTIES ImplementsDirectory
CHECK_DEADLOCK FALSE
