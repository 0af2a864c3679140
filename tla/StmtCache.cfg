SPECIFICATION Spec
CONSTANTS
    Proc = {p1, p2}
    prest = prest
    plano = plano
    db1 = db1
    DB = {prest, plano}
    Name = {prest, plano, db1}
    Empty = Empty
    PGDatabase = prest
    Default = prest
    RealNames <- MCRealNames
    Unnamed = Unnamed
    None = None
    MaxPrep <- MCMaxPrep
INVARIANTS TypeOK UsableStatement NamedIsolation PreparedBounded
SYMMETRY MCSymmetry
