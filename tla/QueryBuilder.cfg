SPECIFICATION Spec
CONSTANTS
    title = title
    user_id = user_id
    tenant_id = tenant_id
    bad = bad
    Column <- MCColumn
    Invalid = {bad}
    Commas = {bad}
    UserColumn = user_id
    TenantColumn = tenant_id
    Key = {k1, or}
    Or = or
    Conds <- MCConds
    MaxConds = 2
    MaxRecords = 2
    Bodies <- MCBodies
    Uid = Uid
    Ws = Ws
    Null = Null
INVARIANTS TypeOK PlaceholdersBound EveryValueUsed Confined SingleInsertOwned RowsAligned
