SPECIFICATION Spec
CONSTANTS
    Proc = {r1, r2}
    orders = orders
    ordersCount = ordersCount
    script = script
    plugin = plugin
    databases = databases
    tablesX = tablesX
    t1 = t1
    id = id
    total = total
    sumTotal = sumTotal
    countAll = countAll
    URL = {orders, ordersCount, script, plugin, databases, tablesX}
    Route <- MCRoute
    Path <- MCPath
    KeyPath <- MCKeyPath
    File <- MCFile
    Prefix <- MCPrefix
    Table <- MCTable
    Selected <- MCSelected
    Counted <- MCCounted
    Star = star
    Column = {id, total, sumTotal, countAll, star}
    Field <- MCField
    Caller = {ann, bob}
    Nobody = nobody
    Workloads <- MCOneTable
    Settings <- MCFiltered
    MaxVersion = 1
    MaxTime = 2
    NoEntry = NoEntry
    NoReply = NoReply
    NoRequest = NoRequest
    NoAnswer = NoAnswer
    NoFile = NoFile
INVARIANT AnswersForCaller
