SPECIFICATION Spec
CONSTANTS
    n1 = n1
    n2 = n2
    n3 = n3
    c1 = c1
    c2 = c2
    c3 = c3
    t1 = t1
    k1 = k1
    Node = {n1, n2, n3}
    NoNode = NoNode
    Client = {c1, c2}
    NoClient = NoClient
    Table = {t1}
    Key = {k1}
    NoTable = NoTable
    FirstLeader = n1
    MaxTerm = 2
    MaxCompact = 0
    MaxLog = 4
    MaxAttempts <- NoRetry
    Home <- TwoDmlHome
    Job <- TwoDdlJob
    Target <- TwoTarget
INVARIANT OneDdlAtATime
PROPERTY ImplementsSerialLog
CHECK_DEADLOCK FALSE
