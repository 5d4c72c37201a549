SPECIFICATION LogSpec
CONSTANTS
    h1 = h1
    h2 = h2
    c1 = c1
    c2 = c2
    Handlers = {h1, h2}
    Clients = {c1, c2}
    Capacity = 2
    Buffer = 1
    ReplayMax = 1
    MaxRecords = 3
    MaxConnects = 2
INVARIANTS TailKept
PROPERTIES NeverStalls
\* All records are made and all connections used up.
CHECK_DEADLOCK FALSE
