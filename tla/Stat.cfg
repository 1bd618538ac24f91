CONSTANTS
    Sid = {1, 2}
    HISTORY_LEN = 3
    UINT = 256
    MaxEpochs = 4
    MaxEvents = 3
    Delay = {1, 2}
SPECIFICATION Spec
INVARIANTS
    TypeOK
    TotalExact
    WindowExact
    RowConsistent
    TraversalExact
