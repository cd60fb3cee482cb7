CONSTANTS
    f1 = f1
    f2 = f2
    Existing = {1}
    New = {2}
    Quantities = {0, 1}
    Threshold = 1
    LowStockMaxItems = 2
    PageSize = 2
    Fetches = {f1, f2}
    Absent = Absent
    Unread = Unread
    NoFetch = NoFetch
    NoStream = NoStream
    MaxCommits = 1
    MaxFaults = 0
    MaxRestarts = 0
SPECIFICATION Spec
INVARIANTS
    EveryProductShown
CHECK_DEADLOCK FALSE
