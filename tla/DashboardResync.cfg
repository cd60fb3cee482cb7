CONSTANTS
    f1 = f1
    f2 = f2
    Existing = {1}
    New = {0}
    Quantities = {0, 1}
    Threshold = 1
    LowStockMaxItems = 1
    PageSize = 1
    Fetches = {f1, f2}
    Absent = Absent
    Unread = Unread
    NoFetch = NoFetch
    NoStream = NoStream
    MaxCommits = 2
    MaxFaults = 1
    MaxRestarts = 1
SPECIFICATION FairSpec
INVARIANTS
    TypeOK
    TableIsRight
    PanelIsRight
PROPERTIES
    NothingTakenBack
    IsProductTable
    ComesToRest
CHECK_DEADLOCK FALSE
