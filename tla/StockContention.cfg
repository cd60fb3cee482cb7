CONSTANTS
    c1 = c1
    c2 = c2
    c3 = c3
    Calls = {c1, c2, c3}
    NoCall = NoCall
    Products = {1, 2}
    Quantities = {1, 2}
    StockMax = 3
    Years = {2026}
    OpeningStock <- MCStock
    Workload <- StockWorkload
    MaxCrashes = 0
SPECIFICATION FairSpec
INVARIANTS
    TypeOK
    StockWithinColumn
    LedgerExplainsStock
    NoCircularWait
PROPERTIES
    ShortageReportComplete
    InventorySpec
    EveryCallEnds
