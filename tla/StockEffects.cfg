CONSTANTS
    c1 = c1
    c2 = c2
    c3 = c3
    Calls = {c1, c2, c3}
    NoCall = NoCall
    Products = {1, 2, 3}
    Quantities = {1, 2}
    StockMax = 3
    Years = {2025, 2026}
    OpeningStock <- MCStock
    Workload <- EffectWorkload
    MaxCrashes = 1
SPECIFICATION Spec
SYMMETRY CallSymmetry
INVARIANTS
    GapFreeNumbers
    InvoiceAllOrNothing
    AnnouncedIsCommitted
    AnswersAreTrue
