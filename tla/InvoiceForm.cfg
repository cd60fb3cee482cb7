CONSTANTS
    p1 = p1
    p2 = p2
    Products = {p1, p2}
    NoProduct = NoProduct
    Price <- TwoPrices
    TaxRate = 500
    Quantities = {3}
    Costs = {15}
    MaxLines = 2
    AmountMax = 100
    FirstDay = 0
    SettingsToday = 1
    LastDay = 2
    NoDate = NoDate
    NoCall = NoCall
    MaxKeys = 2
    MaxSubmits = 2
    MaxLosses = 1
SPECIFICATION FairSpec
INVARIANTS
    TypeOK
    DraftsAreInvoiced
    DateIsWanted
    PreviewIsInvoiced
PROPERTIES
    SubmittingEnds
CHECK_DEADLOCK FALSE
