CONSTANTS
    sale = sale
    purchase = purchase
    Types = {sale, purchase}
    All = All
    FirstIssued <- ThreeInvoices
    PageSize = 2
    NoCursor = NoCursor
    NoStream = NoStream
    Unread = Unread
    MaxIssued = 5
    MaxLoads = 3
    MaxBreaks = 2
SPECIFICATION Spec
INVARIANTS
    TypeOK
    RowsMatchFilter
    RowsAreWhole
CHECK_DEADLOCK FALSE
