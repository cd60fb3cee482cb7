CONSTANTS
    sale = sale
    purchase = purchase
    Types = {sale, purchase}
    All = All
    FirstIssued <- ThreeInvoices
    PageSize = 2
    NoCursor = NoCursor
    NoStream = NoStream
    Unread = Unread
    MaxIssued = 4
    MaxLoads = 3
    MaxBreaks = 1
SPECIFICATION Spec
INVARIANTS
    FilterIsShown
CHECK_DEADLOCK FALSE
