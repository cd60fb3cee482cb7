CONSTANTS
    i1 = i1
    i2 = i2
    q1 = q1
    q2 = q2
    Invoices = {i1, i2}
    NumberOf <- SameNumber
    Requests = {q1, q2}
    NoInvoice = NoInvoice
    NoFile = NoFile
    Half = Half
    MaxFaults = 1
    MaxCrashes = 1
    MaxResets = 1
    PageHeight = 12
    Margin = 2
    FooterHeight = 1
    NumberDrop = 1
    NumberHeight = 1
    HeadingHeight = 1
    Gap = 1
    TotalHeight = 1
    Printed <- SmallInvoices
SPECIFICATION FairSpec
INVARIANTS
    ServedIsOwnAndWhole
    NoLitter
    ServedIsReadable
PROPERTIES
    StoredStays
    FoundIsServed
CHECK_DEADLOCK FALSE
