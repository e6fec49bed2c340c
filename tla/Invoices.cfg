\* The invoices of two users, and two crashes.
CONSTANTS
    i1 = i1  i2 = i2
    u1 = u1  u2 = u2
    NoInvoice = NoInvoice
    Invoices = {i1, i2}
    Users = {u1, u2}
    OwnerOf <- Owners
    AmountOf <- Amounts
    MaxCrashes = 2
SPECIFICATION FairSpec
INVARIANTS
    InvoicesInv
    CreditedWasPaid
    CreditedOnce
PROPERTIES
    PendingIsResolved
    ImplementsTopUpLedger
