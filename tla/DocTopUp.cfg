\* One invoice, paid shortly before its row grows old; nothing fails.
CONSTANTS
    i1 = i1  i2 = i2
    u1 = u1  u2 = u2
    NoInvoice = NoInvoice
    Invoices = {i1}
    Users = {u1}
    OwnerOf <- Owners
    AmountOf <- Amounts
    MaxCrashes = 0
SPECIFICATION FairSpec
PROPERTY PaidIsCredited
