\* Two jobs and two invoices of one user, one node, one payment whose row is lost.
CONSTANTS
    j1 = j1
    j2 = j2
    u1 = u1
    n1 = n1
    i1 = i1
    i2 = i2
    Jobs = {j1, j2}
    Users = {u1}
    UserOf <- MCUserOf
    Nodes = {n1}
    NodeOf <- MCNodeOf
    Msat = 2
    Invoices = {i1, i2}
    OwnerOf <- MCOwnerOf
    AmountOf <- MCAmountOf
    JobAmounts <- MCJobAmounts
    MaxLost = 1
SPECIFICATION Spec
INVARIANTS
    BooksInv
    Solvent
PROPERTY BalanceNotOverstated
