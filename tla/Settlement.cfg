\* Two jobs of one user, two connections of one node, a crash; the balance covers one of two charges.
CONSTANTS
    MaxField = 10
    MaxTotal = 20
    MaxEarnings = 4
    FeePct = 20
    Scale = 1
    Pricing <- MCPricing
    Fallback <- MCFallback
    j1 = j1  j2 = j2  j3 = j3
    u1 = u1  u2 = u2
    n1 = n1  n2 = n2
    r1 = r1  r2 = r2
    NoJob = NoJob
    NoNode = NoNode
    Jobs = {j1, j2}
    Users = {u1}
    Nodes = {n1}
    Readers = {r1, r2}
    UserOf <- OneUser
    ModelOf <- OneModel
    ReaderNode <- Reconnect
    MaxConcurrent = 2
    QuotaDaily = 1
    ChunkCap = 1
    Reports <- MCReports
    Prices = {1}
    InitBalance <- NoFunds
    TopUps = {3}
    MaxCredit = 3
    ShortIds = {}
    Stalled = {}
    MaxCrashes = 1
SPECIFICATION Spec
SYMMETRY Symmetry
INVARIANTS
    DoneChClosedOnce
    NoOrphanBuyer
    RowsExplained
    SettlementInv
    BalanceExplained
PROPERTIES
    ImplementsJobLedger
