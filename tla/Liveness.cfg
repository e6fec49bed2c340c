\* Two jobs of one user and the connection of one of two nodes: a job given to the other one is never answered. The buyer of one may stop reading.
CONSTANTS
    MaxField = 10
    MaxTotal = 20
    MaxEarnings = 4
    FeePct = 20
    Scale = 1
    Pricing <- MCPricing
    Fallback <- MCFallback
    j1 = j1  j2 = j2  j3 = j3
    u1 = u1  u2 = u2
    n1 = n1  n2 = n2
    r1 = r1  r2 = r2
    NoJob = NoJob
    NoNode = NoNode
    Jobs = {j1, j2}
    Users = {u1}
    Nodes = {n1, n2}
    Readers = {r1}
    UserOf <- OneUser
    ModelOf <- OneModel
    ReaderNode <- Reconnect
    MaxConcurrent = 2
    QuotaDaily = 1
    ChunkCap = 1
    Reports = {}
    Prices = {1}
    InitBalance <- Funds
    TopUps = {}
    MaxCredit = 0
    ShortIds = {n2}
    Stalled = {j2}
    MaxCrashes = 0
SPECIFICATION FairSpec
PROPERTIES
    SlotReleased
    BuyerReturns
    ReaderReturns
