\* The limits of the code in units of 10,000 tokens and of one sat, with 5 % of fee.
CONSTANTS
    MaxField = 10
    MaxTotal = 20
    MaxEarnings = 200
    FeePct = 5
    Scale = 7
    Pricing <- MCPricing
    Fallback <- MCFallback
    BillModels = {"cheap", "dear", "unknown"}
    BillReports <- MCReports
    BtcPrices <- MCPrices
    MaxReport = 12
    MaxPrice = 6
SPECIFICATION BillingSpec
INVARIANTS
    CapsHold
    ProviderShare
    CostIsMonotone
