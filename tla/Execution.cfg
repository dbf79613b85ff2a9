CONSTANTS
    r1 = r1
    r2 = r2
    o1 = o1
    o2 = o2
    Requests = {r1, r2}
    Orders = {o1, o2}
    OrderOf <- OneToOne
    SyncRequests = {r2}
    MaxCalls <- RetryOne
    MaxTrades = 2
    VenueFaults = {"reject", "throw"}
    Symbols = {btc}
    Notionals = {1, 2}
    PositionSets <- MCPositionSets
    Equities <- MCEquities
    Total = 3
    MaxTotalExposure = 3
    MaxSymbolExposure = 3
    MaxDrawdownPct = 20
    MaxRecoveryAttempts = 2
SPECIFICATION FairExecSpec
INVARIANTS
    LiveRiskCovered
    OutcomesAreTruthful
PROPERTIES
    SendsAreAuthorized
    SentOrdersSettle
CHECK_DEADLOCK FALSE
