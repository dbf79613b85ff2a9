CONSTANTS
    r1 = r1
    r2 = r2
    o1 = o1
    o2 = o2
    Requests = {r1, r2}
    Orders = {o1, o2}
    OrderOf <- OneToOne
    SyncRequests = {}
    MaxCalls <- NoRetry
    MaxTrades = 1
    VenueFaults = {"lost_response"}
    Symbols = {btc}
    Notionals = {1}
    PositionSets <- MCPositionSets
    Equities <- MCEquities
    Total = 3
    MaxTotalExposure = 3
    MaxSymbolExposure = 3
    MaxDrawdownPct = 20
    MaxRecoveryAttempts = 2
SPECIFICATION ExecSpec
INVARIANT LiveRiskCovered
CHECK_DEADLOCK FALSE
