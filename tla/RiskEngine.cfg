CONSTANTS
    Requests = {r1, r2, r3}
    Symbols = {btc, eth}
    Notionals = {0, 1, 2}
    PositionSets <- MCPositionSets
    Equities <- MCEquities
    Total = 3
    MaxTotalExposure = 3
    MaxSymbolExposure = 2
    MaxDrawdownPct = 20
    MaxRecoveryAttempts = 2
SYMMETRY RequestSymmetry
SPECIFICATION Spec
INVARIANTS
    TypeOK
    BudgetBound
    BudgetMatchesReservations
    NoUsableTokenOutsideTrading
    ApprovalBacked
    FrozenExactlyWhenExhausted
PROPERTIES
    ImplementsAuthority
    TokensNeverRevive
    DecisionsAndReservationsOnlyAdvance
CHECK_DEADLOCK FALSE
