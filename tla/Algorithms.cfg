SPECIFICATION CallSpec
CONSTANTS
  MaxSeries = 4
  MaxTrades = 3
  MaxRecords = 4
  Tf = 2
  CandleInputs <- MCCandleInputs
  RecordInputs <- MCRecordInputs
  Horizon = 4
  Period = 3
  MaxExposure = 10
  Samples <- MCSamples
  TradingInputs <- MCTradingInputs
  BackfillInputs <- MCBackfillInputs
  ThrottleInputs <- MCThrottleInputs
  PortfolioInputs <- MCPortfolioInputs
  Constraints <- MCConstraints
  RebalanceInputs <- MCRebalanceInputs
  Features = {1, 2, 3, 4}
  GraphInputs <- MCGraphInputs
  ChampionInputs <- MCChampionInputs
  Parts = {"collector", "risk"}
  HealthInputs <- MCHealthInputs
  WarnAfter = 1
  CritAfter = 2
INVARIANTS
    IndicatorsAreFair
    DecisionFollowsEvidence
    SeriesSurviveDelivery
    BackfillIsSound
    DependenciesComeFirst
    PortfolioIsSound
    VerdictsAreEarned
CHECK_DEADLOCK FALSE
