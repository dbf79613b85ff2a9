CONSTANTS
  Symbols = {1, 2}
  MaxProduction = 6
  MaxCycles = 2
  SnapshotIds = {"a", "b"}
  Contents = {1, 2}
  MaxControl = 5
  MaxCalls = 7
  MaxProposals = 2
  MaxExperiments = 2
  MaxRecorded = 3
  NoSnapshot = NoSnapshot
SPECIFICATION Spec
INVARIANTS
    HaltNeedsRecovery
    OperatorSeesWhatHappened
    DeploymentsAreBackedAndReversible
    PromotionIsGated
CHECK_DEADLOCK FALSE
