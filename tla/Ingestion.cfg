CONSTANTS
    Slots = {s1, s2}
    InitialBackoff = 1
    MaxBackoff = 3
    BatchSize = 2
    BackingFails = TRUE
    AmbiguousFailures = TRUE
    MaxRows = 4
    MaxRecords = 5
    MaxSignals = 2
SPECIFICATION FairSpec
INVARIANTS
    OnlyTheTailIsLost
    CollectorInOrder
PROPERTIES
    ImplementsDurableLog
    StreamKeepsFlowing
CHECK_DEADLOCK FALSE
