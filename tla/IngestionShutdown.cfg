CONSTANTS
    Slots = {s1}
    InitialBackoff = 1
    MaxBackoff = 1
    BatchSize = 2
    BackingFails = FALSE
    AmbiguousFailures = FALSE
    MaxRows = 4
    MaxRecords = 3
    MaxSignals = 1
SPECIFICATION Spec
INVARIANT OrderlyShutdownKeepsAll
CHECK_DEADLOCK FALSE
