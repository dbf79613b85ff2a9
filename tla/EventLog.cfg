CONSTANTS
  MaxLog = 3
  MaxSessions = 2
  MaxReplay = 4
  FrameCounts = {0, 1, 3}
  Closed = Closed
SPECIFICATION Spec
INVARIANTS
    HistoryIsIntact
    ReplayIsTruthful
PROPERTIES
    PlaybackEnds
CHECK_DEADLOCK FALSE
