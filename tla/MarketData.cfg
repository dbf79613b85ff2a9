CONSTANTS
  MaxClock = 3
  MaxMessages = 3
  Prices = {1, 2}
  Delays = {0, 2}
  Heartbeat = 1
  MaxBackoff = 2
SPECIFICATION Spec
INVARIANTS
    FeedIsHonest
PROPERTIES
    PastIsFixed
    StopEndsFeed
CHECK_DEADLOCK FALSE
