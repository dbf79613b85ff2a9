CONSTANTS
  Capacity = 2
  MaxFrames = 3
  MaxCommands = 2
  MaxStarts = 2
  Slots = {s1, s2}
  Nets = {0, 2000}
SPECIFICATION Spec
INVARIANTS
    BrowserFollowsRing
    ConnectionsPerStart
    CommandsTakeEffect
PROPERTIES
    AdapterReconnects
CHECK_DEADLOCK FALSE
