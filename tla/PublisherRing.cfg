CONSTANTS
  Capacity = 2
  MaxFrames = 3
  MaxCommands = 0
  MaxStarts = 1
  Slots = {s1, s2}
  Nets = {0, 2000}
SPECIFICATION Spec
INVARIANT PublishNewIsCurrent
CHECK_DEADLOCK FALSE
