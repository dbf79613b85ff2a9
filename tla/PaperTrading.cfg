SPECIFICATION Spec
CONSTANTS
  Total = 12
  Policy <- MCPolicy
  Plans <- MCPlans
  MaxCycles = 5
  Deadline = 5
  Networks = {"answers", "fails", "silent"}
INVARIANTS
    BooksBalance
PROPERTIES
    LiveRunShutsDown
CHECK_DEADLOCK FALSE
