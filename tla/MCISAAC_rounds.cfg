SPECIFICATION Spec
CONSTANTS
  N = 3
  ThresholdPercent = 66
  MaxHeight = 1
  MaxRound = 1
  MaxClock = 0
  MaxCrash = 0
  Timeouts = {1, 2}
  InitVotes = {"YES"}
  Lagging = {}
  Faults = {"sleep"}
INVARIANTS
  OneBallotPerState
  RoundsFailBeforeNext
PROPERTIES
  ImplementsLedgers
CHECK_DEADLOCK FALSE
