SPECIFICATION Spec
CONSTANTS
  N = 3
  ThresholdPercent = 66
  MaxHeight = 1
  MaxRound = 0
  MaxClock = 0
  MaxCrash = 0
  Timeouts = {1, 2, 3}
  InitVotes = {"YES"}
  Lagging = {}
  Faults = {"race"}
INVARIANTS
  OneBallotPerState
CHECK_DEADLOCK FALSE
