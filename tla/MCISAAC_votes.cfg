SPECIFICATION Spec
CONSTANTS
  N = 2
  ThresholdPercent = 67
  MaxHeight = 2
  MaxRound = 0
  MaxClock = 0
  MaxCrash = 0
  Timeouts = {1, 2, 3, 4}
  InitVotes = {"YES", "NO"}
  Lagging = {}
  Faults = {"race", "sleep", "fail"}
INVARIANTS
  OneVotePerState
CHECK_DEADLOCK FALSE
