SPECIFICATION Spec
CONSTANTS
  N = 3
  ThresholdPercent = 66
  MaxHeight = 2
  MaxRound = 0
  MaxClock = 0
  MaxCrash = 0
  Timeouts = {1, 2, 3}
  InitVotes = {"YES"}
  Lagging = {}
  Faults = {"slow"}
INVARIANTS
  ExpiredInReachedState
CHECK_DEADLOCK FALSE
