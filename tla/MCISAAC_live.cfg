SPECIFICATION FairSpec
CONSTANTS
  N = 3
  ThresholdPercent = 66
  MaxHeight = 1
  MaxRound = 0
  MaxClock = 0
  MaxCrash = 0
  Timeouts = {1, 2}
  InitVotes = {"YES", "NO"}
  Lagging = {}
  Faults = {}
INVARIANTS
  RoundsGivenUpAreLost
PROPERTIES
  EveryRoundEnds
CHECK_DEADLOCK FALSE
