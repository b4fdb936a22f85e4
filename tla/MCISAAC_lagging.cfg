SPECIFICATION FairSpec
CONSTANTS
  N = 4
  ThresholdPercent = 67
  MaxHeight = 3
  MaxRound = 0
  MaxClock = 0
  MaxCrash = 0
  Timeouts = {}
  InitVotes = {"YES"}
  Lagging = {0}
  Faults = {}
INVARIANTS
  Agreement
PROPERTIES
  LaggingCatchUp
CHECK_DEADLOCK FALSE
