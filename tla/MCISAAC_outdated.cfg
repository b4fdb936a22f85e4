SPECIFICATION Spec
CONSTANTS
  N = 3
  ThresholdPercent = 66
  MaxHeight = 2
  MaxRound = 0
  MaxClock = 1
  MaxCrash = 0
  Timeouts = {}
  InitVotes = {"YES"}
  Lagging = {0}
  Faults = {"fail"}
INVARIANTS
  StoredProposed
  Agreement
CHECK_DEADLOCK FALSE
