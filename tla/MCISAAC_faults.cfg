SPECIFICATION Spec
CONSTANTS
  N = 2
  ThresholdPercent = 67
  MaxHeight = 1
  MaxRound = 0
  MaxClock = 1
  MaxCrash = 1
  Timeouts = {1, 2, 3, 4}
  InitVotes = {"YES", "NO"}
  Lagging = {}
  Faults = {"fail", "sleep"}
INVARIANTS
  TypeOK
  AcceptJustified
  StoredAccepted
PROPERTIES
  StateNeverGoesBack
CHECK_DEADLOCK FALSE
