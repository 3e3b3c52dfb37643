SPECIFICATION Spec
CONSTANTS
  Keepers = {k1, k2}
  NumberTick = 2
  NumberRound = 1
  TickDuration = 1
  Minute = 3
  FlagWindow = 1
  StartTime = 0
  AttackTime = 0
  FreezeTime = 5
  MaxTime = 6
  MaxLag = 1
  MaxRequests = 0
  MaxResets = 0
  MaxCrashes = 0
  Overlap = TRUE
CHECK_DEADLOCK FALSE
PROPERTY NoEarlyAdvance
