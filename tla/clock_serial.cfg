SPECIFICATION Spec
CONSTANTS
  Keepers = {k1}
  NumberTick = 2
  NumberRound = 1
  TickDuration = 2
  Minute = 2
  FlagWindow = 1
  StartTime = 0
  AttackTime = 2
  FreezeTime = 5
  MaxTime = 8
  MaxLag = 1
  MaxRequests = 2
  MaxResets = 1
  MaxCrashes = 0
  Overlap = FALSE
CHECK_DEADLOCK FALSE
PROPERTIES
  TickKeepsItsTime
  
