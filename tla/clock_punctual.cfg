SPECIFICATION PunctualSpec
CONSTANTS
  Keepers = {k1}
  NumberTick = 2
  NumberRound = 2
  TickDuration = 1
  Minute = 3
  FlagWindow = 1
  StartTime = 0
  AttackTime = 3
  FreezeTime = 5
  MaxTime = 36
  MaxLag = 1
  MaxRequests = 0
  MaxResets = 0
  MaxCrashes = 0
  Overlap = FALSE
CHECK_DEADLOCK FALSE
INVARIANT
  TickNotOverdue
PROPERTIES
  EveryTickFlagged
  ContestEnds
