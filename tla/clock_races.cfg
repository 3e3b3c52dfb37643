SPECIFICATION Spec
CONSTANTS
  Keepers = {k1}
  NumberTick = 2
  NumberRound = 1
  TickDuration = 1
  Minute = 2
  FlagWindow = 1
  StartTime = 0
  AttackTime = 0
  FreezeTime = 3
  MaxTime = 7
  MaxLag = 1
  MaxRequests = 1
  MaxResets = 1
  MaxCrashes = 1
  Overlap = TRUE
CHECK_DEADLOCK FALSE
INVARIANTS
  TypeOK
  PositionsShown
  RoundBounded
