\* Two services, two rotators, one checker, one restart, a service provisioned again or a reset.
CONSTANTS
  s1 = s1
  s2 = s2
  r1 = r1
  r2 = r2
  c1 = c1
  Services = {s1, s2}
  Order <- OrderValue
  Rotators = {r1, r2}
  Checkers = {c1}
  NumberTick = 1
  NumberRound = 1
  Released <- ReleasedFirst
  ReleaseRows <- FirstTwice
  Rotates = TRUE
  MaxFlags = 2
  MaxChecks = 1
  Missing = {{s2}}
  MaxTroubles = 1
SPECIFICATION FairSpec
INVARIANTS TypeOK StoredIsPlanted ResultsBounded 
  
CHECK_DEADLOCK FALSE
