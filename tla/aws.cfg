\* One team, two requests at once, two workers; one failed call, one death of each kind.
CONSTANTS
  t1 = t1
  infra = infra
  h1 = h1
  h2 = h2
  w1 = w1
  w2 = w2
  none = none
  Services = {t1}
  Infra = infra
  Handlers = {h1, h2}
  Workers = {w1, w2}
  NoTask = none
  MaxRequests = 3
  MaxDeaths = 1
  MaxFaults = 1
  MaxCrashes = 1
SPECIFICATION FairSpec
INVARIANTS TypeOK ResetsAccounted KeysShown RestConsistent
PROPERTY ResetReleased
CHECK_DEADLOCK FALSE
