\* One request at a time, two workers of one host; commands fail and a worker dies; a row is
\* inserted before its task ends.
CONSTANTS
  s1 = s1
  h1 = h1
  w1 = w1
  w2 = w2
  x1 = x1
  x2 = x2
  none = none
  Services = {s1}
  Actions = {"provision", "delete", "reset", "restart"}
  Handlers = {h1}
  Workers = {w1, w2}
  NoTask = none
  ReleaseOnError = TRUE
  Overtaking = FALSE
  MaxRequests = 6
  MaxDeaths = 0
  MaxCrashes = 1
  Hosts = {x1}
  HostOf <- OneHost
  MaxFaults = 2
SPECIFICATION FairSpec
INVARIANTS AtMostOneTask RestConsistent
  
CHECK_DEADLOCK FALSE
