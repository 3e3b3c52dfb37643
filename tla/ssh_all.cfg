\* Everything at once: two requests, two hosts, failures and deaths.
CONSTANTS
  s1 = s1
  h1 = h1
  h2 = h2
  w1 = w1
  w2 = w2
  x1 = x1
  x2 = x2
  none = none
  Services = {s1}
  Actions = {"provision", "delete", "reset", "restart"}
  Handlers = {h1, h2}
  Workers = {w1, w2}
  NoTask = none
  ReleaseOnError = TRUE
  Overtaking = TRUE
  MaxRequests = 3
  MaxDeaths = 1
  MaxCrashes = 1
  Hosts = {x1, x2}
  HostOf <- TwoHosts
  MaxFaults = 1
SPECIFICATION Spec
INVARIANTS TypeOK TasksCovered
 
CHECK_DEADLOCK FALSE
