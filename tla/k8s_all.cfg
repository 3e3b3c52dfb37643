\* Two services of a team, one slug beginning like the other, two workers; requests to Kubernetes fail, tasks raise, a worker dies.
CONSTANTS
  web = web
  web2 = web2
  t1 = t1
  h1 = h1
  w1 = w1
  w2 = w2
  none = none
  Services = {web, web2}
  Teams = {t1}
  TeamOf <- OneTeam
  Prefixed <- WebPrefix
  Actions = {"build_image", "provision", "delete", "reset", "restart"}
  Handlers = {h1}
  Workers = {w1, w2}
  NoTask = none
  ReleaseOnError = FALSE
  Overtaking = TRUE
  MaxRequests = 3
  MaxDeaths = 0
  MaxCrashes = 1
  MaxFaults = 1
SPECIFICATION Spec
INVARIANTS TypeOK RestConsistent
PROPERTIES  PortsLost
CHECK_DEADLOCK FALSE
