SPECIFICATION Spec
CONSTANTS
  Handlers = {h1}
  Teams = {a, b}
  Challs = {c1}
  NumberTick = 2
  NumberRound = 1
  SolveFirst = TRUE
  Junk = junk
  MaxBulk = 2
  MaxRequests = 2
  MaxResets = 1
CHECK_DEADLOCK FALSE
INVARIANTS
  TypeOK
  CreditedOnce
