SPECIFICATION Spec
CONSTANTS
  Handlers = {h1, h2}
  Teams = {a}
  Challs = {c1}
  NumberTick = 2
  NumberRound = 2
  SolveFirst = FALSE
  Junk = junk
  MaxBulk = 1
  MaxRequests = 2
  MaxResets = 1
CHECK_DEADLOCK FALSE
INVARIANT
  SolvesMatchCredits
PROPERTY
  CreditedWhileShown
