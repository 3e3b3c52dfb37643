\* Two teams, a challenge and one to come, a round of two ticks; three requests of any kind.
CONSTANTS
  Matches = {"challenge_slug", "team_name"}
  FirstTeams = 2
  FirstChalls = 1
  NumberRound = 1
  NumberTick = 2
  Visibilities <- AllOrNone
  Widths = {1, 2}
  FirstWidth = 1
  FirstRelease <- AllRounds
  MaxRequests = 3
  Outcomes <- Answers
  MaxResults = 3
SPECIFICATION Spec
INVARIANTS TypeOK  CapturedIsStolen  StatusIsLast
PROPERTY FrozenStable
CHECK_DEADLOCK FALSE
