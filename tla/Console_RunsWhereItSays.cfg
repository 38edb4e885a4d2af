SPECIFICATION Spec
CONSTANTS
  Repos = {a, b}
  Remote = {b}
  None = None
  MaxRuns = 2
  MaxOutput = 1
  MaxTurns = 2
INVARIANT RunsWhereItSays
CHECK_DEADLOCK FALSE
