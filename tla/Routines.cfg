SPECIFICATION Spec
CONSTANTS
  long = long
  short = short
  Runs <- MCRuns
  Long <- MCLong
  Starts <- MCStarts
  TeamOf <- MCTeamOf
  Workers = 2
  MaxBatches = 2
  MaxAck = 1
  MaxOpenChallenges = 1
  MaxTracked = 2
  MaxOpeningTeams = 1
  NoRun = NoRun
  Calls = {1, 2, 3}
  PageRows = 2
  PageBytes = 2
  NoTurn = NoTurn
INVARIANTS RunsAccounted AnswersOnce
PROPERTY DueRunStarts
CHECK_DEADLOCK FALSE
