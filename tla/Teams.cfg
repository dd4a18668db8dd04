SPECIFICATION Spec
CONSTANTS
  Request = {r1, r2}
  Name = {M, X}
  Message = {"long"}
  MaxSuffix = 2
  MaxReceived = 4
  MaxTurns = 1
  MaxMishaps = 1
  PageRows = 2
  PageBytes = 2
  NoTurn = NoTurn
  None = None
INVARIANTS HistoryOfItsTeam ReadsExact
PROPERTY EveryRequestEnds
CHECK_DEADLOCK FALSE
