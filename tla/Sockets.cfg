CONSTANTS
  Session = {1, 2}
  Socket = {1}
  Call = {1, 2}
  Capacity = 1
  MaxSockets = 1
  MaxInFlight = 2
  MaxRotations = 1
  None = None
SPECIFICATION SocketsSpec
INVARIANT CallsAccounted
PROPERTY EndedSessionEnds
CHECK_DEADLOCK FALSE
