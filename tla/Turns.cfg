\* One send and the sweep: sends meet only in the file and the sweep's order.
CONSTANTS
  t1 = t1
  NoTurn = NoTurn
  Turns <- OneTurn
  MaxTurns = 1
  MaxRestarts = 1
SPECIFICATION TurnsFairSpec
INVARIANTS NothingLost DeliveredAfterCommit
PROPERTIES ShownStays RecordGoes
