CONSTANTS
  t1 = t1
  NoTurn = NoTurn
  Turns <- OneTurn
  MaxTurns = 1
  MaxRestarts = 1
SPECIFICATION TurnsSpec
INVARIANTS
  OneEnding
