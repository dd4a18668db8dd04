SPECIFICATION Spec
CONSTANTS
  T = T
  NoTurn = 0
  MaxSteps = 2
  PageRows = 2
  PageBytes = 2
  Budgets <- MCBudgets
INVARIANT PauseKept
PROPERTIES BoundUntilEnded WorkEnds
CHECK_DEADLOCK FALSE
