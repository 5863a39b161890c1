SPECIFICATION Spec
CHECK_DEADLOCK FALSE
CONSTANTS
  Orders = {a, b}
  Owned = {a, b}
  Latest = a
  Turns = {t1}
  Messages <- AllMessages
  MaxTurns = 4
  None = None
INVARIANT NewOrderStartsClean
