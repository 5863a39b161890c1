SPECIFICATION Spec
CHECK_DEADLOCK FALSE
CONSTANTS
  Orders = {a, b, x}
  Owned = {a, b}
  Latest = a
  Turns = {t1, t2}
  Messages <- AllMessages
  MaxTurns = 4
  None = None
SYMMETRY Symmetry
INVARIANT TypeOK
INVARIANT RefundsAreOwned
INVARIANT SubmittedIsReal
INVARIANT OrderIdFitsNumber
INVARIANT EligibilityFitsOrder
INVARIANT GuardFitsStages
