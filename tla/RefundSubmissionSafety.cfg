SPECIFICATION Spec
CONSTANTS
  Turns = {t1, t2, t3}
  Orders = {o1, o2}
  Processes = {p1, p2}
  None = None
  MaxFaults = 2
SYMMETRY Symmetry
INVARIANT TypeOK
INVARIANT OneRefundPerOrder
INVARIANT QueueMatchesRefunds
INVARIANT AnswersNameTheRefund
INVARIANT ShownApprovalIsReal
PROPERTY ImplementsRefundCase
CHECK_DEADLOCK FALSE
