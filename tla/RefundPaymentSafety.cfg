SPECIFICATION Spec
CONSTANTS
  Refunds = {r1, r2}
  NoRefund = NoRefund
  Workers = {w1, w2, w3}
  MaxRetries = 1
  MaxFaults = 3
  HardTimeLimit = FALSE
  Redelivery = TRUE
SYMMETRY Symmetry
INVARIANT TypeOK
INVARIANT PaymentNeedsApproval
INVARIANT CompletedWasPaid
PROPERTY FinalStaysFinal
PROPERTY ImplementsLifecycle
CHECK_DEADLOCK FALSE
