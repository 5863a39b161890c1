SPECIFICATION Spec
CONSTANTS
  Refunds = {r1}
  NoRefund = NoRefund
  Workers = {w1}
  MaxRetries = 3
  MaxFaults = 1
  HardTimeLimit = TRUE
  Redelivery = FALSE
INVARIANT PaidAtMostOnce
CHECK_DEADLOCK FALSE
