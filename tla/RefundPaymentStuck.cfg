SPECIFICATION FairSpec
CONSTANTS
  Refunds = {r1}
  NoRefund = NoRefund
  Workers = {w1}
  MaxRetries = 1
  MaxFaults = 2
  HardTimeLimit = TRUE
  Redelivery = FALSE
PROPERTY OrphanIsRequeued
CHECK_DEADLOCK FALSE
