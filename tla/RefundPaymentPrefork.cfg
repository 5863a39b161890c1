SPECIFICATION FairSpec
CONSTANTS
  Refunds = {r1, r2}
  NoRefund = NoRefund
  Workers = {w1, w2, w3}
  MaxRetries = 2
  MaxFaults = 3
  HardTimeLimit = TRUE
  Redelivery = FALSE
INVARIANT SinglePayer
INVARIANT RepaymentNeedsFault
PROPERTY StalledIsRecovered
CHECK_DEADLOCK FALSE
