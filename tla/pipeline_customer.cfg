SPECIFICATION FairSpec
CONSTANTS
  w1 = w1
  w2 = w2
  Payments = {p1, p2, p3}
  Customers = {c1}
  Workers = {w1, w2}
  Merchant = m
  None = None
  CustomerOf <- MCCustomerOf
  Paying <- MCPayingReported
  Amount <- MCAmountLimit
  Category <- MCCategory
  Events <- MCEventsPaid
  ModelOutputs <- MCNoModel
  SmtpAvailable = TRUE
  MaxRetries = 2
  Faults = {"killed", "redelivered", "database"}
  MaxFaults = 1
INVARIANTS
  ProcessedFailureHasCase
  ReviewHolds
PROPERTIES
  ReceivedIsProcessed
CHECK_DEADLOCK FALSE
