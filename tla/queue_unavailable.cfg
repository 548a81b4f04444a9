SPECIFICATION FairSpec
CONSTANTS
  w1 = w1
  w2 = w2
  Payments = {p1}
  Customers = {c1}
  Workers = {w1}
  Merchant = m
  None = None
  CustomerOf <- MCCustomerOf
  Paying <- MCPayingReported
  Amount <- MCAmount
  Category <- MCCategory
  Events <- MCEventsFailed
  ModelOutputs <- MCNoModel
  SmtpAvailable = TRUE
  MaxRetries = 0
  Faults = {"broker"}
  MaxFaults = 1
PROPERTIES
  ReceivedIsProcessed
CHECK_DEADLOCK FALSE
