SPECIFICATION Spec
CONSTANTS
  w1 = w1
  w2 = w2
  Payments = {p1}
  Customers = {c1}
  Workers = {w1, w2}
  Merchant = m
  None = None
  CustomerOf <- MCCustomerOf
  Paying <- MCPayingReported
  Amount <- MCAmount
  Category <- MCCategory
  Events <- MCEventsLate
  ModelOutputs <- MCNoModel
  SmtpAvailable = TRUE
  MaxRetries = 0
  Faults = {}
  MaxFaults = 0
SYMMETRY Permuted
PROPERTIES
  RecoveredOnlyCloses
CHECK_DEADLOCK FALSE
