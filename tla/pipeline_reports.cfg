SPECIFICATION SystemSpec
CONSTANTS
  w1 = w1
  w2 = w2
  Payments = {p1}
  Customers = {c1}
  Workers = {w1, w2}
  Merchant = m
  None = None
  CustomerOf <- MCCustomerOf
  Paying <- MCPaying
  Amount <- MCAmount
  Category <- MCCategory
  Events <- MCEvents
  ModelOutputs <- MCModel
  SmtpAvailable = TRUE
  MaxRetries = 1
  Faults = {"action", "redelivered", "provider"}
  MaxFaults = 1
  Readers = {"overview", "list", "training"}
  MaxAttempts = 0
SYMMETRY Permuted
INVARIANTS
  AnswersFitTogether
CHECK_DEADLOCK FALSE
