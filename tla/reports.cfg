SPECIFICATION ReportsSpec
CONSTANTS
  p1 = p1
  Payments = {p1}
  Readers = {"overview", "list", "training", "degradation"}
  MaxAttempts = 11
INVARIANTS
  ReportsTypeOK
  RiskIsAccounted
  TrendCoversTotals
  ListShowsDecision
  LabelsAreGenuine
  DegradedAtFirstFailure
CHECK_DEADLOCK FALSE
