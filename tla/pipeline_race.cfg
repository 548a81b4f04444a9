SPECIFICATION Spec
CONSTANTS
  w1 = w1
  w2 = w2
  Payments = {p1}
  Customers = {c1}
  Workers = {w1, w2}
  Merchant = m
  None = None
  CustomerOf <- MCCustomerOf
  Paying <- MCPayingReported
  Amount <- MCAmount
  Category <- MCCategory
  Events <- MCEventsRace
  ModelOutputs <- MCModel
  SmtpAvailable = TRUE
  MaxRetries = 2
  Faults = {"killed", "lost", "redelivered", "provider", "action", "database", "broker"}
  MaxFaults = 2
SYMMETRY Permuted
INVARIANTS
  TypeOK
  AtMostOneRecoveryAction
  ActionWasAuthorized
  RecoveryIsEvidenced
  OneOutcomePerCase
  LedgerIsBacked
  AuditExplainsState
  UnrecordedEffectShows
  RecoveredHasNothingPending
PROPERTIES
  PaidStaysPaid
  CasesFollowTable
  PaidPaymentIsNotChased
  AuditBeforeHolds
  OnlyInterruptionStrands
  ImplementsContract
CHECK_DEADLOCK FALSE
