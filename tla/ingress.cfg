SPECIFICATION FairSpec
CONSTANTS
  r1 = r1
  r2 = r2
  failed = failed
  captured = captured
  refund1 = refund1
  refund2 = refund2
  id1 = id1
  id2 = id2
  None = None
  Requests = {r1, r2}
  Events = {failed, captured, refund1, refund2}
  Handled <- MCHandled
  Id <- MCId
  Subject <- MCSubject
  CreatedAt <- MCCreatedAt
  MaxTime = 1
  MaxFaults = 1
INVARIANTS
  TypeOK
  AcknowledgedIsStored
  IdentifiedOnce
  TaskFindsItsRow
PROPERTIES
  ImplementsReceipts
  OccurredIsStored
CHECK_DEADLOCK FALSE
