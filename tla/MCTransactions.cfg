SPECIFICATION Spec
CONSTANTS
  p1 = p1
  p2 = p2
  w1 = w1
  w2 = w2
  s1 = s1
  s2 = s2
  s3 = s3
  None = None
  Workers = {w1, w2}
  Instances <- MCInstances
  Rows = {p1, p2, "appointment"}
  Parts = {p1, p2}
  PartId <- MCPartId
  InitialStock <- MCInitialStock
  Sockets = {s1, s2, s3}
  UserOf <- MCUserOf
  TechnicianUser = 1
  TechnicianId = 2
  FirstStatus = "confirmed"
INVARIANTS
  TypeOK
  StockLedger
  ShortOnlyByOverlap
  OrderedListsNeverDeadlock
  PushedIsEarned
  ReceivedInOrder
  StandstillIsExplained
PROPERTY
  EveryRequestEnds
CHECK_DEADLOCK FALSE
