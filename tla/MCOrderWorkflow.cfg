SPECIFICATION Spec
CONSTANTS
  d1 = d1
  d2 = d2
  None = None
  Details = {d1, d2}
  Technicians = {t1, t2}
  Quotes <- MCQuotes
  PartRequests <- MCPartRequests
  UnitPrice = 1
  InitialStock = 2
  MaxInt = 5
  MaxReschedules = 3
  OrderId = 1
  Services = {1, 2}
  ServiceOf <- MCServiceOf
INVARIANTS
  TypeOK
  StatusesAgree
  RepairTrail
  MirrorIsCurrent
  CompletedIsBalanced
PROPERTIES
  CancelledIsFinal
  GapNeverShrinks
CHECK_DEADLOCK FALSE
