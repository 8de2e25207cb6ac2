SPECIFICATION FairRSpec
CONSTANTS
  d1 = d1
  d2 = d2
  w1 = w1
  w2 = w2
  None = None
  Details = {d1}
  Technicians = {t1}
  Workers = {w1, w2}
  Calls <- LockingHandlers
  MayFail = FALSE
  Quotes <- FreeQuote
  PartRequests = {}
  UnitPrice = 1
  InitialStock = 0
  MaxInt = 1
  MaxReschedules = 1
  OrderId = 1
  Services = {1}
  ServiceOf <- MCServiceOf
PROPERTY EveryRequestEnds
CHECK_DEADLOCK FALSE
