SPECIFICATION HSpec
CONSTANTS
  d1 = d1
  d2 = d2
  None = None
  Details = {d1, d2}
  Technicians = {t1}
  Workers = {w1}
  Calls <- Handlers
  MayFail = FALSE
  Quotes <- OneQuote
  PartRequests <- MCPartRequests
  UnitPrice = 1
  InitialStock = 2
  MaxInt = 3
  MaxReschedules = 3
  OrderId = 1
  Services = {1}
  ServiceOf <- MCServiceOf
PROPERTY ImplementsWorkflow
CHECK_DEADLOCK FALSE
