SPECIFICATION RSpec
CONSTANTS
  d1 = d1
  d2 = d2
  w1 = w1
  w2 = w2
  None = None
  Details = {d1}
  Technicians = {t1}
  Workers = {w1, w2}
  Calls <- CancelHandlers
  MayFail = FALSE
  Quotes <- FreeQuote
  PartRequests = {}
  UnitPrice = 1
  InitialStock = 0
  MaxInt = 1
  MaxReschedules = 3
  OrderId = 1
  Services = {1}
  ServiceOf <- MCServiceOf
PROPERTY CancelledStays
CHECK_DEADLOCK FALSE
