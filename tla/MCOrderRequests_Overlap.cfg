SPECIFICATION RSpec
CONSTANTS
  d1 = d1
  d2 = d2
  w1 = w1
  w2 = w2
  None = None
  Details = {d1}
  Technicians = {t1}
  Workers = {w1, w2}
  Calls <- AllHandlers
  MayFail = TRUE
  Quotes <- OneQuote
  PartRequests <- OnePart
  UnitPrice = 1
  InitialStock = 1
  MaxInt = 2
  MaxReschedules = 1
  OrderId = 2
  Services = {1}
  ServiceOf <- MCServiceOf
SYMMETRY AlikeWorkers
VIEW Observed
INVARIANTS
  RepairTrail
  PartsLedger
CHECK_DEADLOCK FALSE
