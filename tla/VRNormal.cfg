SPECIFICATION Spec
CONSTANTS
  f = 1
  Clients = {1}
  BatchSize = 2
  MaxReq = 2
  MaxView = 0
  MaxCrashes = 1
  MaxTransfers = 1
CHECK_DEADLOCK FALSE
INVARIANT WellFormed
PROPERTY ImplementsLog
