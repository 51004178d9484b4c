SPECIFICATION Spec
CONSTANTS
  f = 1
  Clients = {1, 2}
  BatchSize = 1
  MaxReq = 1
  MaxView = 1
  MaxCrashes = 0
  MaxTransfers = 1
CHECK_DEADLOCK FALSE
INVARIANT Agreement
