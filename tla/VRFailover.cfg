SPECIFICATION Spec
CONSTANTS
  f = 1
  Clients = {1}
  BatchSize = 1
  MaxReq = 2
  MaxView = 1
  MaxCrashes = 0
  MaxTransfers = 0
CHECK_DEADLOCK FALSE
CONSTRAINT Quiet
INVARIANTS ExecutedOnce Durable
PROPERTY ImplementsLog
