SPECIFICATION Spec
CONSTANTS
  a = a
  b = b
  Txns = {1, 2, 3, 4, 5}
  Keys = {a, b}
  StartTs <- StartTsById
  Scripts <- MCScripts
INVARIANTS WellFormed RunningHoldsAll OlderWaits NobodyStuck
CHECK_DEADLOCK FALSE
