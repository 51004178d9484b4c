SPECIFICATION Spec
CONSTANTS
  Txns = {1, 2, 3, 4}
  Keys = {"a"}
  StartTs <- StartTsById
  Coordinated = {1, 3}
INVARIANTS
  TypeOK
  Exclusion
  NoLostWakeup
  PreparedHoldsAll
  PreparedExclusive
  LockTableSound
  WoundWaitRule
CHECK_DEADLOCK FALSE
