SPECIFICATION Spec
CONSTANTS
  Requests = {1, 2, 3, 4}
  BatchSize = 1
  NoSecret = NoSecret
  NoCode = NoCode
INVARIANT
  RecoveryCodeUsedOnce
CONSTRAINT ArriveInOrder
CHECK_DEADLOCK FALSE
