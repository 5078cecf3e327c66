SPECIFICATION Spec
CONSTANTS
  Requests = {1, 2, 3, 4, 5}
  BatchSize = 2
  NoSecret = NoSecret
  NoCode = NoCode
CONSTRAINT ArriveInOrder
CHECK_DEADLOCK FALSE
INVARIANTS
  IInv
  EnabledSecretProven
  CodesAreTheShownOnes
  ReusedOnlyByOverlap
PROPERTY
  ConfirmEnables
