SPECIFICATION FairSpec
CONSTANTS
  Limit = 2
  Window = 3
  MaxPending = 2
  MaxFaults = 2
INVARIANTS
  IInv
  AtMostTwiceLimit
PROPERTY
  WindowReopens
