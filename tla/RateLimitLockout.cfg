SPECIFICATION FairSpec
CONSTANTS
  Limit = 1
  Window = 2
  MaxPending = 1
  MaxFaults = 1
PROPERTY
  NeverLockedOut
