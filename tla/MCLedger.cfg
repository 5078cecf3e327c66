SPECIFICATION FairSpec
CONSTANTS
  Accounts = {a}
  Entries = {x}
  Requests = {1, 2, 3, 4}
  Fields = {balance, name}
  Values = {0, 1}
  NoRow = NoRow
INVARIANTS
  IInv
  TrailIsAChain
  AccountTrailCurrent
PROPERTIES
  NoFieldOverwritten
  EveryRequestAnswered
CONSTRAINT Canonical
CHECK_DEADLOCK FALSE
