SPECIFICATION FairSpec
CONSTANTS
  Accounts = {a, b}
  Listings = {listed, unlisted}
  NullListings = {unlisted}
  Requests = {1, 2, 3}
  None = None
INVARIANTS
  IInv
  HeldOnceUnlessTwinned
  SecuritiesComeWithHoldings
  AuditAccountsForHoldings
PROPERTY
  EveryCreationAnswered
CONSTRAINT ArriveInOrder
CHECK_DEADLOCK FALSE
