SPECIFICATION FairSpec
CONSTANTS
  Tokens = {1, 2, 3, 4}
  Requests = {1, 2, 3, 4, 5}
  NoToken = NoToken
INVARIANTS
  IInv
  ForkOnlyByOverlap
  RevocationTotalUnlessOverlapped
PROPERTIES
  ImplementsSessions
  DeadFamilyStaysDead
  ReuseLeadsToRevocation
CONSTRAINT Canonical
CHECK_DEADLOCK FALSE
