SPECIFICATION ClientSpec
CONSTANTS
  Tokens = {1, 2, 3, 4}
  Requests = {1, 2, 3, 4}
  Tabs = {1, 2}
  NoToken = NoToken
  MaxBroken = 1
INVARIANTS
  NoSpuriousLogout
  BrowserAndServerAgree
CONSTRAINT Canonical
CHECK_DEADLOCK FALSE
