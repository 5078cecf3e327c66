SPECIFICATION ClientSpec
CONSTANTS
  Tokens = {1, 2, 3}
  Requests = {1, 2, 3}
  Tabs = {1, 2}
  NoToken = NoToken
  MaxBroken = 0
INVARIANT
  LogoutSticks
CONSTRAINT Canonical
CHECK_DEADLOCK FALSE
