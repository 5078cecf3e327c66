SPECIFICATION Spec
CONSTANTS
  Tokens = {1, 2, 3}
  Requests = {1, 2, 3, 4}
  NoToken = NoToken
PROPERTY
  AllSessionsRevoked
CONSTRAINT Canonical
CHECK_DEADLOCK FALSE
