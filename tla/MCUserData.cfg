SPECIFICATION FairSpec
CONSTANTS
  u1 = u1
  u2 = u2
  u3 = u3
  u4 = u4
  e1 = e1
  e2 = e2
  x = x
  y = y
  a = a
  b = b
  k1 = k1
  k2 = k2
  k3 = k3
  k4 = k4
  UserIds = {u1, u2, u3, u4}
  Registered = {u1, u2}
  Emails = {e1, e2}
  EmailOf <- MCEmailOf
  Requests = {1, 2, 3}
  Lines = {x, y}
  Bad = Bad
  Broken = Broken
  Files <- MCFiles
  MaxDeleted = 1
  Chats = {a, b}
  NoChat = NoChat
  Codes = {k1, k2, k3, k4}
  NoCode = NoCode
  FirstLinks <- MCFirstLinks
  Updates = {1}
  Sender <- MCSender
INVARIANTS
  IInv
  NothingLeftBehind
  UploadedIsThere
  ReceiptsAddUp
  CodeLinksOnce
  BookedOnce
  ExportIsConsistent
PROPERTIES
  ToldLinkedIsLinked
  EveryRequestAnswered
CONSTRAINT Canonical
CHECK_DEADLOCK FALSE
