SPECIFICATION FairSpec
CONSTANTS
  a = a
  b = b
  c1 = c1
  c2 = c2
  c3 = c3
  Empty = Empty
  Nodes = {a, b}
  Clients = {c1, c2, c3}
  Requests <- SomeRequests
  MaxMessages = 3
INVARIANTS ErrorsAreSurvived
CHECK_DEADLOCK FALSE
