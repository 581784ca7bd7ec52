SPECIFICATION Spec
CONSTANTS
  a = a
  b = b
  c = c
  d = d
  e = e
  f = f
  word = word
  short = short
  Empty = Empty
  Unparsable = Unparsable
  Names <- NamesAndEmpty
  Lists <- ListsWithEmpty
  Starts = {a}
  Ends = {b}
  Numbers <- SomeNumbers
  PointLists = {}
  PointStarts = {}
  PointEnds = {}
INVARIANTS RouteIsWhole
CHECK_DEADLOCK FALSE
