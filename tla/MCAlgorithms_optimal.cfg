SPECIFICATION Spec
CONSTANTS
  a = a
  b = b
  c = c
  d = d
  e = e
  f = f
  word = word
  short = short
  Empty = Empty
  Unparsable = Unparsable
  Names = {}
  Lists = {}
  Starts = {}
  Ends = {}
  Numbers <- SomeNumbers
  PointLists <- TwoWayLists
  PointStarts = {a}
  PointEnds = {d}
INVARIANTS OptimalPath
CHECK_DEADLOCK FALSE
