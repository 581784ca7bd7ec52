SPECIFICATION Spec
CONSTANTS
  a = a
  b = b
  c = c
  d = d
  e = e
  f = f
  word = word
  short = short
  Empty = Empty
  Unparsable = Unparsable
  Names = {}
  Lists = {}
  Starts = {}
  Ends = {}
  Numbers <- SomeNumbers
  PointLists <- TwoWayLists
  PointStarts = {a}
  PointEnds = {a, d}
INVARIANTS GoalIsAnswered
CHECK_DEADLOCK FALSE
