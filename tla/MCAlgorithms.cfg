SPECIFICATION FairSpec
CONSTANTS
  a = a
  b = b
  c = c
  d = d
  e = e
  f = f
  word = word
  short = short
  Empty = Empty
  Unparsable = Unparsable
  Names <- FiveNames
  Lists <- SomeLists
  Starts = {a, Empty}
  Ends = {a, b, d, Empty}
  Numbers <- SomeNumbers
  PointLists <- AllLists
  PointStarts = {a, short, Empty}
  PointEnds = {a, b, d, word}
INVARIANTS TypeOK RouteIsShortest QueueIsFrontier TakenIsSettled StackIsFrontier SafeOnPoints LookupAgrees
PROPERTIES HeapKeysStable Termination ImplementsSearch
CHECK_DEADLOCK FALSE
