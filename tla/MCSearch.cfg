SPECIFICATION Spec
CONSTANTS
  a = a
  b = b
  c = c
  d = d
  e = e
  f = f
  word = word
  short = short
  Empty = Empty
  Nodes <- SmallNames
  Calls <- SmallCalls
INVARIANTS TypeOK Verdict VisitsAreReachable StreamIsTranscript
PROPERTIES Grows
CHECK_DEADLOCK FALSE
