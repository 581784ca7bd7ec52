SPECIFICATION MCSpec
CONSTANTS
  s1 = s1
  s2 = s2
  t1 = t1
  t2 = t2
  NoSocket = NoSocket
  Sockets = {s1, s2}
  Topics = {t1, t2}
  CORK_BUFFER_SIZE = 4
  EraseShift = 1
  BatchLimit = 2
  PaletteLimit = 2
  maxBackpressure = 3
  closeOnBackpressureLimit = FALSE
  sendPingsAutomatically = TRUE
  Kernels <- SomeKernels
  Lengths <- FirstMayBeBig
  MaxMessages = 3
  MaxOthers = 1
  Talkers = {s1}
  Subscriptions <- AllOrNone
INVARIANTS TypeOK FramesAreWhole NothingIsLost TreeIsConsistent CorkIsGivenBack EndIsClean LoopDeliversAll
CHECK_DEADLOCK FALSE
