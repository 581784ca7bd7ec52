CONSTANTS
  Unused = unused
  n1 = n1
  n2 = n2
  n3 = n3
  Nodes = {n1, n2, n3}
  Weights <- SomeWeights
  MaxEdges = 4
  Uploads <- SomeUploads
  Conn = c1
  NoSocket = NoSocket
  CORK_BUFFER_SIZE = 24
  EraseShift = 1
  MAX_FALLBACK_SIZE = 16
  UWS_HTTP_MAX_HEADERS_COUNT = 6
  HttpKernels <- SomeHttpKernels
  Traffics <- SomeTraffics
  MaxWrites = 2
  SHORT_MESSAGE_HEADER = 2
  MEDIUM_MESSAGE_HEADER = 3
  LONG_MESSAGE_HEADER = 4
  ShortLength = 2
  MediumLength = 4
  ControlLength = 2
  maxPayloadLength = 6
  Conversations <- AllConversations
  Offers <- SomeOffers
  Configurations <- SomeConfigurations
  Routes <- SomeRoutes
  Urls <- SomeUrls
  MaxUrlSegments = 3
  MaxHandlers = 3
  Loops = {main, child}
  Threads = {main, child, worker}
  Callbacks <- SomeCallbacks
  Nobody = nobody
  Main = main
  MaxSockets = 2
  MaxChanges = 2
  MaxDeferred = 1
SPECIFICATION Spec
INVARIANTS RequestsAreParsedWhole ResponsesAreFramed RequestsAreSettled
INVARIANTS MessagesAreWhole RoutesAsRegistered StreamsFit CallbacksInOrder
INVARIANTS GraphTypeOK BuiltIsClosed BuiltIsSymmetric
CHECK_DEADLOCK FALSE
