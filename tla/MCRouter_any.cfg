CONSTANTS
  Routes <- SomeRoutes
  Urls <- SomeUrls
  MaxUrlSegments = 3
  MaxHandlers = 3
SPECIFICATION RouterSpec
INVARIANT MethodsAreKept
