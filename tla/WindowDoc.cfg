SPECIFICATION Spec
CONSTANTS
  Path <- Paths
  Pattern <- Patterns
  Param <- Params
  Malformed <- Rejected
  Rank <- Ranks
  Verb = {"GET", "POST"}
  MaxRoutes = 0
  Chains <- ApiChain
  GlobalRouted = {}
  Modes = {"sync"}
  Request <- Requests1
  Conditional = {"body", "logger"}
  Schemes <- SchemeList
  Validators <- AllSchemes
  BadRequestOnError = TRUE
  Supported <- TwoCodings
  HasBrotli = TRUE
  FailingCodings = {}
  RateMax = 2
  RateWindow = 2
  HandlerBody = {"small", "big"}
  MaxTime = 3
  MaxCalls <- Calls7
INVARIANTS
  WindowSlides
CHECK_DEADLOCK FALSE
