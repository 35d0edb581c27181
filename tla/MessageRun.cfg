SPECIFICATION MCSpec
CONSTANTS
  Path <- Paths
  Pattern <- Patterns
  Param <- Params
  Malformed <- Rejected
  Rank <- Ranks
  Verb = {"GET", "POST"}
  MaxRoutes = 3
  Chains <- AllChains
  GlobalRouted <- FilesOnly
  Modes = {"sync", "async"}
  Request <- Requests1
  Conditional = {"body", "logger"}
  Schemes <- SchemeList
  Validators <- AllSchemes
  BadRequestOnError = TRUE
  Supported <- TwoCodings
  HasBrotli = FALSE
  FailingCodings = {}
  RateMax = 2
  RateWindow = 2
  HandlerBody = {"small", "big"}
  MaxTime = 3
  MaxCalls <- Calls3
  FieldName = {"f", "g"}
  FileName = {"g"}
  Content <- MCContents
  MaxParts = 2
  Slack = 5
  Margin = 2
  MaxField = 4
  MaxFile = 3
  MaxResets = 1
  MaxFieldSize = 4
  MaxTotalSize = 5
  SupportArrays = TRUE
  ValBits = 30
  Alphabet <- Alphabets
  MaxText = 5
  Updater = {"t"}
  Size = {0, 1, 2, 3}
  Bounds <- TwoBounds
  Strategy = {"RoundRobin", "LeastConnections", "WeightedRoundRobin"}
  Nodes <- NodesOf3
  Hash = {20, 34, 60}
  MaxCreated = 4
  MaxPicks = 2
INVARIANTS
  ResolvesBest
  AllowIsHonest
  RefusalIsFinal
  EncodingIsTrue
  SecurityKept
  RateBound
  FindsEveryField
  ParsersAreRight
  InBounds
PROPERTIES
  GrowthKeepsSessions
CHECK_DEADLOCK FALSE
