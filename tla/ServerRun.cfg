SPECIFICATION MCSpec
CONSTANTS
  TlsModes = {FALSE, TRUE}
  KeepAlive = TRUE
  MaxRequests = 2
  Request <- AllRequests
  ResponseConn = {"none", "close", "keep"}
  Result = {"Continue", "Error"}
  MaxReads = 3
  Data = {d1, d2}
  MaxMessages = 2
  PoolSize = 2
  Tls = FALSE
  Client = {k1}
  MaxErrors = 1
  MaxSignals = 2
INVARIANTS
  AlwaysWatched
  TimeoutsSpareTheResponse
  PlainAbortedReadAnswered
  WritesTheAnswer
  EchoesExactly
  BlocksUntilStopped
PROPERTIES
  ConnectionEnds
  LoopEnds
  SignalEndsRun
CHECK_DEADLOCK FALSE
