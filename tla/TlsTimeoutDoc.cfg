SPECIFICATION ConnSpec
CONSTANTS
  TlsModes = {TRUE}
  KeepAlive = TRUE
  MaxRequests = 2
  Request <- AllRequests
  ResponseConn = {"none", "close", "keep"}
  Result = {"Continue", "Error"}
  MaxReads = 1
  Data = {d1}
  MaxMessages = 0
INVARIANT AbortedReadAnswered
CHECK_DEADLOCK FALSE
