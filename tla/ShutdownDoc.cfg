SPECIFICATION ShutdownSpec
CONSTANTS
  PoolSize = 1
  Tls = FALSE
  Client = {k1}
  MaxErrors = 0
  MaxSignals = 1
INVARIANT RequestsComplete
CHECK_DEADLOCK FALSE
