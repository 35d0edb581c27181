SPECIFICATION FairSpec
CONSTANTS
  m1 = m1
  m2 = m2
  m3 = m3
  r1 = r1
  Run <- OneRun
  Mw <- TwoMws
  AsyncMw <- Second
  TimeoutMw <- None
  Priority <- Priorities2
  InitMws <- Last1
  InitIo <- Always
  InitGlobal <- Always
  MaxLen = 2
  MaxConfig = 3
  MaxControl = 0
PROPERTIES
  EveryRunCompletes
  StartsByPriority
CHECK_DEADLOCK FALSE
