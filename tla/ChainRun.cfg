SPECIFICATION Spec
CONSTANTS
  m1 = m1
  m2 = m2
  m3 = m3
  r1 = r1
  Run <- OneRun
  Mw <- ThreeMws
  AsyncMw <- Second
  TimeoutMw <- Second
  Priority <- Priorities
  InitMws <- Chain3
  InitIo <- Always
  InitGlobal <- Either
  MaxLen = 3
  MaxConfig = 0
  MaxControl = 1
INVARIANTS
  TypeOK
  CompletionInv
  NoLostRun
  ContinueMeansAllStarted
  CompletesAtMostOnce
  RegisteredWhileUnfinished
PROPERTIES
  StartedAtMostOnce
  SyncStopsPipeline
  ImplementsRunOutcome
CHECK_DEADLOCK FALSE
