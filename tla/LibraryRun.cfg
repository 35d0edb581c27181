SPECIFICATION MCSpec
CONSTANTS
  Leaf = {1, 2}
  Section = {"parsers", "core"}
  File <- Files
  Unreadable <- NotThere
  Null = "null"
  Accepts <- Accepted
  HasType <- Typed
  MaxFileEdits = 2
  MaxLoads = 1
  b1 = b1
  b2 = b2
  Builder = {b1, b2}
  MaxEdits = 1
  c1 = c1
  c2 = c2
  Conn = {c1, c2}
  Key = {"k1", "k2"}
  MaxSize = 1
  SizeT = 8
  Thread <- Threads
  Controller <- Threads
  BucketCount = 2
  NewCounts <- Counts
  MaxId = 2
INVARIANTS
  SnapshotIsWhole
  SubscribersAgree
  SendsWhatWasStarted
  OneOutcome
  OneOwner
  StopLeavesNothing
  CancelFindsTask
  HeldByItsWaiter
PROPERTIES
  ChangeIsLoaded
  EveryRequestEnds
CHECK_DEADLOCK FALSE
