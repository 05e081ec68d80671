SPECIFICATION FairSpec
CONSTANTS
  sel = sel
  ins = ins
  Ops <- SqlOps
  Writes <- SqlWrites
  Batches <- TwoBatches
  SqlCalls = {"c1", "c2", "c3"}
  NoCall = "none"
  Requesters = {"r1", "r2"}
  MaxRetries = 1
  MaxThrottleWait = 3
  MaxDelay = 2
  NoOne = "none"
  Transports = {"t1", "t2", "t3"}
  PoolKeys = {"k1", "k2"}
  Clients = {"x1", "x2", "x3"}
  NoClient = "none"
  BuildTimeout = 5
  RequestAgain = 2
  MaxInterruptedRetries = 2
  Addresses = {"a", "b"}
  Terminals = {"m1", "m2"}
  ProfileNames <- Names3
  Earlier = "m0"
  NoProfile = "none"
INVARIANTS
  CallsTypeOK
  OperationRunsOnce
  TransactionsAreWhole
  RepeatsAreHarmless
  OpenForItsHolders
  GoneBuildsAreRestarted
  LeavesNothingBehind
  ProfilesAreUsable
PROPERTY EveryCallEnds
CHECK_DEADLOCK FALSE
