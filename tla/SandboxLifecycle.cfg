SPECIFICATION FairSpec
CONSTANTS
  one = one
  two = two
  Callers <- TwoCallers
  Handles = {one}
  HandleOf <- SharedHandle
  Patient = {one}
  Unreliable = {one}
  Ops = {"start", "remount", "stop", "pause", "resume", "fork", "refresh"}
  MaxRetries = 1
  MaxSessions = 3
INVARIANTS
  TypeOK
  RetriesAreHarmless
  ForkRestoresItsSource
  WaitsUntilItIsOver
PROPERTY EveryCallSettles
CHECK_DEADLOCK FALSE
