SPECIFICATION FairSpec
CONSTANTS
  first = first
  second = second
  Handles <- TwoHandles
  Runner = first
  Collecting = {}
  Sharing = {second}
  Waiters = {first, second}
  Unreliable = {first}
  Log <- MCShortLog
  MaxRetries = 1
  MaxInFlight = 1
INVARIANTS
  StartedAtMostOnce
  ExitBeatsConnectionError
PROPERTY EveryPromiseSettles
CHECK_DEADLOCK FALSE
