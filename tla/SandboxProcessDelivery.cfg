SPECIFICATION Spec
CONSTANTS
  first = first
  second = second
  Handles <- TwoHandles
  Runner = first
  Collecting = {second}
  Sharing = {}
  Waiters = {}
  Unreliable = {first}
  Log <- MCLog
  MaxRetries = 0
  MaxInFlight = 1
INVARIANTS
  TypeOK
  DeliveredInOrder
  NothingIsLost
  ResumeRepeatsNothing
PROPERTY
  ImplementsFeed
CHECK_DEADLOCK FALSE
