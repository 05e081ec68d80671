SPECIFICATION ApiSpec
CONSTANTS
  Requesters = {"r1"}
  MaxRetries = 1
  MaxThrottleWait = 3
  MaxDelay = 2
  NoOne = "none"
  Addresses = {"a"}
INVARIANT SandboxDeletesAreHonest
CHECK_DEADLOCK FALSE
