SPECIFICATION Spec
CONSTANTS
  one = one
  two = two
  Callers = {one}
  Handles = {one}
  HandleOf <- OwnHandle
  Patient = {one}
  Unreliable = {one}
  Ops = {"fork"}
  MaxRetries = 1
  MaxSessions = 2
INVARIANT ForkResumesWhatItPaused
CHECK_DEADLOCK FALSE
