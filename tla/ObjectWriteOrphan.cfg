SPECIFICATION Spec
CONSTANTS
  one = one
  two = two
  Writers = {one}
  Sizes <- OneLarge
  Requested = 2
  Threshold = 2
  MinPart = 2
  MaxParts = 3
  Unit = 2
  Concurrency = 2
  MaxRetries = 1
INVARIANT OneUploadPerCall
CHECK_DEADLOCK FALSE
