SPECIFICATION FairSpec
CONSTANTS
  one = one
  two = two
  Writers <- TwoWriters
  Sizes <- LargeAndSmall
  Requested = 2
  Threshold = 2
  MinPart = 2
  MaxParts = 3
  Unit = 2
  Concurrency = 2
  MaxRetries = 1
INVARIANTS
  TypeOK
  CompletionsSucceed
  BodiesAreExact
  KnownUploadIsGone
PROPERTY EveryWriteSettles
CHECK_DEADLOCK FALSE
