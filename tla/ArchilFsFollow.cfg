SPECIFICATION FsSpec
CONSTANTS
  MaxSymlinks = 4
  Callers = {"a", "b"}
  Requests <- MCRequests
  InitialTree <- MCTree
  Paths <- MCPathsThroughLinks
  MaxInodes = 12
INVARIANTS
  FollowsLikeStat
CHECK_DEADLOCK FALSE
