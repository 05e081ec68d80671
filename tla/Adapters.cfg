SPECIFICATION Spec
CONSTANTS
  MaxSymlinks = 4
  Callers = {"a", "b"}
  Requests <- MCRequests
  InitialTree <- MCTree
  Paths <- MCPaths
  MaxInodes = 12
  Prewarms = {p1, p2}
  Creates = {k1, k2}
  Seeds = {s1, s2}
  MaxCalls = 3
  Segments <- MCSegments
  Disks = {"d1", "d2"}
  KeyOrder <- MCKeys
  InitialKeys <- MCInitialKeys
  InitialMounts <- MCInitialMounts
  NewMounts <- MCNewMounts
  Searches <- MCSearches
  Objects <- MCObjects
  GrepAnswers <- MCAnswers
  GlobLists <- MCGlobLists
  GlobPaths <- Files3
  PageSize = 1
  MaxGlobLines = 2
  MaxChanges = 2
SYMMETRY Interchangeable
INVARIANTS
  AdaptersTypeOK
  ReadsAreWhole
  NothingElseIsLost
  PathsAreReal
  PublishedIsWhole
  SessionKeepsWork
  AnswersAreHonest
  GlobsMeanTheSame
CHECK_DEADLOCK FALSE
