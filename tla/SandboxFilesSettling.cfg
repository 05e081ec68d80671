SPECIFICATION FairSpec
CONSTANTS
  long = long
  short = short
  down = down
  Uploads = {long}
  Downloads = {down}
  Size <- MCOneSize
  OldSize = 3
  ChunkSize = 2
  Unreliable = {long, down}
  Faulty = {long, down}
PROPERTY EveryTransferSettles
CHECK_DEADLOCK FALSE
