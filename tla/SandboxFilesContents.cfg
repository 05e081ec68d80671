SPECIFICATION Spec
CONSTANTS
  long = long
  short = short
  down = down
  Uploads <- MCUploads
  Downloads = {down}
  Size <- MCSize
  OldSize = 3
  ChunkSize = 2
  Unreliable = {long, down}
  Faulty = {long, down}
INVARIANTS
  TypeOK
  UploadIsPublished
  FilesAreExact
  SettledIsOver
CHECK_DEADLOCK FALSE
