SPECIFICATION LiveSpec
CONSTANTS
  MaxSess = 2
  Size = 4
  Chunk = 2
  QCap = 3
  MaxVer = 2
  MaxHops = 1
  Left = {0, 3}
  MaxEnds = 1
INVARIANTS
  SidecarIsSafe
  FailsForAReason
PROPERTIES
  WholeFile
  DownloadsEnd
CHECK_DEADLOCK FALSE
