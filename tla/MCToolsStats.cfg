\* A file whose last region is not full.
CONSTANTS
  REGION = 4
  MAX_FILE = 8
  MAX_ROTATED = 1
  PAGE = 4
  Lens = {2}
  Faults = {}
  Crashes = FALSE
  NoFile = NoFile
  MaxWrites = 3
  MaxLives = 1
  MaxFlushes = 0
  Logged <- MCLogged
  ArgLists <- MCArgLists
  UINT64_MAX = UINT64_MAX
  Uninit = Uninit
SPECIFICATION ToolsSpec
INVARIANT
  StatsCountRecords
\* The bounds on writes and constructions stop the system.
CHECK_DEADLOCK FALSE
