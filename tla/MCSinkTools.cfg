\* Binary records, processes that die at any point and start again, and the
\* tools run on the files between them; renames and unlinks may fail.
CONSTANTS
  REGION = 4
  MAX_FILE = 4
  MAX_ROTATED = 2
  PAGE = 4
  Lens = {2}
  Faults = {"unlink", "rename"}
  Crashes = TRUE
  NoFile = NoFile
  MaxWrites = 7
  MaxLives = 3
  MaxFlushes = 0
  Logged <- MCLogged
  ArgLists <- MCArgLists
  UINT64_MAX = UINT64_MAX
  Uninit = Uninit
SPECIFICATION FairToolsSpec
INVARIANTS
  OrderKept
  OldestLostFirst
  NoWriteRefused
  ReaderExact
  ReaderFindsAll
  DateIsOwn
  StatsExact
PROPERTIES
  WriteReturns
  ImplementsRecordLog
\* The bounds on writes and constructions stop the system.
CHECK_DEADLOCK FALSE
