\* One process writes records of two lengths until files have been dropped;
\* every call on the files may fail, and the process may die.
CONSTANTS
  REGION = 2
  MAX_FILE = 4
  MAX_ROTATED = 3
  PAGE = 2
  Lens = {1, 2}
  Faults = {"open", "fstat", "ftruncate", "mmap", "unlink", "rename"}
  Crashes = TRUE
  NoFile = NoFile
  MaxWrites = 9
  MaxLives = 1
  MaxFlushes = 1
SPECIFICATION Spec
INVARIANTS
  MappingInFile
  CopyIsSafe
  SinkInv
  FileSizeBounded
PROPERTY
  KeepsOldFiles
\* The bounds on writes and constructions stop the system.
CHECK_DEADLOCK FALSE
