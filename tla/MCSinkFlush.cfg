\* A flush after the first region is full.
CONSTANTS
  REGION = 4
  MAX_FILE = 8
  MAX_ROTATED = 1
  PAGE = 4
  Lens = {2}
  Faults = {}
  Crashes = FALSE
  NoFile = NoFile
  MaxWrites = 4
  MaxLives = 1
  MaxFlushes = 2
SPECIFICATION Spec
PROPERTY
  FlushCoversAll
\* The bounds on writes and constructions stop the system.
CHECK_DEADLOCK FALSE
