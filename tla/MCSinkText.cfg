\* Text records, whose lengths do not divide a region.
CONSTANTS
  REGION = 4
  MAX_FILE = 8
  MAX_ROTATED = 2
  PAGE = 4
  Lens = {1, 2, 3}
  Faults = {}
  Crashes = FALSE
  NoFile = NoFile
  MaxWrites = 4
  MaxLives = 1
  MaxFlushes = 0
SPECIFICATION Spec
INVARIANT
  NoWriteRefused
\* The bounds on writes and constructions stop the system.
CHECK_DEADLOCK FALSE
