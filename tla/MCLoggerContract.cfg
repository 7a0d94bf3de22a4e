\* Producers that stop before shutdown, two threads calling shutdown, two
\* inits, a sink that may fail to open and may refuse a record.
CONSTANTS
  Producers = {p1, p2}
  Stragglers = {}
  Closers = {main, other}
  Main = main
  SIZE = 2
  BATCH = 2
  SinkRefuses = TRUE
  SinkFails = TRUE
  Levels = {2, 6}
  MaxPush = 2
  MaxInits = 2
SPECIFICATION FairSpec
INVARIANTS
  LoggerTypeOK
  NoUseAfterReset
  OneOwner
  AcceptedReachSink
  ProgramOrder
PROPERTIES
  AcceptedGetDrained
  ShutdownReturns
\* The bounds on pushes and inits stop the system.
CHECK_DEADLOCK FALSE
