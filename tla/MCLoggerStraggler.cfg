\* A producer that logs while shutdown runs.
CONSTANTS
  Producers = {p1}
  Stragglers = {p1}
  Closers = {main}
  Main = main
  SIZE = 2
  BATCH = 2
  SinkRefuses = FALSE
  SinkFails = FALSE
  Levels = {2, 6}
  MaxPush = 2
  MaxInits = 1
SPECIFICATION Spec
INVARIANT
  AcceptedReachSink
\* The bounds on pushes and inits stop the system.
CHECK_DEADLOCK FALSE
