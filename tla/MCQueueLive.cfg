\* Two consumers for one id, four pushes over two laps of the ring, fair
\* scheduling.
CONSTANTS
  Producers = {p1, p2}
  Consumers = {c1, c2}
  Refreshers = {}
  LateJoiners = {}
  Leavers = {}
  SIZE = 2
  MAX_CONSUMERS = 1
  INVALID_POS = INVALID_POS
  NoItem = NoItem
  MaxPush = 2
SPECIFICATION FairSpec
INVARIANTS
  TypeOK
  CacheIsLowerBound
PROPERTIES
  RejectedOnlyWhenFull
  PushReturns
  EveryClaimRead
\* MaxPush bounds the workload: when it is used up the system stops.
CHECK_DEADLOCK FALSE
