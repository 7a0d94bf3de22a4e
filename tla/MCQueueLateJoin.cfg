\* A consumer registers while pushes are under way.
CONSTANTS
  Producers = {p1, p2}
  Consumers = {c1, c2}
  Refreshers = {}
  LateJoiners = {c2}
  Leavers = {}
  SIZE = 2
  MAX_CONSUMERS = 2
  INVALID_POS = INVALID_POS
  NoItem = NoItem
  MaxPush = 2
SPECIFICATION Spec
SYMMETRY Symmetry
INVARIANTS
  NoDataRace
\* MaxPush bounds the workload: when it is used up the system stops.
CHECK_DEADLOCK FALSE
