\* Two producers, two consumers that register first, one of which may leave, and
\* a helper thread that refreshes min_tail, as the benches have.
CONSTANTS
  Producers = {p1, p2}
  Consumers = {c1, c2}
  Refreshers = {r1}
  LateJoiners = {}
  Leavers = {c2}
  SIZE = 2
  MAX_CONSUMERS = 2
  INVALID_POS = INVALID_POS
  NoItem = NoItem
  MaxPush = 2
SPECIFICATION Spec
SYMMETRY Symmetry
INVARIANTS
  NoDataRace
  DeliveredInOrder
  RingHoldsUnread
  FullIsGenuine
  IInv
PROPERTIES
  ImplementsBroadcast
\* MaxPush bounds the workload: when it is used up the system stops.
CHECK_DEADLOCK FALSE
