\* Two segments in a row, three managers: who dies may be replaced once.  Two
\* slots, lapped twice: entries are published out of the order they were claimed in.
CONSTANTS
  Pushers = {creator, pusher}
  Poppers = {popper, joiner}
  Creators = {creator}
  Refreshers = {creator}
  creator = creator
  pusher = pusher
  popper = popper
  joiner = joiner
  SIZE = 2
  MAX_CONSUMERS = 2
  NONE = NONE
  Crashes = {popper, joiner, creator}
  Fails = TRUE
  MaxSegments = 2
  MaxLives = 3
  MaxHead = 5
SPECIFICATION Spec
SYMMETRY Symmetry
CONSTRAINT NoMisuse
INVARIANTS
  ShmTypeOK
  NoSlotRace
  DeliveredFromStart
  CursorIsOwn
  CacheBehindReader
  SegmentReachable
\* The bounds on managers and positions stop the system.
CHECK_DEADLOCK FALSE
