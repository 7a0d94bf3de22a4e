\* Three producers, two consumers, more entries than slots even from one producer.
CONSTANTS
  Producers = {p1, p2, p3}
  Consumers = {c1, c2}
  Main = p1
  First = c1
  SIZE = 2
  OPS = 3
  ITERS = 2
  ROUNDS = 5
SPECIFICATION Spec
INVARIANT
  AllAccountedFor
PROPERTY
  Finishes
\* A driver stops when it is done.
CHECK_DEADLOCK FALSE
