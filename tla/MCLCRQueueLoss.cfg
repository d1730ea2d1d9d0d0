\* One dequeue and two enqueues, by a thread each, over a ring that is far
\* from full: the enqueue that the dequeue overtakes closes it all the same.
CONSTANTS
  Threads = {t1, t2, t3}
  Items = {a, b}
  Null = null
  R = 8
  MaxDequeues = 1
  Runner = t1
SPECIFICATION Spec
SYMMETRY Symmetry
INVARIANTS AllConsumed
