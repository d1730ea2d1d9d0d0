\* Two items and three dequeues through rings of two cells: a ring fills, is
\* closed and left; the scheduler is fair to t1 only.
CONSTANTS
  Threads = {t1, t2}
  Items = {a, b}
  Null = null
  R = 2
  MaxDequeues = 3
  Runner = t1
SPECIFICATION MCSpec
INVARIANTS TypeOK NoneStranded AtMostOnce
PROPERTIES TailForward OrderKept RunnerFinishes
