\* Two items.  Ring size, dequeues and threads: see Instances.
CONSTANTS
  Threads = {t1, t2, t3}
  Items = {a, b}
  Null = null
  Sizes = {1, 2}
  MaxDequeues = 3
  Runner = t1
  Third = t3
SPECIFICATION MCSpec
INVARIANTS TypeOK NoneStranded ExactlyOnce
PROPERTIES OrderKept RunnerFinishes
