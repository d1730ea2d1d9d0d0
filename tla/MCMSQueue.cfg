\* Three threads race on two items, with counters that wrap after one step:
\* the algorithm must not depend on them while no address is reused.
CONSTANTS
  Threads = {t1, t2, t3}
  Items = {a, b}
  Dummy = dummy
  Null = null
  CountMod = 2
  Runner = t1
SPECIFICATION MCSpec
INVARIANTS TypeOK ListShape MemorySafe
PROPERTIES Linearizable RunnerFinishes
