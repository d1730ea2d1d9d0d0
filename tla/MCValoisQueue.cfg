\* Three threads race on two items: any mix of two enqueues and of dequeues.
CONSTANTS
  Threads = {t1, t2, t3}
  Items = {a, b}
  Dummy = dummy
  Null = null
  Runner = t1
SPECIFICATION MCSpec
INVARIANTS TypeOK ListShape MemorySafe
PROPERTIES Linearizable RunnerFinishes
