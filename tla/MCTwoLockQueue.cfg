\* Three threads, three items and three addresses, one of them the first
\* dummy: the third enqueue gets an address that was deleted before.
CONSTANTS
  Threads = {t1, t2, t3}
  Items = {a, b, c}
  Nodes = {n1, n2, n3}
  Null = null
SPECIFICATION MCSpec
INVARIANTS TypeOK ListShape MemorySafe
PROPERTIES Linearizable EnqueuesFinish
