\* Three threads, three items and two addresses: the third enqueue gets an
\* address that was deleted before.
CONSTANTS
  Threads = {t1, t2, t3}
  Items = {a, b, c}
  Nodes = {n1, n2}
  Null = null
SPECIFICATION MCSpec
INVARIANTS TypeOK MemorySafe
PROPERTIES Linearizable MutexReturned
