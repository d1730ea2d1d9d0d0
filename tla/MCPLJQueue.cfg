\* Safety, three threads: an enqueue, a dequeue and a helper meet at every
\* state of Figure 2.  The counters do not wrap.
CONSTANTS
  Threads = {t1, t2, t3}
  Items = {a, b}
  Null = null
  CountMod = 16
  Runner = t1
SPECIFICATION Spec
SYMMETRY Symmetry
INVARIANTS TypeOK FigureTwo
PROPERTIES Linearizable LinkCounted
