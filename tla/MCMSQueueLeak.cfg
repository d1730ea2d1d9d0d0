\* One thread is enough to leave nodes behind.
CONSTANTS
  Threads = {t1}
  Items = {a, b}
  Dummy = dummy
  Null = null
  CountMod = 4
  Runner = t1
SPECIFICATION MCSpec
INVARIANTS NoLeak
