\* Progress of one thread against another that may stop anywhere.
CONSTANTS
  Threads = {t1, t2}
  Items = {a, b, c}
  Null = null
  CountMod = 16
  Runner = t1
SPECIFICATION MCSpec
PROPERTIES RunnerFinishes
