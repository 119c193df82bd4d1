SPECIFICATION Spec
CONSTANTS
  Threads = {t1, t2, t3}
  Compilers = {t1, t2}
  Owner = session
  Func = func
  Types = {a, b, c}
  Null = null
INVARIANTS CountExact FreedOnlyByOverlap NoLeak
CHECK_DEADLOCK FALSE
