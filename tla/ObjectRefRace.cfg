SPECIFICATION Spec
CONSTANTS
  Threads = {t1, t2}
  Compilers = {t1, t2}
  Owner = session
  Func = func
  Types = {a, b, c}
  Null = null
INVARIANTS NoUseAfterFree
CHECK_DEADLOCK FALSE
