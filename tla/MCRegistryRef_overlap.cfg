CONSTANTS
  Threads = {t1, t2}
  Values = {v1, v2}
  MAIN = MAIN
  GLOBALS = GLOBALS
SPECIFICATION Spec
INVARIANT Holds
