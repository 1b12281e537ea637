SPECIFICATION Spec
CONSTANTS
  Threads = {t1, t2}
  None = None
  MaxNest = 1
INVARIANTS UnlockReported
CHECK_DEADLOCK FALSE
