SPECIFICATION Spec
CONSTANTS
  Threads = {main, g1, g2}
  Main = main
  MaxCap = 0
  MaxValues = 2
  MaxArgs = 2
  MaxNest = 1
INVARIANTS SendRefused
CHECK_DEADLOCK FALSE
