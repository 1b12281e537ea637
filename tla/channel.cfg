SPECIFICATION FairSpec
CONSTANTS
  Threads = {main, g1, g2}
  Main = main
  MaxCap = 1
  MaxValues = 2
  MaxArgs = 2
  MaxNest = 1
INVARIANTS TypeOK OnlyOnce FieldFirst
PROPERTIES Delivers Released
CHECK_DEADLOCK FALSE
