SPECIFICATION FairSpec
CONSTANTS
  Main = main
  Goroutines = {g1, g2}
  MaxAdds = 2
  MaxExtra = 1
INVARIANTS TypeOK WaitJoins CrashNeedsMisuse
PROPERTIES WaitReturns
CHECK_DEADLOCK FALSE
