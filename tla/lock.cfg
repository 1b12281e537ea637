SPECIFICATION FairSpec
CONSTANTS
  Threads = {t1, t2, t3}
  None = None
  MaxNest = 2
INVARIANTS TypeOK OwnerCanUnlock OwnersNeverCrash NeverStuck
PROPERTIES Excludes Acquires
CHECK_DEADLOCK FALSE
