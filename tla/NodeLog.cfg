SPECIFICATION FairSpec
CONSTANTS
  Thread = {t1, t2}
  LOG_CAPACITY = 2
  MaxRecords = 3
INVARIANTS
  NeverPoisoned
  LogIsRecentOutput
PROPERTIES
  LockIsReleased
