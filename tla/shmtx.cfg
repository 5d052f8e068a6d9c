SPECIFICATION FairSpec
CONSTANTS
  w1 = w1
  w2 = w2
  w3 = w3
  m = m
  Free = Free
  Workers <- MCWorkers
  Master = m
  Semaphore = TRUE
  MaxFaults = 1
INVARIANTS NoOrphanedLock SemAccounting NoLostWakeup
PROPERTIES Implements Progress
