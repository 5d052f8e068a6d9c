SPECIFICATION FairSpec
CONSTANTS
  p1 = p1
  p2 = p2
  p3 = p3
  p4 = p4
  Procs <- MCProcs
  WLOCK = 5
INVARIANT WordCountsHolders
PROPERTIES Implements Progress
