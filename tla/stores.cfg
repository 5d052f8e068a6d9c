SPECIFICATION Spec
CONSTANTS
  Pages = 3
  PageSize = 16
  MinSize = 2
  Byte = 2
  Word = 4
  SlabRequests <- ChunksAndRuns
  MaxLive = 6
  n1 = n1
  n2 = n2
  i1 = i1
  i2 = i2
  r1 = r1
  r2 = r2
  e1 = e1
  e2 = e2
  e3 = e3
  None = None
  Names <- MCNames
  Requests <- MCRequests
  Entries <- MCEntries
  Inodes <- MCInodes
  MaxFd = 2
  MaxFiles = 1
  Valid = 1
  Inactive = 0
  MinUses <- Two
  Wanted <- Asked
  PoolSize = 7
  PoolFails = 1
  PoolOps = 5
SYMMETRY Symmetric
INVARIANTS SlabIsSound CacheIsSound 
PROPERTIES ImplementsAllocator ServedFresh
CHECK_DEADLOCK FALSE
