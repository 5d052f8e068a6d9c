SPECIFICATION Spec
CONSTANTS
  ls = ls
  c1 = c1
  c2 = c2
  None = None
  Slots <- MCSlots
  Listener = ls
  MaxUse = 2
  MaxReuse = 1
  Posting <- MCPosting
  HashNames <- MCNames
  Asked <- MCAsked
  HashOf <- MCHashOf
  LenOf <- MCLenOf
  HashConfs <- MCConfs
  CacheLine = 2
  HashKeys = 3
  KeyBits = 3
  RadixValues = {1}
  NoValue = 0
  PerPage = 4
  RadixPages = 2
  Nil = Nil
  NULL = NULL
  Nodes <- Ten
  MaxDeletes = 1
  Half = 16
  Wraps = TRUE
  KeysOf <- Around
INVARIANTS ConnectionsAreSound  WellFormed
PROPERTIES  ImplementsOrderedTree
CHECK_DEADLOCK FALSE
