SPECIFICATION Spec
CONSTANTS
  Pages = 2
  PageSize = 32
  MinSize = 2
  Byte = 2
  Word = 4
  SlabRequests <- Smallest
  MaxLive = 3
INVARIANT BitmapIsReserved
