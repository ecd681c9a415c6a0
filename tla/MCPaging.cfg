\* Any calls, any rights, two spaces, RAM full of leftovers where no pml4 goes.
SPECIFICATION PagingSpec
CONSTANTS
  Last = 7
  Page <- MCPage
  Index <- MCIndex
  Flag <- MCFlag
  Memmap <- MCMemmap
  RamImage <- MCRamImage
  StoreImage <- MCStoreImage
  INT_MAX = 15
  ULONG_MAX = 31
  Request <- AnyRequests
  RootsClean = TRUE
INVARIANTS
  PagingTypeOK
  FramesAccounted
  StructuresPrivate
  WalksStructuresOnly
  FreeListWalk
PROPERTIES
  MapsAsAsked
  CachedEntriesHold
CHECK_DEADLOCK FALSE
