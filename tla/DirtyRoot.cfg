\* A pml4 in a frame that nobody cleared, on a machine whose RAM is not all zeros.
SPECIFICATION PagingSpec
CONSTANTS
  Last = 7
  Page <- MCPage
  Index <- MCIndex
  Flag <- MCFlag
  Memmap <- MCMemmap
  RamImage <- DirtyRam
  StoreImage <- MCStoreImage
  INT_MAX = 15
  ULONG_MAX = 31
  Request <- AnyRequests
  RootsClean = FALSE
INVARIANT WalksStructuresOnly
CHECK_DEADLOCK FALSE
