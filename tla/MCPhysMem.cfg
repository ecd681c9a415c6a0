\* Every sequence of allocator calls and client stores on four usable frames.
\* The CPU really stops in the two ASSERTs, so a deadlock is no error.
SPECIFICATION MemSpec
CONSTANTS
  Page <- MCPage
  Index <- MCIndex
  Flag <- MCFlag
  Memmap <- MCMemmap
  RamImage <- MCRamImage
  StoreImage <- MCStoreImage
  INT_MAX = 3
  ULONG_MAX = 15
INVARIANTS
  MemTypeOK
  FreeListIntact
  ExhaustedOnlyWhenAllHeld
  CountCongruent
PROPERTIES
  PoolSpec
CHECK_DEADLOCK FALSE
