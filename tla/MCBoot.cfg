\* The boot up to _start's first block, on three machines.
\* It ends there, at an ASSERT, or in the page fault handler.
SPECIFICATION BootSpec
CONSTANTS
  Last = 16
  Page <- MCPage
  Index <- MCIndex
  Flag <- MCFlag
  Memmap <- MCMemmap
  RamImage <- MCRamImage
  StoreImage <- MCStoreImage
  INT_MAX = 31
  ULONG_MAX = 63
  Request <- MCRequest
  RootsClean = TRUE
  KernelBases <- MCKernelBases
  BaseVirt = 72
  HhdmOffset = 54
  HhdmPages = 4
INVARIANTS
  KernelMapExact
  StructuresNeeded
  FramesAccounted
  ExhaustedOnlyWhenAllHeld
PROPERTY BootSettles
CHECK_DEADLOCK FALSE
