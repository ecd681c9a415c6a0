\* The first get_phys_block after paging_init.
SPECIFICATION BootSpec
CONSTANTS
  Last = 16
  Page <- MCPage
  Index <- MCIndex
  Flag <- MCFlag
  Memmap <- MCMemmap
  RamImage <- MCRamImage
  StoreImage <- MCStoreImage
  INT_MAX = 31
  ULONG_MAX = 63
  Request <- MCRequest
  RootsClean = TRUE
  KernelBases <- MCKernelBases
  BaseVirt = 72
  HhdmOffset = 54
  HhdmPages = 4
INVARIANT FirstBlockTaken
CHECK_DEADLOCK FALSE
