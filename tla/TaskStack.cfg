\* What new_task leaves in pml4_table.
SPECIFICATION TasksSpec
CONSTANTS
  Last = 12
  Page <- MCPage
  Index <- MCIndex
  Flag <- MCFlag
  Memmap <- MCMemmap
  RamImage <- MCRamImage
  StoreImage <- MCStoreImage
  INT_MAX = 31
  ULONG_MAX = 63
  Request <- MCRequest
  RootsClean = TRUE
  N_TASKS = 2
  Modules <- MCModules
  N_BLOCKS = 2
  StackPage <- MCStackPage
  ExecPages <- MCExecPages
INVARIANT StackMapped
CHECK_DEADLOCK FALSE
