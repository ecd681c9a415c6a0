\* Tasks and module spaces made in any order until RAM runs out.
SPECIFICATION TasksSpec
CONSTANTS
  Last = 24
  Page <- MCPage
  Index <- MCIndex
  Flag <- MCFlag
  Memmap <- MCMemmap
  RamImage <- MCRamImage
  StoreImage <- MCStoreImage
  INT_MAX = 31
  ULONG_MAX = 63
  Request <- MCRequest
  RootsClean = TRUE
  N_TASKS = 2
  Modules <- MCModules
  N_BLOCKS = 2
  StackPage <- MCStackPage
  ExecPages <- MCExecPages
INVARIANTS
  FramesAccounted
  SpacesIsolated
  KernelFramesUnreachable
  ModuleSpaceExact
PROPERTIES
  TasksKeepTheirFrame
  TranslationsKept
CHECK_DEADLOCK FALSE
