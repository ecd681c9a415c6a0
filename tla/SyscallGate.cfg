\* INT 0x32, on a machine where ring 3 can be left.
SPECIFICATION IntSpec
CONSTANTS
  Exception <- MCException
  TssStack = {TRUE}
  Address <- MCAddress
INVARIANT SyscallReached
CHECK_DEADLOCK FALSE
