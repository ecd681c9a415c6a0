\* Interrupts at every instruction of the boot and of a module.
\* The handlers and done() never return.
SPECIFICATION IntSpec
CONSTANTS
  Exception <- MCException
  TssStack = {TRUE, FALSE}
  Address <- MCAddress
INVARIANTS
  IntTypeOK
  InterruptsReported
  NoForgedExceptions
CHECK_DEADLOCK FALSE
