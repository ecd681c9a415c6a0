\* A UART whose loopback takes time, or whose line is not silent.
SPECIFICATION SerialSpec
CONSTANTS
  COM_PORT_COUNT = 2
  Byte <- MCByte
  TEST <- MCTest
  FLOATING <- MCFloating
  NUL <- MCNul
  Message <- MCMessage
  Delimiter <- MCDelimiter
  Detected <- MCDetected
  Initialised <- MCInitialised
  Report <- MCReport
  Fifo = 2
  MaxArrivals = 2
  MaxCalls = 1
  MaxRead = 2
INVARIANT WorkingPortReady
CHECK_DEADLOCK FALSE
