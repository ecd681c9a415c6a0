\* Two ports, each with or without a UART, and bytes arriving at any moment.
\* serial_init halts when no port passes the test, a failure stops the kernel,
\* and clients may stop.
SPECIFICATION SerialSpec
CONSTANTS
  COM_PORT_COUNT = 2
  Byte <- MCByte
  TEST <- MCTest
  FLOATING <- MCFloating
  NUL <- MCNul
  Message <- MCMessage
  Delimiter <- MCDelimiter
  Detected <- MCDetected
  Initialised <- MCInitialised
  Report <- MCReport
  Fifo = 2
  MaxArrivals = 2
  MaxCalls = 1
  MaxRead = 2
INVARIANTS
  SerialTypeOK
  OutputComplete
  InputInOrder
  ConsoleConnected
  ReportLast
PROPERTIES
  SerialSettles
  ReadsReturn
  FailureReported
CHECK_DEADLOCK FALSE
