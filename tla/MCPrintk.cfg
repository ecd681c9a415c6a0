\* Every call of MCPrintk.  printk returns, and nothing follows.
SPECIFICATION PrintkSpec
CONSTANTS
  HEX = 3
  WIDTH = 5
  DEC = 2
  BUF = 8
  Call <- MCCall
INVARIANTS
  PrintsExpected
  BufferInBounds
CHECK_DEADLOCK FALSE
