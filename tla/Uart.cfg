SPECIFICATION Spec
CONSTANTS
  MSG_SIZE = 4
  UartDepth = 2
  LineEnd = LineEnd
  Lines = 4
  MaxLine = 5
INVARIANTS TypeOK LinesAreNotMixed
