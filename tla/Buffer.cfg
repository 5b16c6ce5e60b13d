SPECIFICATION BufferSpec
CONSTANTS
  Byte = {"a", "b"}
  Zero = "a"
  kCheapPrepend = 2
  kInitialSize = 1
  ExtraBuf = 2
  Pieces <- MCPieces
  MaxReserve = 2
  MaxReadable = 3
  MaxPrepended = 2
INVARIANTS
  CheapPrepend
PROPERTIES
  ImplementsByteQueue
