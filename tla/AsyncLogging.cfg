SPECIFICATION Spec
CONSTANTS
  RollSize = 3
  CheckEveryN = 2
  FlushInterval = 0
  RollPerSeconds = 2
  MaxNow = 4
  BufferSize = 3
  DropAbove = 2
  MaxLines = 6
INVARIANTS LinesConserved BuffersRecycled FilesRoll
PROPERTIES LinesReachDisk StopReturns
CHECK_DEADLOCK FALSE
