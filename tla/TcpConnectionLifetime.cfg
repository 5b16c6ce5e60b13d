SPECIFICATION Spec
CONSTANTS
  Threads = {t1}
  OwnCalls = {"send", "shutdown", "startRead", "stopRead", "drop"}
  ForeignCalls = {"send", "shutdown", "forceClose", "startRead", "stopRead", "drop"}
  ServerCalls = {"destroy"}
  SameLoops = {TRUE, FALSE}
  MsgLen = 1
  HighWaterMark = 1
  MaxSend = 1
  MaxFunctors = 2
  MaxCloses = 2
INVARIANTS
  ClosedOnce
  DestroyedClosed
