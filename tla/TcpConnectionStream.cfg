SPECIFICATION FairSpec
CONSTANTS
  Threads = {t1}
  OwnCalls = {"send", "shutdown", "forceClose", "forceCloseWithDelay"}
  ForeignCalls = {"send"}
  ServerCalls = {}
  SameLoops = {FALSE}
  MsgLen = 2
  HighWaterMark = 3
  MaxSend = 2
  MaxFunctors = 2
  MaxCloses = 2
INVARIANTS
  StreamInOrder
  WritingIffPending
  ShutdownAfterData
PROPERTIES
  ClosingCompletes
