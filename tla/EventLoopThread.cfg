SPECIFICATION ThreadFairSpec
CONSTANTS
  Threads = {owner}
  Owner = owner
  Functors = {f1, f2}
  IOChannels = {}
  WakeupChannel = wakeupChannel
  NoChannel = null
CHECK_DEADLOCK FALSE
INVARIANTS LoopOutlivesCalls
PROPERTIES StartLoopReturns LateDtorReturns
