SPECIFICATION FairSpec
CONSTANTS
  Threads = {t1, t2}
  Functors = {f1, f2, f3}
  IOChannels = {c1}
  WakeupChannel = wakeupChannel
  NoChannel = null
INVARIANTS
  NoLostWakeup
PROPERTIES
  ImplementsExecutor
  PromptlyRun
  QuitStops
