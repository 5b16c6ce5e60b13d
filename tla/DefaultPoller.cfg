SPECIFICATION Spec
CONSTANTS
  c1 = c1
  c2 = c2
  c3 = c3
  c4 = c4
  Channels = {c1, c2, c3, c4}
  Fd <- MCFd
  NoChannel = NoChannel
  InitEventListSize = 1
  MaxEventListSize = 2
INVARIANTS
  DispatchToAdded
  KernelMirrorsChannels
CHECK_DEADLOCK FALSE
PROPERTY ImplementsPoller
