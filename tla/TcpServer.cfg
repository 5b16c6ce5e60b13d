SPECIFICATION FairSpec
CONSTANTS
  MaxFds = 3
  MaxClients = 3
  MaxOthers = 1
  MaxThreads = 2
CHECK_DEADLOCK FALSE
INVARIANTS
  ConnectionsTracked
  ReserveHeld
PROPERTIES
  ClientAnswered
  TornDown
