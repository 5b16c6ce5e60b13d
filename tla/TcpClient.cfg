SPECIFICATION Spec
CONSTANTS
  Fds = {1, 2, 3, 4}
  MaxFail = 1
  UserCalls = {"connect", "disconnect", "stop", "destroy"}
  UserInLoop = {TRUE, FALSE}
  RetryModes = {TRUE, FALSE}
  MaxCalls = 3
INVARIANTS SocketsAccounted NoDangling StopIsFinal
PROPERTIES Connects CleanedUp
CHECK_DEADLOCK FALSE
