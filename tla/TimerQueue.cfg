SPECIFICATION FairSpec
CONSTANTS
  Addrs = {1, 2}
  Threads = {t1}
  Whens = {0, 2}
  Intervals = {0, 1}
  MinDelay = 1
  MaxCreated = 2
  MaxNow = 3
  MaxFunctors = 2
INVARIANTS
  TimersOwned
  TimerfdArmed
  CancelIsFinal
PROPERTY DueTimerRuns
