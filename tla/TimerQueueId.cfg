SPECIFICATION Spec
CONSTANTS
  Addrs = {1, 2}
  Threads = {t1}
  Whens = {2}
  Intervals = {0, 1}
  MinDelay = 1
  MaxCreated = 2
  MaxNow = 2
  MaxFunctors = 1
INVARIANT IdNamesTimer
