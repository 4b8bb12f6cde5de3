SPECIFICATION FairSpec
CONSTANTS
  MAX_TASKS = 3
  MAX_FUTEX_WAITERS = 2
  UAddrs = {u1}
  MaxSleep = 1
  MaxWake = 1
  Program <- ProgBusy
PROPERTIES NoStarvation WakeReturns
CHECK_DEADLOCK FALSE
