SPECIFICATION Spec
CONSTANTS
  MAX_TASKS = 3
  MAX_FUTEX_WAITERS = 2
  UAddrs = {u1, u2}
  MaxSleep = 1
  MaxWake = 1
  Program <- ProgAny
INVARIANTS TypeOK OneRunning PidsUnique FutexSleeperQueued FutexScanned
CHECK_DEADLOCK FALSE
