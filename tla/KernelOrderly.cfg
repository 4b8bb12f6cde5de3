SPECIFICATION Spec
CONSTANTS
  MAX_TASKS = 5
  MAX_FUTEX_WAITERS = 4
  UAddrs = {u1, u2}
  MaxSleep = 1
  MaxWake = 2
  Program <- ProgOrderly
INVARIANTS WaitReturnsAfterExit FutexReturnsAfterWake WaiterRegistered NeverHalts
PROPERTIES DeadStaysDead FutexWakesItsWaiters
CHECK_DEADLOCK FALSE
