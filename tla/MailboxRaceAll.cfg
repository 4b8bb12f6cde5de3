SPECIFICATION RaceSpec
CONSTANTS
  IPC_QUEUE_SIZE = 3
  MaxMessages = 5
INVARIANTS CountInRange ReceivedInOrder
CHECK_DEADLOCK FALSE
