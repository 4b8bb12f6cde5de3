SPECIFICATION RaceSpec
CONSTANTS
  IPC_QUEUE_SIZE = 3
  MaxMessages = 3
INVARIANT AcceptedIsDelivered
CHECK_DEADLOCK FALSE
