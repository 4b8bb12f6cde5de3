SPECIFICATION Spec
CONSTANTS
  IPC_QUEUE_SIZE = 3
  IPC_MAX_DATA = 1
  MaxLen = 2
  Bytes = {0, 1}
  Pids = {0, 8}
  Types = {0}
INVARIANTS TypeOK RingConsistent
PROPERTY IsMessageQueue
